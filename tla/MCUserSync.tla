------------------------------ MODULE MCUserSync ------------------------------
EXTENDS UserSync, TLC

CONSTANTS r, s1, s2

===============================================================================
