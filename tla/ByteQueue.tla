----------------------------- MODULE ByteQueue -----------------------------
(***************************************************************************)
(* What a pipe promises its ends: a bounded queue of bytes.  A write takes *)
(* as much as fits, a read gives as much as there is, in order.            *)
(***************************************************************************)
EXTENDS Naturals, Sequences

CONSTANTS Pipe, Cap, Datum, MaxRead   \* Datum: what a write may carry
VARIABLES open,                       \* the pipes in use
          held,                       \* the bytes in each pipe
          out                         \* the bytes last read

Smaller(m, n) == IF m < n THEN m ELSE n

Init == open = {} /\ held = [i \in Pipe |-> <<>>] /\ out = <<>>

Put(i, d) ==
  /\ i \in open
  /\ held' = [held EXCEPT ![i] = @ \o SubSeq(d, 1, Smaller(Len(d), Cap - Len(@)))]
  /\ UNCHANGED <<open, out>>

Take(i, n) ==
  /\ i \in open
  /\ LET k == Smaller(n, Len(held[i]))
     IN /\ out' = SubSeq(held[i], 1, k)
        /\ held' = [held EXCEPT ![i] = SubSeq(@, k + 1, Len(@))]
  /\ UNCHANGED open

Create(i) ==
  /\ i \notin open /\ open' = open \cup {i}
  /\ held' = [held EXCEPT ![i] = <<>>]
  /\ UNCHANGED out

Release(i) == i \in open /\ open' = open \ {i} /\ UNCHANGED <<held, out>>

Next == \E i \in Pipe : \/ \E d \in Datum : Put(i, d)
                        \/ \E n \in 1 .. MaxRead : Take(i, n)
                        \/ Create(i) \/ Release(i)

Spec == Init /\ [][Next]_<<open, held, out>>
=============================================================================
