----------------------------- MODULE MCDownload -----------------------------
(* A disk with one partition in front, one behind and a gap between them; a
   request for a free range and one that overlaps; servers that announce the
   length of the body, a longer one, a shorter one, or none. *)
EXTENDS Download

Parts == {<<2, 3>>, <<8, 8>>}

R(header, ok, clen, body) == [header |-> header, ok |-> ok, clen |-> clen, body |-> body]

Answers == {R(1, TRUE, 5, 5), R(2, TRUE, 2, 3), R(1, TRUE, 4, 3), R(1, TRUE, -1, 3),
            R(1, FALSE, 1, 1), R(4, TRUE, 1, 1), R(1, TRUE, 0, 0)}

=============================================================================
