--------------------------- MODULE NamespaceStore ---------------------------
(***************************************************************************)
(* What a file system with a sync call promises about its namespace: the   *)
(* running system serves `live`, and `durable` is the namespace a mount    *)
(* after a power loss would serve.  Only a sync moves `durable`, and it    *)
(* moves it to the live namespace, all of it at once; a power loss during  *)
(* a sync may find it done or not done, and never half done.               *)
(***************************************************************************)

CONSTANTS Path,    \* names that may be bound
          Dirs,    \* the names of directories
          Under(_) \* the names below a directory

VARIABLES live, durable

\* A mounted store starts from what is durable.
Init == live = durable

\* A name is bound or rebound; nothing else changes.
Bind == \E p \in Path :
           /\ DOMAIN live' = DOMAIN live \union {p}
           /\ \A q \in DOMAIN live \ {p} : live'[q] = live[q]

\* A name goes away.  A directory goes only when nothing is under it.
Drop == \E p \in DOMAIN live :
           /\ p \in Dirs => Under(p) \intersect DOMAIN live = {}
           /\ live' = [q \in DOMAIN live \ {p} |-> live[q]]

\* A file goes from one name to another, over whatever was there.
Move == \E p \in DOMAIN live \ Dirs, t \in Path \ Dirs :
           /\ p # t
           /\ DOMAIN live' = (DOMAIN live \ {p}) \union {t}
           /\ \A q \in DOMAIN live \ {p, t} : live'[q] = live[q]

\* A file and the directory above it come into being in one call.
BindUnder == \E d \in Dirs \ DOMAIN live : \E p \in Under(d) :
                /\ DOMAIN live' = DOMAIN live \union {d, p}
                /\ \A q \in DOMAIN live \ {p} : live'[q] = live[q]

\* A directory goes, or starts to go, to a new name with what is below it.
MoveDir == \E d, e \in Dirs : \E gone \in SUBSET ({d} \union Under(d)) :
              /\ d # e /\ gone \subseteq DOMAIN live
              /\ DOMAIN live \ gone \subseteq DOMAIN live'
              /\ DOMAIN live' \subseteq (DOMAIN live \ gone) \union {e} \union Under(e)
              /\ \A q \in DOMAIN live \ (gone \union Under(e)) : live'[q] = live[q]

Change == (Bind \/ Drop \/ Move \/ BindUnder \/ MoveDir) /\ UNCHANGED durable

Sync == durable' = live /\ UNCHANGED live

Crash == durable' \in {durable, live} /\ live' = durable'

Next == Change \/ Sync \/ Crash

Spec == Init /\ [][Next]_<<live, durable>>
=============================================================================
