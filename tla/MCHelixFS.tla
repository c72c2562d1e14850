----------------------------- MODULE MCHelixFS -----------------------------
(* HelixFS for TLC, and the promise of NamespaceStore that it implements.  *)
EXTENDS HelixFS

\* Two files of one block with three free blocks between them: a file of four
\* blocks has to be fragmented.
A == <<Root, "a">>
B == <<"d", "a">>
Holes == << <<A, 1>>, <<B, 3>>, <<A, 1>>, <<B, 1>> >>
NoSetup == <<>>

Store == INSTANCE NamespaceStore
           WITH Path <- Path, Dirs <- DirPath, Under <- Under,
                live <- fs.ix, durable <- synced

\* The namespace in memory and the one on the medium behave as a store whose
\* durable copy changes only by a sync (or the sync in a checkpoint), all of
\* it at once, and to which a power loss returns.
Durability == Store!Spec
=============================================================================
