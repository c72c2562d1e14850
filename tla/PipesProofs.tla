---------------------------- MODULE PipesProofs -----------------------------
(***************************************************************************)
(* Safety of pipes, for every number of processes, pipes, descriptors and  *)
(* cores, every size of the ring and every length of a read or a write.    *)
(***************************************************************************)
EXTENDS PipesOneCore, PipesEnds

(***************************************************************************)
(* End of file, while every descriptor is counted.                         *)
(***************************************************************************)
LEMMA EofIs ==
  /\ EofNoWriter <=> \A p \in Proc : pc[p] = "eof" /\ ~copied => OpenIn(fds, arg[p].i, "w") = {}
  /\ EofNoWriter' <=> \A p \in Proc : pc'[p] = "eof" /\ ~copied' => OpenIn(fds', arg'[p].i, "w") = {}
BY DEF EofNoWriter, At, Open, OpenIn, Desc

\* A step that opens no end and lets no reader see the end of file keeps
\* EofNoWriter.
LEMMA EofStep ==
  ASSUME PTypes, Counting, EofNoWriter, NoNewEnd, copied => copied',
         \A q \in Proc : pc'[q] = "eof" => pc[q] = "eof" /\ arg'[q] = arg[q]
  PROVE  EofNoWriter'
<1> SUFFICES ASSUME NEW q \in Proc, pc'[q] = "eof", ~copied'
             PROVE  OpenIn(fds', arg'[q].i, "w") = {}
  BY EofIs
<1>1. pc[q] = "eof" /\ arg'[q] = arg[q] /\ ~copied OBVIOUS
<1>2. OpenIn(fds, arg[q].i, "w") = {} BY <1>1, EofIs
<1>3. pc[q] \in Path BY <1>1 DEF Path, Labels
<1>4. arg[q].i \in Pipe BY <1>3, AtPath DEF Locals
<1> QED BY <1>1, <1>2, <1>4 DEF NoNewEnd, Ends

\* So does one that moves one process elsewhere.
LEMMA EofMoves ==
  ASSUME PTypes, Counting, EofNoWriter, NoNewEnd, copied => copied',
         NEW p \in Proc, OnlyMoves(p), pc'[p] # "eof"
  PROVE  EofNoWriter'
BY EofStep DEF OnlyMoves

\* A step that leaves the descriptors alone opens no end.
LEMMA SameEnds == ASSUME fds' = fds PROVE NoNewEnd
BY DEF NoNewEnd

\* What holds on any number of cores.
Ends3 == Kept /\ Counted /\ EofNoWriter

\* A steady step keeps the counts and EofNoWriter.
LEMMA SteadyStep ==
  ASSUME PTypes, Counting, Counted, EofNoWriter, NEW p \in Proc, Steady(p), pc'[p] # "eof"
  PROVE  Counted' /\ EofNoWriter'
<1>1. fds' = fds /\ copied' = copied /\ OnlyMoves(p) BY DEF Steady
<1> QED BY <1>1, SteadyCounted, SameEnds, EofMoves

\* The steps on the way through a call keep Ends3.
LEMMA WalkEnds ==
  ASSUME PTypes, Counting, Ends3, copied' = copied, NEW p \in Proc,
         \/ PublishIn(p) \/ PublishOut(p) \/ WakeToken(p) \/ WakeLook(p) \/ WakeSweep(p)
         \/ NoBytes(p) \/ ReturnEof(p) \/ MarkWaiter(p) \/ Block(p) \/ Resume(p)
         \/ HangUp(p) \/ CloseDone(p) \/ ExitHangUp(p)
  PROVE  Ends3'
<1> USE DEF Ends3
<1>1. Walk(p) \/ Returns(p) BY Walks
<1>2. Kept' /\ OnlyMoves(p) BY <1>1, WalkKept, ReturnKept, WalkMoves, ReturnMoves, Zenon
<1>3. UNCHANGED <<pipe, fds>>
  BY Zenon DEF PublishIn, PublishOut, WakeToken, WakeLook, WakeSweep, NoBytes, ReturnEof, MarkWaiter,
         Block, Resume, HangUp, CloseDone, ExitHangUp
<1>4. pc'[p] # "close" /\ (pc'[p] = "eof" => NoBytes(p))
  <2> USE DEF At, Go, PTypes
  <2>0. pc[p] \in Path
    BY Zenon DEF PublishIn, PublishOut, WakeToken, WakeLook, WakeSweep, NoBytes, ReturnEof, MarkWaiter,
           Block, Resume, HangUp, CloseDone, ExitHangUp, Path, Labels
  <2>n. arg[p].next \in {"wake", "read", "leave"} BY <2>0, AtPath, Zenon DEF Locals
  <2>1. CASE PublishIn(p) \/ PublishOut(p) \/ WakeToken(p)
    BY <2>1, <2>n, Zenon DEF PublishIn, PublishOut, WakeToken
  <2>2. CASE WakeLook(p) \/ WakeSweep(p) \/ CloseDone(p)
    BY <2>2, Zenon DEF WakeLook, WakeSweep, CloseDone, Leave, Return
  <2>3. CASE ReturnEof(p) \/ MarkWaiter(p) \/ Block(p) \/ Resume(p)
    BY <2>3, Zenon DEF ReturnEof, MarkWaiter, Block, Resume, Return
  <2>4. CASE HangUp(p) \/ ExitHangUp(p)
    BY <2>4, Zenon DEF HangUp, ExitHangUp
  <2>5. CASE NoBytes(p) BY <2>5 DEF NoBytes, Return
  <2> QED BY <2>1, <2>2, <2>3, <2>4, <2>5, Zenon
<1>5. Steady(p) BY <1>2, <1>3, <1>4, Zenon DEF Steady
<1>6. CASE pc'[p] # "eof" BY <1>2, <1>5, <1>6, SteadyStep, Zenon
<1>7. CASE pc'[p] = "eof"
  <2>1. NoBytes(p) BY <1>4, <1>7
  <2>2. Counted' BY <1>5, SteadyCounted, Zenon
  <2>3. pc[p] = "read" /\ arg' = arg /\ pipe[arg[p].i].writers = 0
    BY <1>7, <2>1 DEF NoBytes, Return, Go, At, PTypes
  <2>4. arg[p].i \in Pipe
    <3>1. pc[p] \in Path BY <2>3, Zenon DEF Path, Labels
    <3> QED BY <3>1, AtPath DEF Locals
  <2>5. ~copied => OpenIn(fds, arg[p].i, "w") = {}
    <3>1. Refs(pipe[arg[p].i], "w") = 0 BY <2>3 DEF Refs
    <3>2. "w" \in Ends BY DEF Ends
    <3> QED BY <2>4, <3>1, <3>2, CountedActive
  <2>6. EofNoWriter'
    <3> SUFFICES ASSUME NEW q \in Proc, pc'[q] = "eof", ~copied'
                 PROVE  OpenIn(fds', arg'[q].i, "w") = {}
      BY EofIs
    <3>1. CASE q = p BY <1>3, <2>3, <2>5, <3>1, Zenon
    <3>2. CASE q # p
      <4>1. pc[q] = "eof" /\ arg'[q] = arg[q] BY <1>2, <3>2 DEF OnlyMoves
      <4> QED BY <1>3, <4>1, EofIs, Zenon
    <3> QED BY <3>1, <3>2
  <2> QED BY <1>2, <2>2, <2>6
<1> QED BY <1>6, <1>7

\* Entering a read or write, and the transfer, keep Ends3.
LEMMA CallEnds ==
  ASSUME PTypes, Counting, Ends3, copied' = copied, NEW p \in Proc,
         Write(p) \/ Read(p) \/ PipeWrite(p) \/ PipeRead(p)
  PROVE  Ends3'
<1> USE DEF Ends3
<1>1. /\ OnlyMoves(p) /\ fds' = fds /\ Kept'
      /\ pc'[p] \in {"pipe_write", "pipe_read", "publish_in", "wake", "read"}
  BY StartMoves, RingMoves
<1>2. \A i \in Pipe, e \in Ends : Refs(pipe'[i], e) = Refs(pipe[i], e)
  <2>1. CASE Write(p) \/ Read(p)
    <3>1. pipe' = pipe BY <2>1 DEF Write, Read
    <3> QED BY <3>1, Zenon
  <2>2. CASE PipeWrite(p) \/ PipeRead(p) BY <2>2, RingMoves
  <2> QED BY <2>1, <2>2
<1>3. Steady(p) BY <1>1, <1>2 DEF Steady
<1> QED BY <1>1, <1>3, SteadyStep, Zenon

\* A close begins, alone or for dup2.
LEMMA BeginEnds ==
  ASSUME PTypes, Counting, Ends3, copied' = copied, NEW p \in Proc, pc[p] = "user", NEW f \in Fd,
         fds[p][f] # None, fds' = [fds EXCEPT ![p][f] = None], pipe' = pipe, NEW b,
         b.i = fds[p][f].pipe, b.e = fds[p][f].end, b.next # "read",
         b.dup # None => b.dup[2] = f /\ \E g \in Fd \ {f} : fds[p][g] = b.dup[1],
         pc' = [pc EXCEPT ![p] = "close"], arg' = [arg EXCEPT ![p] = b]
  PROVE  Ends3'
<1> USE DEF Ends3
<1>1. OnlyMoves(p) /\ pc'[p] = "close" /\ arg'[p] = b BY Zenon DEF OnlyMoves, PTypes
<1>2. OnlySet(p, f) /\ fds'[p][f] = None BY DEF OnlySet, PTypes
<1>3. Counted' BY <1>1, <1>2, BeginClose DEF OnlyMoves
<1>4. NoNewEnd
  <2>1. ASSUME NEW i \in Pipe, NEW e \in Ends
        PROVE  OpenIn(fds', i, e) \subseteq OpenIn(fds, i, e)
    <3>1. OpenIn(fds', i, e) = OpenIn(fds, i, e) \ {<<p, f>>}
      BY ONLY <1>2, p \in Proc, f \in Fd, i \in Pipe, e \in Ends, OpenGone, Zenon
    <3> QED BY <3>1, Zenon
  <2> QED BY <2>1, Zenon DEF NoNewEnd
<1>5. EofNoWriter' BY <1>1, <1>4, EofMoves, Zenon
<1>6. KeptAt("close", b, fds'[p])
  <2>1. "close" # None BY PipesAssumption DEF Labels
  <2>2. ASSUME b.dup # None
        PROVE  fds'[p][b.dup[2]] = None /\ \E g \in Fd : fds'[p][g] = b.dup[1]
    <3>1. PICK g \in Fd \ {f} : fds[p][g] = b.dup[1] BY <2>2
    <3>2. fds'[p][g] = fds[p][g] BY <1>2, <3>1 DEF OnlySet
    <3> QED BY <1>2, <2>2, <3>1, <3>2, Zenon
  <2> QED BY <2>1, <2>2, Zenon DEF KeptAt
<1>7. Kept' BY <1>1, <1>6, KeptStep
<1> QED BY <1>3, <1>5, <1>7, Zenon

\* A copy is made and counted.
LEMMA CopyEnds ==
  ASSUME PTypes, Counting, Ends3, copied' = copied, NEW p \in Proc, NEW new \in Fd, NEW old \in Fd, NEW s,
         s = fds[p][old], s # None, fds[p][new] = None, DupSet(p, s, new), pc'[p] = "user",
         \A q \in Proc \ {p} : pc'[q] = pc[q] /\ arg'[q] = arg[q]
  PROVE  Ends3'
<1> USE DEF Ends3
<1>1. OnlySet(p, new) /\ fds'[p][new] = s BY DEF DupSet, OnlySet, PTypes
<1>2. Adds(s.pipe, s.end) BY DEF DupSet, Adds
<1>3. OnlyMoves(p) BY Zenon DEF OnlyMoves, DupSet, PTypes
<1>4. Counted' /\ NoNewEnd BY <1>1, <1>2, CopyCounted, Zenon
<1>5. EofNoWriter' BY <1>3, <1>4, EofMoves, Zenon
<1>6. Kept' BY <1>3, KeptFree, KeptStep
<1> QED BY <1>4, <1>5, <1>6, Zenon

\* Close keeps Ends3.
LEMMA CloseEnds == ASSUME PTypes, Counting, Ends3, copied' = copied, NEW p \in Proc, Close(p) PROVE Ends3'
<1>1. PICK f \in Fd : /\ fds[p][f] # None /\ fds' = [fds EXCEPT ![p][f] = None]
                      /\ With(p, CloseLocal(fds[p][f]))
  BY Zenon DEF Close
<1> DEFINE b == CloseLocal(fds[p][f])
<1>2. fds[p][f] \in Descs BY <1>1, FdType, Zenon
<1>3. /\ b.i = fds[p][f].pipe /\ b.e = fds[p][f].end /\ b.dup = None
      /\ b.next = IF b.e = "w" THEN "wake" ELSE "leave"
  BY <1>2, CloseFields
<1>4. pc[p] = "user" /\ pc' = [pc EXCEPT ![p] = "close"] /\ pipe' = pipe
  BY DEF Close, User, At, Go
<1>5. arg' = [arg EXCEPT ![p] = b] BY <1>1 DEF With
<1> HIDE DEF b
<1> QED BY <1>1, <1>3, <1>4, <1>5, BeginEnds, Zenon

\* Dup2 keeps Ends3.
LEMMA Dup2Ends == ASSUME PTypes, Counting, Ends3, copied' = copied, NEW p \in Proc, Dup2(p) PROVE Ends3'
<1>1. PICK old \in Fd, new \in Fd :
         /\ old # new /\ fds[p][old] # None
         /\ IF fds[p][new] = None
            THEN DupSet(p, fds[p][old], new) /\ UNCHANGED <<pc, arg>>
            ELSE /\ fds' = [fds EXCEPT ![p][new] = None]
                 /\ With(p, [CloseLocal(fds[p][new]) EXCEPT !.dup = <<fds[p][old], new>>])
                 /\ Go(p, "close") /\ UNCHANGED pipe
  BY Zenon DEF Dup2
<1>2. fds[p][old] \in Descs BY <1>1, FdType
<1>3. pc[p] = "user" BY DEF Dup2, User, At
<1>4. CASE fds[p][new] = None
  <2>1. DupSet(p, fds[p][old], new) /\ UNCHANGED <<pc, arg>> BY <1>1, <1>4
  <2> DEFINE s == fds[p][old]
  <2>2. s = fds[p][old] /\ s # None /\ DupSet(p, s, new) BY <1>1, <2>1
  <2> HIDE DEF s
  <2> QED BY <1>3, <1>4, <2>1, <2>2, CopyEnds, Zenon
<1>5. CASE fds[p][new] # None
  <2> DEFINE b == [CloseLocal(fds[p][new]) EXCEPT !.dup = <<fds[p][old], new>>]
  <2>1. /\ fds' = [fds EXCEPT ![p][new] = None] /\ pipe' = pipe
        /\ pc' = [pc EXCEPT ![p] = "close"] /\ arg' = [arg EXCEPT ![p] = b]
    BY <1>1, <1>5 DEF Go, With
  <2>2. fds[p][new] \in Descs BY <1>5, FdType
  <2>3. /\ b.i = fds[p][new].pipe /\ b.e = fds[p][new].end /\ b.dup = <<fds[p][old], new>>
        /\ b.next = IF b.e = "w" THEN "wake" ELSE "leave"
    BY <1>2, <2>2, DupFields, Zenon
  <2> HIDE DEF b
  <2>4. b.dup[2] = new /\ \E g \in Fd \ {new} : fds[p][g] = b.dup[1] BY <1>1, <2>3
  <2>5. b.next # "read" BY <2>3, Zenon
  <2> QED BY <1>3, <1>5, <2>1, <2>3, <2>4, <2>5, BeginEnds, Zenon
<1> QED BY <1>4, <1>5

\* The second half of dup2 keeps Ends3.
LEMMA Dup2SetEnds ==
  ASSUME PTypes, Counting, Ends3, copied' = copied, NEW p \in Proc, Dup2Set(p)
  PROVE  Ends3'
<1> DEFINE s == arg[p].dup[1]
           new == arg[p].dup[2]
<1>1. s \in Descs /\ new \in Fd /\ arg[p].dup # None BY DupPending DEF Dup2Set
<1>2. pc[p] = "dup" /\ pc[p] \in Path BY Zenon DEF Dup2Set, At, Path, Labels
<1>3. fds[p][new] = None /\ \E f \in Fd : fds[p][f] = s
  BY <1>1, <1>2, PathInCall, Zenon DEF Ends3, Kept, KeptAt
<1>4. PICK old \in Fd : fds[p][old] = s BY <1>3
<1>5. s # None BY <1>1, NoneApart
<1>6. DupSet(p, s, new) BY Zenon DEF Dup2Set
<1>7. pc'[p] = "user" /\ \A q \in Proc \ {p} : pc'[q] = pc[q] /\ arg'[q] = arg[q]
  BY DEF Dup2Set, Return, Go, With, PTypes
<1> HIDE DEF s, new
<1> QED BY <1>1, <1>3, <1>4, <1>5, <1>6, <1>7, CopyEnds, Zenon

\* Giving up the end keeps Ends3.
LEMMA CloseEndEnds ==
  ASSUME PTypes, Counting, Ends3, copied' = copied, NEW p \in Proc, CloseEnd(p)
  PROVE  Ends3'
<1> USE DEF Ends3
<1>1. Walk(p) \/ Returns(p) BY Walks
<1>2. Kept' /\ OnlyMoves(p) BY <1>1, WalkKept, ReturnKept, WalkMoves, ReturnMoves, Zenon
<1>3. Counted' BY CloseEndCounted
<1>4. fds' = fds BY DEF CloseEnd
<1>5. pc'[p] # "eof"
  <2>1. pc[p] \in Path BY Zenon DEF CloseEnd, At, Path, Labels
  <2>2. arg[p].next \in {"wake", "read", "leave"} BY <2>1, AtPath DEF Locals
  <2> QED BY <2>2, Zenon DEF CloseEnd, Go, PTypes
<1>6. EofNoWriter' BY <1>2, <1>4, <1>5, SameEnds, EofMoves, Zenon
<1> QED BY <1>2, <1>3, <1>6, Zenon

\* Dup keeps Ends3; what it does not count, copied remembers.
LEMMA DupEnds == ASSUME PTypes, Counting, Ends3, NEW p \in Proc, Dup(p) PROVE Ends3'
<1> USE DEF Ends3
<1>1. copied' BY Zenon DEF Dup
<1>2. Counted' /\ EofNoWriter' BY <1>1, CountedIs, EofIs
<1>3. PICK new \in Fd, old \in Fd : fds' = [fds EXCEPT ![p][new] = fds[p][old]] BY Zenon DEF Dup, FreeFd
<1>4. pc'[p] = "user" /\ OnlyMoves(p) BY <1>3 DEF Dup, User, At, OnlyMoves, PTypes
<1>5. Kept' BY <1>4, KeptFree, KeptStep
<1> QED BY <1>2, <1>5

\* The beginning and the end of an exit keep Ends3.
LEMMA ExitEnds ==
  ASSUME PTypes, Counting, Ends3, copied' = copied, NEW p \in Proc, Exit(p) \/ ExitDone(p)
  PROVE  Ends3'
<1> USE DEF Ends3
<1>1. pc'[p] \in {"exit", "zombie"} /\ OnlyMoves(p) /\ fds' = fds /\ pipe' = pipe
  BY Zenon DEF Exit, ExitDone, Go, OnlyMoves, PTypes
<1>2. Kept' BY <1>1, KeptFree, KeptStep, Zenon
<1>3. Steady(p) BY <1>1, Zenon DEF Steady
<1> QED BY <1>1, <1>2, <1>3, SteadyStep, Zenon

\* Giving up one end in an exit keeps Ends3.
LEMMA ExitEndEnds ==
  ASSUME PTypes, Counting, Ends3, copied' = copied, NEW p \in Proc, ExitEnd(p)
  PROVE  Ends3'
<1> USE DEF Ends3
<1>1. Counted' /\ \A i \in Pipe, e \in Ends : OpenIn(fds', i, e) \subseteq OpenIn(fds, i, e)
  BY ExitEndCounted
<1>2. NoNewEnd BY <1>1 DEF NoNewEnd
<1>3. PICK f \in Fd : /\ fds[p][f] # None /\ fds' = [fds EXCEPT ![p][f] = None]
                      /\ \/ UNCHANGED <<pc, arg>>
                         \/ Go(p, "exit_hangup") /\ With(p, CloseLocal(fds[p][f]))
  BY Zenon DEF ExitEnd
<1>4. pc[p] = "exit" BY Zenon DEF ExitEnd, At
<1>5. OnlyMoves(p) /\ pc'[p] \in {"exit", "exit_hangup"}
  BY <1>3, <1>4, Zenon DEF OnlyMoves, Go, With, PTypes
<1>6. EofNoWriter' BY <1>2, <1>5, EofMoves, Zenon
<1>7. KeptAt(pc'[p], arg'[p], fds'[p])
  <2>1. CASE pc'[p] = "exit" BY <2>1, KeptFree, Zenon
  <2>2. CASE pc'[p] = "exit_hangup"
    <3>1. arg' = [arg EXCEPT ![p] = CloseLocal(fds[p][f])] BY <1>3, <1>4, <2>2 DEF With
    <3> DEFINE b == CloseLocal(fds[p][f])
    <3>2. fds[p][f] \in Descs BY <1>3, FdType, Zenon
    <3>3. b.dup = None /\ b.next = IF b.e = "w" THEN "wake" ELSE "leave" BY <3>2, CloseFields, Zenon
    <3> HIDE DEF b
    <3>4. arg'[p] = b BY <3>1 DEF b, PTypes
    <3>5. "exit_hangup" # None BY PipesAssumption DEF Labels
    <3>6. b.next # "read" BY <3>3
    <3> QED BY <2>2, <3>3, <3>4, <3>5, <3>6, Zenon DEF KeptAt
  <2> QED BY <1>5, <2>1, <2>2, Zenon
<1> QED BY <1>1, <1>5, <1>6, <1>7, KeptStep, Zenon

\* SysPipe keeps Ends3.
LEMMA SysPipeEnds ==
  ASSUME PTypes, Counting, Ends3, copied' = copied, NEW p \in Proc, SysPipe(p)
  PROVE  Ends3'
<1> USE DEF Ends3
<1>1. /\ Counted'
      /\ \A i \in Pipe, e \in Ends :
           pipe[i].active => OpenIn(fds', i, e) \subseteq OpenIn(fds, i, e)
  BY SysPipeCounted, Zenon
<1>2. pc' = pc /\ arg' = arg /\ pc[p] = "user" BY DEF SysPipe, User, At
<1>3. \A q \in Proc \ {p} : fds'[q] = fds[q]
  <2>1. PICK t : fds' = [fds EXCEPT ![p] = t] BY Zenon DEF SysPipe
  <2> QED BY <2>1 DEF PTypes
<1>4. OnlyMoves(p) BY <1>2, <1>3 DEF OnlyMoves
<1>5. Kept' BY <1>2, <1>4, KeptFree, KeptStep, Zenon
<1>6. EofNoWriter'
  <2> SUFFICES ASSUME NEW q \in Proc, pc'[q] = "eof", ~copied'
               PROVE  OpenIn(fds', arg'[q].i, "w") = {}
    BY EofIs
  <2> DEFINE i == arg[q].i
  <2>1. pc[q] = "eof" /\ ~copied /\ arg'[q] = arg[q] BY <1>2
  <2>2. pc[q] \in Path BY <2>1, Zenon DEF Path, Labels
  <2>3. i \in Pipe /\ arg[q].next = "read" BY <2>1, <2>2, AtPath, Zenon DEF Locals, LocalAt
  <2>4. \E f \in Fd : fds[q][f] = Desc(i, "r") BY <2>2, <2>3, PathInCall, Zenon DEF Kept, KeptAt
  <2>5. OpenIn(fds, i, "r") # {}
    <3>1. PICK f \in Fd : fds[q][f] = Desc(i, "r") BY <2>4
    <3>2. <<q, f>> \in OpenIn(fds, i, "r") BY <3>1 DEF OpenIn
    <3> QED BY <3>2
  <2>6. "r" \in Ends /\ "w" \in Ends BY DEF Ends
  <2>7. pipe[i].active BY <2>1, <2>3, <2>5, <2>6, CountedActive, Zenon
  <2>8. OpenIn(fds, i, "w") = {} BY <2>1, EofIs
  <2> QED BY <1>1, <2>1, <2>3, <2>6, <2>7, <2>8, Zenon
<1> QED BY <1>1, <1>5, <1>6, Zenon

\* Spawn keeps Ends3; what it does not count, copied remembers.
LEMMA SpawnEnds == ASSUME PTypes, Counting, Ends3, NEW p \in Proc, Spawn(p) PROVE Ends3'
<1> USE DEF Ends3
<1>1. Kept' /\ Counted' /\ NoNewEnd BY SpawnCounted
<1>2. copied => copied' BY Zenon DEF Spawn
<1>3. \A q \in Proc : pc'[q] = "eof" => pc[q] = "eof" /\ arg'[q] = arg[q]
  BY DEF Spawn, Go, PTypes
<1> QED BY <1>1, <1>2, <1>3, EofStep, Zenon

\* The descriptors are counted by every step.
LEMMA NextEnds == ASSUME PTypes, Counting, Ends3, [Next]_vars PROVE Ends3'
<1>1. CASE UNCHANGED vars
  BY <1>1, Zenon DEF vars, Ends3, Kept, KeptAt, InCall, Desc, Counted, Refs, Open, Closing, At, EofNoWriter
<1>2. ASSUME NEW p \in Proc, Calls(p) PROVE Ends3'
  <2>1. CASE Dup(p) \/ Spawn(p) BY <2>1, DupEnds, SpawnEnds
  <2>2. CASE ~(Dup(p) \/ Spawn(p))
    <3>1. copied' = copied BY <1>2, <2>2, Zenon DEF Calls
    <3> QED BY <1>2, <2>2, <3>1, SysPipeEnds, CallEnds, CloseEnds, Dup2Ends, ExitEnds, Zenon DEF Calls
  <2> QED BY <2>1, <2>2
<1>3. ASSUME NEW p \in Proc, Steps(p) PROVE Ends3'
  <2>1. copied' = copied BY <1>3 DEF Steps
  <2> QED BY <1>3, <2>1, WalkEnds, CallEnds, CloseEndEnds, Dup2SetEnds, ExitEndEnds, ExitEnds, Zenon
      DEF Steps
<1> QED BY <1>1, <1>2, <1>3, Zenon DEF Next

-----------------------------------------------------------------------------
(***************************************************************************)
(* The theorems.  Counting comes from the library of finite sets.          *)
(***************************************************************************)
INSTANCE FiniteSetTheorems

\* The facts about cardinality that PipesEnds assumes.
LEMMA CountingHolds == Counting
<1>1. CardNat BY FS_CardinalityType DEF CardNat
<1>2. CardEmpty BY FS_EmptySet DEF CardEmpty
<1>3. CardAdd BY FS_AddElement DEF CardAdd
<1>4. CardRemove BY FS_RemoveElement DEF CardRemove
<1>5. CardOne BY FS_Singleton, Zenon DEF CardOne
<1>6. CardSubset BY FS_Subset DEF CardSubset
<1>7. CardProduct BY FS_Product DEF CardProduct
<1> QED BY <1>1, <1>2, <1>3, <1>4, <1>5, <1>6, <1>7, Zenon DEF Counting

\* On one core a process runs when no other is in a call.
LEMMA CpuAlone ==
  ASSUME PTypes
  PROVE  CpuQuiet
<1> SUFFICES ASSUME cores = 1, NEW p \in Proc, Cpu(p) PROVE QuietIn(p, pc) BY DEF CpuQuiet
<1> DEFINE B == {q \in Proc \ {p} : Busy(q)}
<1>1. IsFiniteSet(Proc) /\ B \in SUBSET Proc BY PipesAssumption
<1>2. IsFiniteSet(B) BY <1>1, FS_Subset, Zenon
<1>3. Cardinality(B) \in Nat /\ Cardinality(B) < 1 BY <1>2, FS_CardinalityType DEF Cpu
<1>4. B = {} BY <1>2, <1>3, FS_EmptySet
<1> QED BY <1>4 DEF QuietIn, Idle, Busy

\* The initial state satisfies the rest of the invariant.
LEMMA InitEnds == Init => Ends3 /\ OneCore
<1> SUFFICES ASSUME Init PROVE Ends3 /\ OneCore OBVIOUS
<1>1. \A p \in Proc : pc[p] \in {"user", None} /\ arg[p] = None /\ state[p] = None BY Zenon DEF Init
<1>2. \A p \in Proc, f \in Fd : fds[p][f] = None BY Zenon DEF Init
<1>3. \A i \in Pipe : pipe[i] = EmptyPipe BY Zenon DEF Init
<1>4. EmptyPipe.readers = 0 /\ EmptyPipe.writers = 0 /\ ~EmptyPipe.active
  <2>1. EmptyPipe.readers = 0 /\ EmptyPipe.writers = 0 BY DEF EmptyPipe
  <2>2. EmptyPipe \in GoodPipe BY EmptyGood, Zenon
  <2>3. ~EmptyPipe.active BY <2>1, <2>2 DEF GoodPipe
  <2> QED BY <2>1, <2>3, Zenon
<1>5. Kept BY <1>1, <1>2, NoneApart, Zenon DEF Kept, KeptAt, InCall
<1>6. \A i \in Pipe, e \in Ends : Open(i, e) = {} /\ Closing(i, e) = {}
  <2> TAKE i \in Pipe, e \in Ends
  <2>1. Desc(i, e) \in Descs BY DEF Desc, Descs
  <2>2. Open(i, e) = {} BY <1>2, <2>1, NoneApart, Zenon DEF Open
  <2>3. "close" \notin {"user", None} BY NoneApart DEF Labels
  <2>4. Closing(i, e) = {} BY <1>1, <2>3, Zenon DEF Closing, At
  <2> QED BY <2>2, <2>4, Zenon
<1>7. Counted
  <2> SUFFICES ASSUME NEW i \in Pipe, NEW e \in Ends
               PROVE  Refs(pipe[i], e) >= Cardinality(Open(i, e)) + Cardinality(Closing(i, e))
    BY DEF Counted
  <2>1. Refs(pipe[i], e) = 0 BY <1>3, <1>4, Zenon DEF Refs
  <2>2. Cardinality(Open(i, e)) = 0 /\ Cardinality(Closing(i, e)) = 0 BY <1>6, FS_EmptySet, Zenon
  <2> QED BY <2>1, <2>2
<1>8. EofNoWriter BY <1>1, NoneApart, Zenon DEF EofNoWriter, At, Labels
<1>9. Alone BY <1>1, Zenon DEF Alone, Busy
<1>10. \A p \in Proc : Looked(p) BY <1>1, NoneApart, Zenon DEF Looked, Labels
<1>11. \A p \in Proc, i \in Pipe : Asleep(p, i) BY <1>1, NoneApart, Zenon DEF Asleep, At, Labels
<1>12. \A i \in Pipe : ~pipe[i].active BY <1>3, <1>4, Zenon
<1>13. \A i \in Pipe : Level(i) BY <1>12, Zenon DEF Level
<1> QED BY <1>5, <1>7, <1>8, <1>9, <1>10, <1>11, <1>13, Zenon DEF Ends3, OneCore

\* The inductive invariant: the types, the descriptors behind a call and their counts, and,
\* on one core, what the running process is about to do for those that sleep.
THEOREM Invariance == Spec => []IInv
<1>1. Init => IInv BY InitTypes, InitEnds, Zenon DEF IInv, Ends3
<1>2. IInv /\ [Next]_vars => IInv'
  <2> SUFFICES ASSUME IInv, [Next]_vars PROVE IInv' OBVIOUS
  <2>1. PTypes /\ Ends3 /\ OneCore BY DEF IInv, Ends3
  <2>2. PTypes' BY <2>1, NextTypes, Zenon
  <2>3. Ends3' BY <2>1, CountingHolds, NextEnds, Zenon
  <2>4. OneCore' BY <2>1, CpuAlone, NextOne, Zenon
  <2> QED BY <2>2, <2>3, <2>4, Zenon DEF IInv, Ends3
<1> QED BY <1>1, <1>2, PTL DEF Spec

\* EndsCounted (pipe_add_reader, pipe_add_writer, pipe_close_*): the counters cover the open
\* descriptors, and a pipe somebody has open is in use.
THEOREM EndsAreCounted == Spec => []EndsCounted
<1>1. IInv => EndsCounted
  <2> SUFFICES ASSUME IInv, ~copied, NEW i \in Pipe
               PROVE  /\ pipe[i].readers >= Cardinality(Open(i, "r"))
                      /\ pipe[i].writers >= Cardinality(Open(i, "w"))
                      /\ Open(i, "r") \cup Open(i, "w") # {} => pipe[i].active
    BY Zenon DEF EndsCounted
  <2>0. PTypes /\ Counted BY Zenon DEF IInv
  <2>1. \A e \in Ends : /\ IsFiniteSet(Open(i, e)) /\ Cardinality(Open(i, e)) \in Nat
                        /\ Cardinality(Closing(i, e)) \in Nat
    <3> TAKE e \in Ends
    <3>1. Open(i, e) = OpenIn(fds, i, e) /\ Closing(i, e) = ClosingIn(pc, arg, i, e)
      BY Zenon DEF Open, OpenIn, Closing, ClosingIn, At
    <3> QED BY <3>1, CountingHolds, CountsFinite, Zenon
  <2>2. pipe[i].readers \in Nat /\ pipe[i].writers \in Nat
        /\ (pipe[i].active <=> pipe[i].readers + pipe[i].writers > 0)
    BY <2>0, Zenon DEF PTypes, GoodPipe, PipeRec
  <2>3. "r" \in Ends /\ "w" \in Ends BY DEF Ends
  <2>4. Refs(pipe[i], "r") = pipe[i].readers /\ Refs(pipe[i], "w") = pipe[i].writers BY Zenon DEF Refs
  <2>5. /\ pipe[i].readers >= Cardinality(Open(i, "r"))
        /\ pipe[i].writers >= Cardinality(Open(i, "w"))
    BY <2>0, <2>1, <2>2, <2>3, <2>4 DEF Counted
  <2>6. ASSUME Open(i, "r") \cup Open(i, "w") # {} PROVE pipe[i].active
    <3>1. Cardinality(Open(i, "r")) # 0 \/ Cardinality(Open(i, "w")) # 0
      BY <2>1, <2>3, <2>6, FS_EmptySet, Zenon
    <3>2. pipe[i].readers + pipe[i].writers > 0 BY <2>1, <2>2, <2>3, <2>5, <3>1
    <3> QED BY <2>2, <3>2, Zenon
  <2> QED BY <2>5, <2>6, Zenon
<1> QED BY <1>1, Invariance, PTL

\* EofIsFinal (sys_pipe_read_blocking): EOF means no writer is left and, on one core, no byte.
THEOREM EofSound == Spec => []EofIsFinal
<1>1. IInv /\ EndsCounted => EofIsFinal
  <2> SUFFICES ASSUME IInv, EndsCounted, NEW p \in Proc, pc[p] = "eof", ~copied
               PROVE  /\ Open(arg[p].i, "w") = {}
                      /\ cores = 1 => available_read(pipe[arg[p].i]) = 0
    BY DEF EofIsFinal, At
  <2> DEFINE a == arg[p]
  <2>0. PTypes /\ Kept /\ EofNoWriter /\ OneCore BY Zenon DEF IInv
  <2>1. Open(a.i, "w") = {} BY <2>0, Zenon DEF EofNoWriter, At
  <2>2. pc[p] \in Path BY DEF Path, Labels
  <2>3. a \in Locals /\ LocalAt(pc[p], a) /\ InCall(pc[p]) BY <2>0, <2>2, AtPath, Zenon
  <2>4. a.i \in Pipe /\ a.next = "read" /\ a.data = <<>> BY <2>3, Zenon DEF LocalAt, Locals
  <2>5. PICK f \in Fd : fds[p][f] = Desc(a.i, "r") BY <2>0, <2>3, <2>4, Zenon DEF Kept, KeptAt
  <2>6. <<p, f>> \in Open(a.i, "r") BY <2>5, Zenon DEF Open
  <2>7. pipe[a.i].active BY <2>4, <2>6, Zenon DEF EndsCounted
  <2>8. cores = 1 => available_read(pipe[a.i]) = 0
    BY <2>0, <2>4, <2>7, Zenon DEF OneCore, Looked
  <2> QED BY <2>1, <2>8, Zenon
<1> QED BY <1>1, Invariance, EndsAreCounted, PTL

\* NoReaderStranded (wake_pipe_readers): on one core nobody sleeps over bytes or a hang-up with
\* no wake on the way.
THEOREM ReadersWoken == Spec => []NoReaderStranded
<1>1. IInv => NoReaderStranded
  <2> SUFFICES ASSUME IInv, cores = 1, NEW p \in Proc, NEW i \in Pipe, At(p, "halted"),
                      Blocked(p, i), available_read(pipe[i]) > 0 \/ pipe[i].writers = 0
               PROVE  \E q \in Proc : Waking(q, i)
    BY DEF NoReaderStranded
  <2>1. Asleep(p, i) BY Zenon DEF IInv, OneCore
  <2>2. \A q \in Proc : WakingBytes(q, i) => Waking(q, i) BY Zenon DEF WakingBytes, Waking
  <2> QED BY <2>1, <2>2, Zenon DEF Asleep
<1> QED BY <1>1, Invariance, PTL

\* LevelKept (publish_readiness): on one core, between calls, a pipe with bytes reports IN.
THEOREM LevelsKept == Spec => []LevelKept
<1>1. IInv => LevelKept
  <2> SUFFICES ASSUME IInv, cores = 1, \A p \in Proc : ~Busy(p), NEW i \in Pipe,
                      pipe[i].active, available_read(pipe[i]) > 0
               PROVE  "IN" \in mask[i]
    BY DEF LevelKept
  <2>1. Level(i) BY DEF IInv, OneCore
  <2>2. \A p \in Proc : pc[p] # "publish_in" BY NoneApart DEF Busy, Labels
  <2> QED BY <2>1, <2>2, Zenon DEF Level, At
<1> QED BY <1>1, Invariance, PTL
=============================================================================
