----------------------------- MODULE PipesEnds ------------------------------
(***************************************************************************)
(* The descriptors of the processes and what a pipe counts of them.        *)
(***************************************************************************)
EXTENDS PipesTypes

(***************************************************************************)
(* What a call remembers of its process' descriptors.                      *)
(***************************************************************************)
\* A step after which process p alone is elsewhere, or has other descriptors.
OnlyMoves(p) ==
  \A q \in Proc \ {p} : pc'[q] = pc[q] /\ arg'[q] = arg[q] /\ fds'[q] = fds[q]

\* After a step of p alone, only p has to be looked at.
LEMMA KeptStep ==
  ASSUME Kept, NEW p \in Proc, OnlyMoves(p), KeptAt(pc'[p], arg'[p], fds'[p])
  PROVE  Kept'
<1>1. ASSUME NEW q \in Proc PROVE KeptAt(pc'[q], arg'[q], fds'[q])
  <2>1. CASE q = p BY <2>1
  <2>2. CASE q # p
    <3>1. pc'[q] = pc[q] /\ arg'[q] = arg[q] /\ fds'[q] = fds[q] BY <2>2 DEF OnlyMoves
    <3> QED BY <3>1 DEF Kept
  <2> QED BY <2>1, <2>2
<1> QED BY <1>1 DEF Kept, KeptAt, InCall, Desc

\* Points at which nothing is remembered.
LEMMA KeptFree ==
  ASSUME NEW a, NEW t, NEW l \in {"user", "exit", "zombie"}
  PROVE  KeptAt(l, a, t)
<1>1. l # None BY PipesAssumption DEF Labels
<1> QED BY <1>1 DEF KeptAt, InCall

\* From one point of a call to another, with the same pipe, end of the call and dup2.
LEMMA KeptMove ==
  ASSUME Kept, NEW p \in Proc, pc[p] \in Path, NEW l \in Path, NEW b,
         b.i = arg[p].i, b.next = arg[p].next, b.dup = arg[p].dup
  PROVE  KeptAt(l, b, fds[p])
<1>1. KeptAt(pc[p], arg[p], fds[p]) BY DEF Kept
<1>2. InCall(pc[p]) /\ InCall(l) /\ l # None BY PathInCall DEF InCall
<1> QED BY <1>1, <1>2 DEF KeptAt

\* The steps of a call that leave its locals and the descriptors alone.
Walk(p) == \E l \in Path : /\ pc[p] \in Path /\ pc' = [pc EXCEPT ![p] = l]
                           /\ UNCHANGED <<arg, fds>>
Returns(p) == Return(p) /\ pc[p] \in Path /\ UNCHANGED fds

\* A step on the way through a call moves its own process only.
LEMMA WalkMoves == ASSUME PTypes, NEW p \in Proc, Walk(p) PROVE OnlyMoves(p)
BY DEF Walk, OnlyMoves, PTypes

\* So does a return.
LEMMA ReturnMoves ==
  ASSUME PTypes, NEW p \in Proc, Returns(p)
  PROVE  OnlyMoves(p) /\ pc'[p] = "user"
BY DEF Returns, Return, Go, With, OnlyMoves, PTypes

\* A step on the way through a call keeps the descriptors behind it.
LEMMA WalkKept == ASSUME PTypes, Kept, NEW p \in Proc, Walk(p) PROVE Kept'
<1>1. PICK l \in Path : pc[p] \in Path /\ pc' = [pc EXCEPT ![p] = l] /\ UNCHANGED <<arg, fds>>
  BY Zenon DEF Walk
<1>2. pc'[p] = l /\ arg'[p] = arg[p] /\ fds'[p] = fds[p] BY <1>1 DEF PTypes
<1>3. KeptAt(l, arg[p], fds[p]) BY <1>1, KeptMove
<1> QED BY <1>2, <1>3, WalkMoves, KeptStep

\* So does a return.
LEMMA ReturnKept == ASSUME PTypes, Kept, NEW p \in Proc, Returns(p) PROVE Kept'
<1>1. KeptAt("user", arg'[p], fds'[p]) BY KeptFree
<1> QED BY <1>1, ReturnMoves, KeptStep

\* The steps that are such.
LEMMA Walks ==
  ASSUME PTypes, NEW p \in Proc,
         \/ PublishIn(p) \/ PublishOut(p) \/ WakeToken(p) \/ WakeLook(p) \/ WakeSweep(p)
         \/ NoBytes(p) \/ ReturnEof(p) \/ MarkWaiter(p) \/ Block(p) \/ Resume(p)
         \/ CloseEnd(p) \/ HangUp(p) \/ CloseDone(p) \/ ExitHangUp(p)
  PROVE  Walk(p) \/ Returns(p)
<1> USE DEF At, Go
<1> DEFINE a == arg[p]
<1>1. pc[p] \in Path
  BY DEF PublishIn, PublishOut, WakeToken, WakeLook, WakeSweep, NoBytes, ReturnEof, MarkWaiter,
         Block, Resume, CloseEnd, HangUp, CloseDone, ExitHangUp, Path, Labels
<1>2. a \in Locals /\ a.next \in {"wake", "read", "leave"} BY <1>1, AtPath, Zenon DEF Locals
<1>3. UNCHANGED fds
  BY DEF PublishIn, PublishOut, WakeToken, WakeLook, WakeSweep, NoBytes, ReturnEof, MarkWaiter,
         Block, Resume, CloseEnd, HangUp, CloseDone, ExitHangUp
<1>4. \/ Return(p)
      \/ \E l \in {"token_in", "publish_out", "token_out", a.next, "sweep", "dup", "eof", "mark",
                   "block", "halted", "pipe_read", "hangup", "token_end", "exit_token"} :
           pc' = [pc EXCEPT ![p] = l] /\ UNCHANGED arg
  <2>1. CASE PublishIn(p) \/ PublishOut(p) \/ WakeToken(p)
    BY <2>1, Zenon DEF PublishIn, PublishOut, WakeToken
  <2>2. CASE WakeLook(p) \/ WakeSweep(p) \/ CloseDone(p)
    BY <2>2, Zenon DEF WakeLook, WakeSweep, CloseDone, Leave
  <2>3. CASE NoBytes(p) \/ ReturnEof(p) \/ MarkWaiter(p) \/ Block(p) \/ Resume(p)
    BY <2>3, Zenon DEF NoBytes, ReturnEof, MarkWaiter, Block, Resume
  <2>4. CASE CloseEnd(p) \/ HangUp(p) \/ ExitHangUp(p)
    BY <2>4 DEF CloseEnd, HangUp, ExitHangUp
  <2> QED BY <2>1, <2>2, <2>3, <2>4, Zenon
<1>5. ASSUME NEW l \in {"token_in", "publish_out", "token_out", a.next, "sweep", "dup", "eof",
                        "mark", "block", "halted", "pipe_read", "hangup", "token_end",
                        "exit_token"}
      PROVE  l \in Path
  BY <1>2 DEF Path, Labels
<1> QED BY <1>1, <1>3, <1>4, <1>5, Zenon DEF Walk, Returns

\* A call that starts, and the step that writes or reads the ring.
LEMMA StartMoves ==
  ASSUME PTypes, Kept, NEW p \in Proc, Write(p) \/ Read(p)
  PROVE  OnlyMoves(p) /\ fds' = fds /\ pc'[p] \in {"pipe_write", "pipe_read"} /\ Kept'
<1>1. fds' = fds BY DEF Write, Read
<1>2. PICK l \in {"pipe_write", "pipe_read"}, b \in Locals :
         /\ pc' = [pc EXCEPT ![p] = l] /\ arg' = [arg EXCEPT ![p] = b]
         /\ b.dup = None
         /\ b.next = "read" => \E f \in Fd : fds[p][f] = Desc(b.i, "r")
  <2>1. CASE Write(p)
    <3>1. PICK f \in Fd, d \in Datum :
             /\ fds[p][f] # None /\ Go(p, "pipe_write")
             /\ With(p, [Local(fds[p][f].pipe, "wake") EXCEPT !.data = d])
      BY <2>1 DEF Write
    <3> DEFINE b == [Local(fds[p][f].pipe, "wake") EXCEPT !.data = d]
    <3>2. b \in Locals /\ b.next = "wake" /\ b.dup = None BY <3>1, FdType, WriteLocal
    <3>3. pc' = [pc EXCEPT ![p] = "pipe_write"] /\ arg' = [arg EXCEPT ![p] = b]
      BY <3>1 DEF Go, With
    <3> HIDE DEF b
    <3> QED BY <3>2, <3>3, Zenon
  <2>2. CASE Read(p)
    <3>1. PICK f \in Fd, n \in 1 .. MaxLen :
             /\ fds[p][f] # None /\ fds[p][f].end = "r"
             /\ With(p, [Local(fds[p][f].pipe, "read") EXCEPT !.len = n])
      BY <2>2 DEF Read
    <3> DEFINE b == [Local(fds[p][f].pipe, "read") EXCEPT !.len = n]
    <3>2. b \in Locals /\ b.i = fds[p][f].pipe /\ b.dup = None BY <3>1, FdType, ReadLocal
    <3>3. pc' = [pc EXCEPT ![p] = "pipe_read"] /\ arg' = [arg EXCEPT ![p] = b]
      BY <3>1, <2>2 DEF Read, Go, With
    <3> HIDE DEF b
    <3>4. fds[p][f] \in Descs BY <3>1, FdType
    <3>5. fds[p][f] = Desc(b.i, "r") BY <3>1, <3>2, <3>4 DEF Descs, Desc
    <3> QED BY <3>2, <3>3, <3>5, Zenon
  <2> QED BY <2>1, <2>2
<1>3. OnlyMoves(p) /\ pc'[p] = l /\ arg'[p] = b BY <1>1, <1>2 DEF OnlyMoves, PTypes
<1>4. l # None BY PipesAssumption DEF Labels
<1>5. KeptAt(l, b, fds[p]) BY <1>2, <1>4 DEF KeptAt
<1> QED BY <1>1, <1>2, <1>3, <1>5, KeptStep, Zenon

\* A transfer moves its own process and keeps the counters.
LEMMA RingMoves ==
  ASSUME PTypes, Kept, NEW p \in Proc, PipeWrite(p) \/ PipeRead(p)
  PROVE  /\ OnlyMoves(p) /\ fds' = fds /\ pc'[p] \in {"publish_in", "wake", "read"} /\ Kept'
         /\ \A i \in Pipe, e \in Ends : Refs(pipe'[i], e) = Refs(pipe[i], e)
<1> DEFINE a == arg[p]
<1>1. pc[p] \in {"pipe_write", "pipe_read"} /\ pc[p] \in Path
  BY DEF PipeWrite, PipeRead, At, Path, Labels
<1>2. a \in Locals /\ LocalAt(pc[p], a) BY <1>1, AtPath
<1>3. a.i \in Pipe /\ a.data \in Seq(Byte) /\ a.len \in Nat BY <1>2 DEF Locals
<1>4. pipe[a.i] \in GoodPipe /\ pipe \in [Pipe -> GoodPipe] BY <1>3, Zenon DEF PTypes
<1>5. fds' = fds BY DEF PipeWrite, PipeRead
<1>6. CASE ~pipe[a.i].active
  <2>1. PICK l \in {"wake", "read"} : pc' = [pc EXCEPT ![p] = l] /\ arg' = arg /\ pipe' = pipe
    BY <1>6 DEF PipeWrite, PipeRead, Go
  <2>2. l \in Path BY DEF Path, Labels
  <2>3. Walk(p) BY <1>1, <1>5, <2>1, <2>2, Zenon DEF Walk
  <2>4. pc'[p] = l BY <2>1 DEF PTypes
  <2> QED BY <1>5, <2>1, <2>3, <2>4, WalkMoves, WalkKept
<1>7. CASE pipe[a.i].active
  <2>1. PICK q \in GoodPipe, d \in Seq(Byte) :
           /\ q.readers = pipe[a.i].readers /\ q.writers = pipe[a.i].writers
           /\ pipe' = [pipe EXCEPT ![a.i] = q] /\ arg' = [arg EXCEPT ![p] = After(a, d, q)]
           /\ pc' = [pc EXCEPT ![p] = "publish_in"]
    <3>1. CASE PipeWrite(p)
      <4> DEFINE q == write(pipe[a.i], a.data)
      <4>1. /\ pipe' = [pipe EXCEPT ![a.i] = q] /\ arg' = [arg EXCEPT ![p] = After(a, <<>>, q)]
            /\ pc' = [pc EXCEPT ![p] = "publish_in"]
        BY <1>7, <3>1 DEF PipeWrite, With, Go, After
      <4>2. q \in GoodPipe /\ q.readers = pipe[a.i].readers /\ q.writers = pipe[a.i].writers
        BY <1>3, <1>4, WriteGood
      <4>3. <<>> \in Seq(Byte) OBVIOUS
      <4> HIDE DEF q
      <4> QED BY <4>1, <4>2, <4>3, Zenon
    <3>2. CASE PipeRead(p)
      <4> DEFINE q == read(pipe[a.i], a.len).pipe
                 d == read(pipe[a.i], a.len).bytes
      <4>1. /\ pipe' = [pipe EXCEPT ![a.i] = q] /\ arg' = [arg EXCEPT ![p] = After(a, d, q)]
            /\ pc' = [pc EXCEPT ![p] = "publish_in"]
        BY <1>7, <3>2, Zenon DEF PipeRead, With, Go, After
      <4>2. q \in GoodPipe /\ q.readers = pipe[a.i].readers /\ q.writers = pipe[a.i].writers
        BY <1>3, <1>4, ReadGood
      <4>3. d \in Seq(Byte) BY <1>3, <1>4, ReadBytes
      <4> HIDE DEF q, d
      <4> QED BY <4>1, <4>2, <4>3, Zenon
    <3> QED BY <3>1, <3>2
  <2> DEFINE b == After(a, d, q)
  <2>2. b.i = a.i /\ b.next = a.next /\ b.dup = a.dup BY <1>2, LocalUpdate
  <2> HIDE DEF b
  <2>3. arg' = [arg EXCEPT ![p] = b] BY <2>1 DEF b
  <2>4. OnlyMoves(p) /\ pc'[p] = "publish_in" /\ arg'[p] = b
    BY <1>5, <2>1, <2>3 DEF OnlyMoves, PTypes
  <2>5. "publish_in" \in Path BY DEF Path, Labels
  <2>6. KeptAt("publish_in", b, fds[p]) BY <1>1, <2>2, <2>5, KeptMove
  <2>7. Kept' BY <1>5, <2>4, <2>6, KeptStep
  <2>8. \A i \in Pipe, e \in Ends : Refs(pipe'[i], e) = Refs(pipe[i], e)
    BY <1>4, <2>1 DEF Refs
  <2> QED BY <1>5, <2>4, <2>7, <2>8, Zenon
<1> QED BY <1>6, <1>7, Zenon

(***************************************************************************)
(* Every descriptor, and every close under way, is counted.                *)
(***************************************************************************)
OpenIn(t, i, e) == {x \in Proc \X Fd : t[x[1]][x[2]] = Desc(i, e)}
ClosingIn(l, a, i, e) == {p \in Proc : l[p] = "close" /\ a[p].i = i /\ a[p].e = e}

\* Open and Closing, in this state and in the next.
LEMMA OpenPrime ==
  \A i, e : /\ Open(i, e) = OpenIn(fds, i, e) /\ Open(i, e)' = OpenIn(fds', i, e)
            /\ Closing(i, e) = ClosingIn(pc, arg, i, e)
            /\ Closing(i, e)' = ClosingIn(pc', arg', i, e)
BY DEF Open, OpenIn, Closing, ClosingIn, At, Desc

\* What the counting needs of finite sets.  PipesProofs takes it from FiniteSetTheorems; the
\* lemmas here assume it.
CardNat == \A S : IsFiniteSet(S) => Cardinality(S) \in Nat
CardEmpty ==
  IsFiniteSet({}) /\ Cardinality({}) = 0 /\ \A S : IsFiniteSet(S) => (Cardinality(S) = 0 <=> S = {})
CardAdd ==
  \A S, x : IsFiniteSet(S) =>
    Cardinality(S \cup {x}) = IF x \in S THEN Cardinality(S) ELSE Cardinality(S) + 1
CardRemove ==
  \A S, x : IsFiniteSet(S) =>
    Cardinality(S \ {x}) = IF x \in S THEN Cardinality(S) - 1 ELSE Cardinality(S)
CardOne ==
  /\ \A x : IsFiniteSet({x}) /\ Cardinality({x}) = 1
  /\ \A S : IsFiniteSet(S) => (Cardinality(S) = 1 <=> \E x : S = {x})
CardSubset ==
  \A S : IsFiniteSet(S) =>
    \A T \in SUBSET S : IsFiniteSet(T) /\ Cardinality(T) <= Cardinality(S)
CardProduct == \A S, T : IsFiniteSet(S) /\ IsFiniteSet(T) => IsFiniteSet(S \X T)

Counting ==
  CardNat /\ CardEmpty /\ CardAdd /\ CardRemove /\ CardOne /\ CardSubset /\ CardProduct

\* A set of at most one element is empty or a singleton.
LEMMA AtMostOne ==
  ASSUME Counting, NEW S, IsFiniteSet(S), Cardinality(S) = 0 \/ Cardinality(S) = 1
  PROVE  S = {} \/ \E x : S = {x}
<1>1. Cardinality(S) = 0 => S = {} BY DEF Counting, CardEmpty
<1>2. Cardinality(S) = 1 => \E x : S = {x} BY Zenon DEF Counting, CardOne
<1> QED BY <1>1, <1>2

\* The ends of a pipe that are open, and those being closed, are finitely many.
LEMMA CountsFinite ==
  ASSUME Counting, NEW t, NEW l, NEW a, NEW i, NEW e
  PROVE  /\ IsFiniteSet(OpenIn(t, i, e)) /\ Cardinality(OpenIn(t, i, e)) \in Nat
         /\ IsFiniteSet(ClosingIn(l, a, i, e)) /\ Cardinality(ClosingIn(l, a, i, e)) \in Nat
<1>1. IsFiniteSet(Proc) /\ IsFiniteSet(Fd) BY PipesAssumption
<1>2. IsFiniteSet(Proc \X Fd) BY <1>1 DEF Counting, CardProduct
<1>3. OpenIn(t, i, e) \in SUBSET (Proc \X Fd) BY DEF OpenIn
<1>4. ClosingIn(l, a, i, e) \in SUBSET Proc BY DEF ClosingIn
<1>5. IsFiniteSet(OpenIn(t, i, e)) BY <1>2, <1>3 DEF Counting, CardSubset
<1>6. IsFiniteSet(ClosingIn(l, a, i, e)) BY <1>1, <1>4 DEF Counting, CardSubset
<1> QED BY <1>5, <1>6 DEF Counting, CardNat

\* One descriptor is set.
OnlySet(p, f) == \A q \in Proc, g \in Fd : q # p \/ g # f => fds'[q][g] = fds[q][g]

\* Setting one descriptor sets no other.
LEMMA SetOnly ==
  ASSUME PTypes, NEW p \in Proc, NEW f \in Fd, NEW d, fds' = [fds EXCEPT ![p][f] = d]
  PROVE  OnlySet(p, f) /\ fds'[p][f] = d
<1>1. fds \in [Proc -> [Fd -> Descs \cup {None}]] BY DEF PTypes
<1> QED BY <1>1 DEF OnlySet

\* The open ends after one descriptor was set.
LEMMA OpenSet ==
  ASSUME NEW p \in Proc, NEW f \in Fd, OnlySet(p, f), NEW i, NEW e
  PROVE  /\ fds'[p][f] = Desc(i, e) => OpenIn(fds', i, e) = OpenIn(fds, i, e) \cup {<<p, f>>}
         /\ fds'[p][f] # Desc(i, e) => OpenIn(fds', i, e) = OpenIn(fds, i, e) \ {<<p, f>>}
         /\ <<p, f>> \in OpenIn(fds, i, e) <=> fds[p][f] = Desc(i, e)
<1>3. ASSUME NEW x \in Proc \X Fd, x # <<p, f>> PROVE fds'[x[1]][x[2]] = fds[x[1]][x[2]]
  <2>1. x[1] \in Proc /\ x[2] \in Fd /\ x = <<x[1], x[2]>> BY <1>3
  <2>2. x[1] # p \/ x[2] # f BY <1>3, <2>1
  <2> QED BY <2>1, <2>2 DEF OnlySet
<1>4. /\ fds'[<<p, f>>[1]][<<p, f>>[2]] = fds'[p][f] /\ <<p, f>> \in Proc \X Fd
      /\ fds[<<p, f>>[1]][<<p, f>>[2]] = fds[p][f]
  OBVIOUS
<1>5. fds'[p][f] = Desc(i, e) => OpenIn(fds', i, e) = OpenIn(fds, i, e) \cup {<<p, f>>}
  BY <1>3, <1>4 DEF OpenIn
<1>6. fds'[p][f] # Desc(i, e) => OpenIn(fds', i, e) = OpenIn(fds, i, e) \ {<<p, f>>}
  BY <1>3, <1>4 DEF OpenIn
<1>7. <<p, f>> \in OpenIn(fds, i, e) <=> fds[p][f] = Desc(i, e) BY <1>4 DEF OpenIn
<1> QED BY <1>5, <1>6, <1>7

\* After it was set to this end.
LEMMA OpenMore ==
  ASSUME NEW p \in Proc, NEW f \in Fd, OnlySet(p, f), NEW i, NEW e, fds'[p][f] = Desc(i, e)
  PROVE  OpenIn(fds', i, e) = OpenIn(fds, i, e) \cup {<<p, f>>}
<1>1. fds'[p][f] = Desc(i, e) OBVIOUS
<1> QED BY ONLY <1>1, p \in Proc, f \in Fd, OnlySet(p, f), OpenSet, Zenon

\* After it was cleared.
LEMMA OpenGone ==
  ASSUME NEW p \in Proc, NEW f \in Fd, OnlySet(p, f), fds'[p][f] = None, NEW i \in Pipe, NEW e \in Ends
  PROVE  /\ OpenIn(fds', i, e) = OpenIn(fds, i, e) \ {<<p, f>>}
         /\ <<p, f>> \in OpenIn(fds, i, e) <=> fds[p][f] = Desc(i, e)
<1>1. Desc(i, e) \in Descs BY DEF Desc, Descs
<1>2. fds'[p][f] # Desc(i, e) BY <1>1, NoneApart
<1>3. OpenIn(fds', i, e) = OpenIn(fds, i, e) \ {<<p, f>>} BY <1>2, OpenSet, Zenon
<1>4. <<p, f>> \in OpenIn(fds, i, e) <=> fds[p][f] = Desc(i, e) BY OpenSet
<1> QED BY <1>3, <1>4

\* One process goes elsewhere.
LEMMA ClosingMove ==
  ASSUME NEW p \in Proc, NEW i, NEW e,
         \A q \in Proc \ {p} : pc'[q] = pc[q] /\ arg'[q] = arg[q]
  PROVE  /\ pc'[p] = "close" /\ arg'[p].i = i /\ arg'[p].e = e
              => ClosingIn(pc', arg', i, e) = ClosingIn(pc, arg, i, e) \cup {p}
         /\ ~(pc'[p] = "close" /\ arg'[p].i = i /\ arg'[p].e = e)
              => ClosingIn(pc', arg', i, e) = ClosingIn(pc, arg, i, e) \ {p}
         /\ p \in ClosingIn(pc, arg, i, e) <=> (pc[p] = "close" /\ arg[p].i = i /\ arg[p].e = e)
BY DEF ClosingIn

\* The two lists of what must be counted, before and after.
Tally(t, l, a, i, e) == Cardinality(OpenIn(t, i, e)) + Cardinality(ClosingIn(l, a, i, e))

\* Counted, in this state and in the next.
LEMMA CountedIs ==
  /\ Counted <=> (~copied => \A i \in Pipe, e \in Ends :
                              Refs(pipe[i], e) >= Tally(fds, pc, arg, i, e))
  /\ Counted' <=> (~copied' => \A i \in Pipe, e \in Ends :
                                Refs(pipe'[i], e) >= Tally(fds', pc', arg', i, e))
<1>1. Counted <=> (~copied => \A i \in Pipe, e \in Ends :
                              Refs(pipe[i], e) >= Tally(fds, pc, arg, i, e))
  BY OpenPrime DEF Counted, Tally
<1>2. Counted' <=> (~copied' => \A i \in Pipe, e \in Ends :
                              Refs(pipe'[i], e) >= Cardinality(Open(i, e)') + Cardinality(Closing(i, e)'))
  BY DEF Counted, Refs, Ends
<1>3. Counted' <=> (~copied' => \A i \in Pipe, e \in Ends :
                                Refs(pipe'[i], e) >= Tally(fds', pc', arg', i, e))
  BY <1>2, OpenPrime DEF Tally
<1> QED BY <1>1, <1>3

\* A pipe with a descriptor, or a close under way, has a count to lose.
LEMMA CountedActive ==
  ASSUME PTypes, Counting, Counted, ~copied, NEW i \in Pipe, NEW e \in Ends,
         OpenIn(fds, i, e) # {} \/ ClosingIn(pc, arg, i, e) # {}
  PROVE  Refs(pipe[i], e) > 0 /\ pipe[i].active
<1>1. pipe[i] \in PipeRec /\ (pipe[i].active <=> pipe[i].readers + pipe[i].writers > 0)
  BY DEF PTypes, GoodPipe
<1>2. pipe[i].readers \in Nat /\ pipe[i].writers \in Nat BY <1>1 DEF PipeRec
<1> DEFINE m == Cardinality(OpenIn(fds, i, e))
           n == Cardinality(ClosingIn(pc, arg, i, e))
<1>3. m \in Nat /\ n \in Nat BY CountsFinite
<1>4. m # 0 \/ n # 0 BY CountsFinite DEF Counting, CardEmpty
<1>5. Refs(pipe[i], e) >= m + n BY CountedIs DEF Tally
<1> HIDE DEF m, n
<1>6. Refs(pipe[i], e) \in Nat BY <1>2 DEF Refs
<1>7. Refs(pipe[i], e) > 0 BY <1>3, <1>4, <1>5, <1>6
<1>8. pipe[i].readers + pipe[i].writers > 0 BY <1>2, <1>7 DEF Refs
<1> QED BY <1>1, <1>7, <1>8

\* Steps that leave descriptors and counters alone, and do not begin a close.
Steady(p) ==
  /\ OnlyMoves(p) /\ fds' = fds /\ copied' = copied /\ pc'[p] # "close"
  /\ \A i \in Pipe, e \in Ends : Refs(pipe'[i], e) = Refs(pipe[i], e)

\* The counters are numbers.
LEMMA RefsNat ==
  ASSUME PTypes, NEW i \in Pipe, NEW e
  PROVE  Refs(pipe[i], e) \in Nat
BY DEF PTypes, GoodPipe, PipeRec, Refs

\* A step that changes neither counters nor descriptors keeps them in step.
LEMMA SteadyCounted ==
  ASSUME PTypes, Counting, Counted, NEW p \in Proc, Steady(p)
  PROVE  Counted'
<1> SUFFICES ASSUME ~copied', NEW i \in Pipe, NEW e \in Ends
             PROVE  Refs(pipe'[i], e) >= Tally(fds', pc', arg', i, e)
  BY CountedIs
<1>1. ~copied /\ fds' = fds /\ Refs(pipe'[i], e) = Refs(pipe[i], e) BY DEF Steady
<1>2. Refs(pipe[i], e) >= Tally(fds, pc, arg, i, e) BY <1>1, CountedIs
<1> DEFINE C == ClosingIn(pc, arg, i, e)
           D == ClosingIn(pc', arg', i, e)
<1>3. D = C \ {p} BY ClosingMove DEF Steady, OnlyMoves
<1>4. IsFiniteSet(C) /\ Cardinality(C) \in Nat BY CountsFinite
<1>5. Cardinality(D) \in Nat /\ Cardinality(D) <= Cardinality(C)
  <2>1. D \in SUBSET C BY <1>3
  <2>2. Cardinality(D) \in Nat BY CountsFinite
  <2> QED BY <1>4, <2>1, <2>2 DEF Counting, CardSubset
<1>6. Cardinality(OpenIn(fds, i, e)) \in Nat BY CountsFinite
<1>7. Refs(pipe[i], e) \in Nat BY RefsNat, Zenon
<1> QED BY <1>1, <1>2, <1>4, <1>5, <1>6, <1>7 DEF Tally

\* The descriptor goes, its close begins.
LEMMA BeginClose ==
  ASSUME PTypes, Counting, Counted, NEW p \in Proc, pc[p] = "user", NEW f \in Fd, fds[p][f] # None,
         OnlySet(p, f), fds'[p][f] = None, pipe' = pipe, copied' = copied,
         pc'[p] = "close", arg'[p].i = fds[p][f].pipe, arg'[p].e = fds[p][f].end,
         \A q \in Proc \ {p} : pc'[q] = pc[q] /\ arg'[q] = arg[q]
  PROVE  Counted'
<1> SUFFICES ASSUME ~copied', NEW i \in Pipe, NEW e \in Ends
             PROVE  Refs(pipe'[i], e) >= Tally(fds', pc', arg', i, e)
  BY CountedIs
<1>1. Refs(pipe[i], e) >= Tally(fds, pc, arg, i, e) BY CountedIs
<1> DEFINE C == ClosingIn(pc, arg, i, e)
           D == ClosingIn(pc', arg', i, e)
           O == OpenIn(fds, i, e)
           P == OpenIn(fds', i, e)
<1>2. fds[p][f] \in Descs BY FdType, Zenon
<1>3. fds[p][f] = Desc(i, e) <=> arg'[p].i = i /\ arg'[p].e = e BY <1>2 DEF Descs, Desc
<1>6. P = O \ {<<p, f>>} /\ (<<p, f>> \in O <=> fds[p][f] = Desc(i, e)) BY OpenGone
<1>7. /\ fds[p][f] = Desc(i, e) => D = C \cup {p}
      /\ fds[p][f] # Desc(i, e) => D = C \ {p}
      /\ p \notin C
  <2>1. \A q \in Proc \ {p} : pc'[q] = pc[q] /\ arg'[q] = arg[q] OBVIOUS
  <2>2. pc'[p] = "close" /\ arg'[p].i = i /\ arg'[p].e = e => D = C \cup {p} BY <2>1, ClosingMove
  <2>3. ~(pc'[p] = "close" /\ arg'[p].i = i /\ arg'[p].e = e) => D = C \ {p} BY <2>1, ClosingMove
  <2>4. p \notin C BY Zenon DEF ClosingIn
  <2> QED BY <1>3, <2>2, <2>3, <2>4, Zenon
<1>8. /\ IsFiniteSet(C) /\ Cardinality(C) \in Nat /\ IsFiniteSet(O) /\ Cardinality(O) \in Nat
      /\ Cardinality(D) \in Nat /\ Cardinality(P) \in Nat
  BY CountsFinite, Zenon
<1>9. Refs(pipe[i], e) \in Nat BY RefsNat, Zenon
<1> HIDE DEF C, D, O, P
<1>10. Cardinality(P) + Cardinality(D) = Cardinality(O) + Cardinality(C)
  <2>1. CASE fds[p][f] = Desc(i, e)
    <3>1. Cardinality(P) = Cardinality(O) - 1 BY <1>6, <1>8, <2>1, Zenon DEF Counting, CardRemove
    <3>2. Cardinality(D) = Cardinality(C) + 1 BY <1>7, <1>8, <2>1 DEF Counting, CardAdd
    <3> QED BY <1>8, <3>1, <3>2
  <2>2. CASE fds[p][f] # Desc(i, e)
    <3>1. P = O /\ D = C BY <1>6, <1>7, <2>2, Zenon
    <3> QED BY <3>1
  <2> QED BY <2>1, <2>2, Zenon
<1> QED BY <1>1, <1>8, <1>9, <1>10, Zenon DEF Tally, C, D, O, P

\* What giving up an end does to the counters.
LEMMA DropRefs ==
  ASSUME PTypes, NEW j \in Pipe, NEW x \in Ends, Drops(j, x), NEW i \in Pipe, NEW e \in Ends
  PROVE  /\ i = j /\ e = x /\ Refs(pipe[i], e) > 0 => Refs(pipe'[i], e) = Refs(pipe[i], e) - 1
         /\ i # j \/ e # x => Refs(pipe'[i], e) = Refs(pipe[i], e)
         /\ Refs(pipe'[i], e) \in Nat
<1>1. pipe \in [Pipe -> GoodPipe] BY DEF PTypes
<1> DEFINE q == Dropped(pipe[j], x)
<1>2. /\ q \in GoodPipe
      /\ q.readers = IF x = "r" /\ pipe[j].readers > 0 THEN pipe[j].readers - 1 ELSE pipe[j].readers
      /\ q.writers = IF x = "w" /\ pipe[j].writers > 0 THEN pipe[j].writers - 1 ELSE pipe[j].writers
  BY <1>1, DroppedGood
<1> HIDE DEF q
<1>3. pipe'[j] = q /\ (i # j => pipe'[i] = pipe[i]) BY <1>1 DEF q, Drops
<1>4. pipe[i].readers \in Nat /\ pipe[i].writers \in Nat /\ q.readers \in Nat /\ q.writers \in Nat
  BY <1>1, <1>2, Zenon DEF GoodPipe, PipeRec
<1>5. CASE i # j BY <1>3, <1>4, <1>5 DEF Refs
<1>6. CASE i = j /\ e = "r" BY <1>2, <1>3, <1>4, <1>6, Zenon DEF Refs, Ends
<1>7. CASE i = j /\ e = "w" BY <1>2, <1>3, <1>4, <1>7, Zenon DEF Refs, Ends
<1> QED BY <1>5, <1>6, <1>7 DEF Ends

\* A close gives up the end it counted as being closed.
LEMMA CloseEndCounted ==
  ASSUME PTypes, Counting, Counted, NEW p \in Proc, CloseEnd(p), copied' = copied
  PROVE  Counted'
<1> SUFFICES ASSUME ~copied', NEW i \in Pipe, NEW e \in Ends
             PROVE  Refs(pipe'[i], e) >= Tally(fds', pc', arg', i, e)
  BY CountedIs
<1> DEFINE a == arg[p]
<1>1. pc[p] = "close" /\ pc[p] \in Path BY DEF CloseEnd, At, Path, Labels
<1>2. a \in Locals BY <1>1, AtPath
<1>3. a.i \in Pipe /\ a.e \in Ends /\ a.next \in {"wake", "read", "leave"} BY <1>2 DEF Locals
<1>4. Drops(a.i, a.e) /\ fds' = fds /\ arg' = arg BY DEF CloseEnd, Drops
<1>5. pc'[p] # "close" /\ \A q \in Proc \ {p} : pc'[q] = pc[q] /\ arg'[q] = arg[q]
  BY <1>3, <1>4, Zenon DEF CloseEnd, Go, PTypes
<1>6. Refs(pipe[i], e) >= Tally(fds, pc, arg, i, e) BY CountedIs, Zenon
<1> DEFINE C == ClosingIn(pc, arg, i, e)
           D == ClosingIn(pc', arg', i, e)
           n == Cardinality(OpenIn(fds, i, e))
<1>7. D = C \ {p} /\ (p \in C <=> a.i = i /\ a.e = e) BY <1>1, <1>5, ClosingMove
<1>8. IsFiniteSet(C) /\ Cardinality(C) \in Nat /\ Cardinality(D) \in Nat /\ n \in Nat
  BY CountsFinite
<1>9. Refs(pipe[i], e) \in Nat BY RefsNat, Zenon
<1> HIDE DEF C, D, n
<1>10. CASE a.i = i /\ a.e = e
  <2>1. Cardinality(D) = Cardinality(C) - 1 BY <1>7, <1>8, <1>10 DEF Counting, CardRemove
  <2>2. Refs(pipe[i], e) > 0 BY <1>7, <1>10, CountedActive DEF C
  <2>3. Refs(pipe'[i], e) = Refs(pipe[i], e) - 1 BY <1>3, <1>4, <1>10, <2>2, DropRefs, Zenon
  <2> QED BY <1>4, <1>6, <1>8, <1>9, <2>1, <2>3 DEF Tally, C, D, n
<1>11. CASE ~(a.i = i /\ a.e = e)
  <2>1. D = C BY <1>7, <1>11
  <2>2. i # a.i \/ e # a.e BY <1>11
  <2>3. Refs(pipe'[i], e) = Refs(pipe[i], e) BY <1>3, <1>4, <2>2, DropRefs, Zenon
  <2> QED BY <1>4, <1>6, <2>1, <2>3 DEF Tally, C, D
<1> QED BY <1>10, <1>11

\* An exit gives up an end together with its descriptor.
LEMMA ExitEndCounted ==
  ASSUME PTypes, Counting, Counted, NEW p \in Proc, ExitEnd(p), copied' = copied
  PROVE  Counted' /\ \A i \in Pipe, e \in Ends : OpenIn(fds', i, e) \subseteq OpenIn(fds, i, e)
<1>1. PICK f \in Fd :
         /\ fds[p][f] # None /\ fds' = [fds EXCEPT ![p][f] = None]
         /\ Drops(fds[p][f].pipe, fds[p][f].end)
  BY Zenon DEF ExitEnd, Drops
<1> DEFINE d == fds[p][f]
<1>2. d \in Descs /\ d.pipe \in Pipe /\ d.end \in Ends BY <1>1, FdType, Zenon
<1>3. pc'[p] # "close" /\ \A q \in Proc \ {p} : pc'[q] = pc[q] /\ arg'[q] = arg[q]
  BY DEF ExitEnd, Go, With, At, PTypes
<1>4. OnlySet(p, f) /\ fds'[p][f] = None BY <1>1, SetOnly, Zenon
<1>5. ASSUME NEW i \in Pipe, NEW e \in Ends
      PROVE  /\ OpenIn(fds', i, e) = OpenIn(fds, i, e) \ {<<p, f>>}
             /\ <<p, f>> \in OpenIn(fds, i, e) <=> d = Desc(i, e)
  BY <1>4, OpenGone
<1>6. ASSUME ~copied', NEW i \in Pipe, NEW e \in Ends
      PROVE  Refs(pipe'[i], e) >= Tally(fds', pc', arg', i, e)
  <2> DEFINE C == ClosingIn(pc, arg, i, e)
             D == ClosingIn(pc', arg', i, e)
             O == OpenIn(fds, i, e)
             P == OpenIn(fds', i, e)
  <2>1. Refs(pipe[i], e) >= Tally(fds, pc, arg, i, e) BY <1>6, CountedIs
  <2>2. D = C \ {p} BY <1>3, ClosingMove
  <2>3. /\ IsFiniteSet(C) /\ Cardinality(C) \in Nat /\ Cardinality(D) \in Nat
        /\ IsFiniteSet(O) /\ Cardinality(O) \in Nat /\ Cardinality(P) \in Nat
    BY CountsFinite
  <2>4. Cardinality(D) <= Cardinality(C)
    <3>1. D \in SUBSET C BY <2>2
    <3> QED BY <2>3, <3>1 DEF Counting, CardSubset
  <2>5. Refs(pipe[i], e) \in Nat BY RefsNat
  <2>6. P = O \ {<<p, f>>} /\ (<<p, f>> \in O <=> d = Desc(i, e)) BY <1>5
  <2>7. d = Desc(i, e) <=> d.pipe = i /\ d.end = e BY <1>2 DEF Descs, Desc
  <2>8. CASE d = Desc(i, e)
    <3>1. Cardinality(P) = Cardinality(O) - 1 BY <2>3, <2>6, <2>8 DEF Counting, CardRemove
    <3>2. Refs(pipe[i], e) > 0 BY <1>6, <2>6, <2>8, CountedActive
    <3>3. Refs(pipe'[i], e) = Refs(pipe[i], e) - 1 BY <1>1, <1>2, <2>7, <2>8, <3>2, DropRefs, Zenon
    <3> QED BY <2>1, <2>3, <2>4, <2>5, <3>1, <3>3 DEF Tally
  <2>9. CASE d # Desc(i, e)
    <3>1. P = O BY <2>6, <2>9
    <3>2. i # d.pipe \/ e # d.end BY <2>7, <2>9
    <3>3. Refs(pipe'[i], e) = Refs(pipe[i], e) BY <1>1, <1>2, <3>2, DropRefs, Zenon
    <3> QED BY <2>1, <2>3, <2>4, <2>5, <3>1, <3>3 DEF Tally
  <2> QED BY <2>8, <2>9
<1> QED BY <1>5, <1>6, CountedIs

\* No end comes to be open that nobody had.
NoNewEnd == \A i \in Pipe, e \in Ends : OpenIn(fds, i, e) = {} => OpenIn(fds', i, e) = {}

\* What one more end does to the counters.
LEMMA AddRefs ==
  ASSUME PTypes, NEW j \in Pipe, NEW x \in Ends, Adds(j, x), NEW i \in Pipe, NEW e \in Ends
  PROVE  /\ i = j /\ e = x /\ pipe[i].active => Refs(pipe'[i], e) = Refs(pipe[i], e) + 1
         /\ Refs(pipe'[i], e) >= Refs(pipe[i], e)
         /\ Refs(pipe'[i], e) \in Nat
<1>1. pipe \in [Pipe -> GoodPipe] BY DEF PTypes
<1> DEFINE q == Added(pipe[j], x)
<1>2. /\ q \in GoodPipe
      /\ q.readers = IF pipe[j].active /\ x = "r" THEN pipe[j].readers + 1 ELSE pipe[j].readers
      /\ q.writers = IF pipe[j].active /\ x = "w" THEN pipe[j].writers + 1 ELSE pipe[j].writers
  BY <1>1, AddedGood
<1> HIDE DEF q
<1>3. pipe'[j] = q /\ (i # j => pipe'[i] = pipe[i]) BY <1>1 DEF q, Adds
<1>4. pipe[i].readers \in Nat /\ pipe[i].writers \in Nat /\ q.readers \in Nat /\ q.writers \in Nat
  BY <1>1, <1>2, Zenon DEF GoodPipe, PipeRec
<1>5. CASE i # j BY <1>3, <1>4, <1>5 DEF Refs
<1>6. CASE i = j /\ e = "r" BY <1>2, <1>3, <1>4, <1>6 DEF Refs, Ends
<1>7. CASE i = j /\ e = "w" BY <1>2, <1>3, <1>4, <1>7 DEF Refs, Ends
<1> QED BY <1>5, <1>6, <1>7, Zenon DEF Ends

\* dup2: descriptor new, which is free, becomes a copy of one the process has.
LEMMA CopyCounted ==
  ASSUME PTypes, Counting, Counted, copied' = copied, NEW p \in Proc, NEW new \in Fd, NEW old \in Fd,
         fds[p][new] = None, fds[p][old] # None, OnlySet(p, new), fds'[p][new] = fds[p][old],
         Adds(fds[p][old].pipe, fds[p][old].end), pc'[p] # "close",
         \A q \in Proc \ {p} : pc'[q] = pc[q] /\ arg'[q] = arg[q]
  PROVE  Counted' /\ NoNewEnd
<1> DEFINE d == fds[p][old]
<1>1. d \in Descs /\ d.pipe \in Pipe /\ d.end \in Ends BY FdType, Zenon
<1>2. ASSUME NEW i \in Pipe, NEW e \in Ends
      PROVE  /\ d = Desc(i, e) => /\ OpenIn(fds', i, e) = OpenIn(fds, i, e) \cup {<<p, new>>}
                                  /\ OpenIn(fds, i, e) # {}
             /\ d # Desc(i, e) => OpenIn(fds', i, e) = OpenIn(fds, i, e)
             /\ <<p, new>> \notin OpenIn(fds, i, e)
  <2>1. Desc(i, e) \in Descs BY Zenon DEF Desc, Descs
  <2>2. <<p, new>> \notin OpenIn(fds, i, e) BY <2>1, NoneApart, OpenSet
  <2>3. ASSUME d = Desc(i, e) PROVE OpenIn(fds', i, e) = OpenIn(fds, i, e) \cup {<<p, new>>}
    <3>1. fds'[p][new] = Desc(i, e) BY <2>3
    <3> QED BY ONLY <3>1, p \in Proc, new \in Fd, OnlySet(p, new), OpenMore, Zenon
  <2>4. ASSUME d # Desc(i, e) PROVE OpenIn(fds', i, e) = OpenIn(fds, i, e) \ {<<p, new>>}
    <3>1. fds'[p][new] # Desc(i, e) BY <2>4
    <3> QED BY ONLY <3>1, p \in Proc, new \in Fd, OnlySet(p, new), OpenSet, Zenon
  <2>5. d = Desc(i, e) => <<p, old>> \in OpenIn(fds, i, e) BY DEF OpenIn
  <2> QED BY <2>2, <2>3, <2>4, <2>5, Zenon
<1>3. NoNewEnd BY <1>2 DEF NoNewEnd
<1>4. ASSUME ~copied', NEW i \in Pipe, NEW e \in Ends
      PROVE  Refs(pipe'[i], e) >= Tally(fds', pc', arg', i, e)
  <2> DEFINE C == ClosingIn(pc, arg, i, e)
             D == ClosingIn(pc', arg', i, e)
             O == OpenIn(fds, i, e)
             P == OpenIn(fds', i, e)
  <2>1. Refs(pipe[i], e) >= Tally(fds, pc, arg, i, e) BY <1>4, CountedIs
  <2>2. D = C \ {p} BY ClosingMove
  <2>3. /\ IsFiniteSet(C) /\ Cardinality(C) \in Nat /\ Cardinality(D) \in Nat
        /\ IsFiniteSet(O) /\ Cardinality(O) \in Nat /\ Cardinality(P) \in Nat
    BY CountsFinite, Zenon
  <2>4. Cardinality(D) <= Cardinality(C)
    <3>1. D \in SUBSET C BY <2>2
    <3> QED BY <2>3, <3>1, Zenon DEF Counting, CardSubset
  <2>5. Refs(pipe[i], e) \in Nat BY RefsNat
  <2>6. Refs(pipe'[i], e) \in Nat /\ Refs(pipe'[i], e) >= Refs(pipe[i], e) BY <1>1, AddRefs, Zenon
  <2>t. /\ Refs(pipe[i], e) >= Cardinality(O) + Cardinality(C)
        /\ Tally(fds', pc', arg', i, e) = Cardinality(P) + Cardinality(D)
    BY <2>1, Zenon DEF Tally
  <2>7. CASE d = Desc(i, e)
    <3>1. P = O \cup {<<p, new>>} /\ O # {} /\ <<p, new>> \notin O BY <1>2, <2>7, Zenon
    <3>2. pipe[i].active BY <1>4, <3>1, CountedActive, Zenon
    <3>3. d.pipe = i /\ d.end = e BY <2>7 DEF Desc
    <3>4. Refs(pipe'[i], e) = Refs(pipe[i], e) + 1 BY <1>1, <3>2, <3>3, AddRefs, Zenon
    <3> HIDE DEF C, D, O, P
    <3>5. Cardinality(P) = Cardinality(O) + 1 BY <2>3, <3>1, Zenon DEF Counting, CardAdd
    <3> QED BY ONLY <2>3, <2>4, <2>5, <2>t, <3>4, <3>5
  <2>8. CASE d # Desc(i, e)
    <3>1. P = O BY <1>2, <2>8
    <3> HIDE DEF C, D, O, P
    <3> QED BY ONLY <2>3, <2>4, <2>5, <2>6, <2>t, <3>1
  <2> QED BY <2>7, <2>8
<1> QED BY <1>3, <1>4, CountedIs

\* spawn: the child, which had nothing, gets the table of its parent.
LEMMA ChildOpen ==
  ASSUME PTypes, Counting, Kept, NEW p \in Proc, NEW c \in Proc, pc[c] = None, fds' = [fds EXCEPT ![c] = fds[p]],
         NEW i \in Pipe, NEW e \in Ends
  PROVE  /\ OpenIn(fds', i, e) = OpenIn(fds, i, e) \cup ({c} \X Pointing(p, i, e))
         /\ Pointing(p, i, e) # {} => OpenIn(fds, i, e) # {}
         /\ \A f \in Fd : <<c, f>> \notin OpenIn(fds, i, e)
<1>1. \A f \in Fd : fds[c][f] = None BY DEF Kept, KeptAt
<1>2. Desc(i, e) \in Descs /\ None # Desc(i, e) BY NoneApart DEF Desc, Descs
<1>3. fds'[c] = fds[p] /\ \A q \in Proc \ {c} : fds'[q] = fds[q] BY DEF PTypes
<1>4. ASSUME NEW q \in Proc, NEW f \in Fd
      PROVE  <<q, f>> \in OpenIn(fds', i, e)
               <=> <<q, f>> \in OpenIn(fds, i, e) \/ (q = c /\ f \in Pointing(p, i, e))
  <2>1. <<q, f>> \in OpenIn(fds', i, e) <=> fds'[q][f] = Desc(i, e) BY DEF OpenIn
  <2>2. <<q, f>> \in OpenIn(fds, i, e) <=> fds[q][f] = Desc(i, e) BY DEF OpenIn
  <2>3. f \in Pointing(p, i, e) <=> fds[p][f] = Desc(i, e) BY DEF Pointing
  <2>4. CASE q = c BY <1>1, <1>2, <1>3, <2>1, <2>2, <2>3, <2>4, Zenon
  <2>5. CASE q # c BY <1>3, <2>1, <2>2, <2>5
  <2> QED BY <2>4, <2>5
<1>5. OpenIn(fds, i, e) \subseteq Proc \X Fd /\ OpenIn(fds', i, e) \subseteq Proc \X Fd
  BY DEF OpenIn
<1>6. Pointing(p, i, e) \subseteq Fd BY DEF Pointing
<1>7. OpenIn(fds', i, e) = OpenIn(fds, i, e) \cup ({c} \X Pointing(p, i, e))
  <2>1. ASSUME NEW x \in Proc \X Fd
        PROVE  x \in OpenIn(fds', i, e)
                 <=> x \in OpenIn(fds, i, e) \/ x \in {c} \X Pointing(p, i, e)
    <3>1. PICK q \in Proc, f \in Fd : x = <<q, f>> OBVIOUS
    <3>2. x \in {c} \X Pointing(p, i, e) <=> q = c /\ f \in Pointing(p, i, e) BY <3>1
    <3> QED BY <1>4, <3>1, <3>2, Zenon
  <2>2. {c} \X Pointing(p, i, e) \subseteq Proc \X Fd BY <1>6
  <2> QED BY <1>5, <2>1, <2>2, Zenon
<1>8. \A f \in Fd : <<c, f>> \notin OpenIn(fds, i, e) BY <1>1, <1>2 DEF OpenIn
<1>9. ASSUME NEW f \in Pointing(p, i, e) PROVE <<p, f>> \in OpenIn(fds, i, e)
  BY DEF Pointing, OpenIn
<1> QED BY <1>7, <1>8, <1>9, Zenon

\* A spawn without aliased descriptors counts every end the child has.
LEMMA SpawnCounted ==
  ASSUME PTypes, Counting, Kept, Counted, NEW p \in Proc, Spawn(p)
  PROVE  Kept' /\ Counted' /\ NoNewEnd
<1>1. PICK c \in Proc : /\ pc[c] = None /\ pc' = [pc EXCEPT ![c] = "user"]
                        /\ fds' = [fds EXCEPT ![c] = fds[p]]
                        /\ pipe' = [i \in Pipe |-> Inherited(p, i)]
  BY Zenon DEF Spawn, At, Go, Inherited
<1>2. arg' = arg /\ copied' = (copied \/ Aliased(p)) BY DEF Spawn
<1>3. OnlyMoves(c) /\ pc'[c] = "user" BY <1>1, <1>2 DEF OnlyMoves, PTypes
<1>4. Kept' BY <1>3, KeptFree, KeptStep
<1>5. ASSUME NEW i \in Pipe, NEW e \in Ends
      PROVE  /\ OpenIn(fds', i, e) = OpenIn(fds, i, e) \cup ({c} \X Pointing(p, i, e))
             /\ Pointing(p, i, e) # {} => OpenIn(fds, i, e) # {}
             /\ \A f \in Fd : <<c, f>> \notin OpenIn(fds, i, e)
  BY <1>1, ChildOpen, Zenon
<1>6. NoNewEnd
  <2> SUFFICES ASSUME NEW i \in Pipe, NEW e \in Ends, OpenIn(fds, i, e) = {}
               PROVE  OpenIn(fds', i, e) = {}
    BY DEF NoNewEnd
  <2>1. Pointing(p, i, e) = {} BY <1>5
  <2>2. {c} \X Pointing(p, i, e) = {} BY <2>1
  <2> QED BY <1>5, <2>2
<1>7. ASSUME ~copied', NEW i \in Pipe, NEW e \in Ends
      PROVE  Refs(pipe'[i], e) >= Tally(fds', pc', arg', i, e)
  <2> DEFINE C == ClosingIn(pc, arg, i, e)
             D == ClosingIn(pc', arg', i, e)
             O == OpenIn(fds, i, e)
             P == OpenIn(fds', i, e)
             F == Pointing(p, i, e)
  <2>0. ~copied /\ ~Aliased(p) BY <1>2, <1>7, Zenon
  <2>1. Refs(pipe[i], e) >= Tally(fds, pc, arg, i, e) BY <2>0, CountedIs, Zenon
  <2>2. D = C \ {c} BY <1>3, ClosingMove DEF OnlyMoves
  <2>3. /\ IsFiniteSet(C) /\ Cardinality(C) \in Nat /\ Cardinality(D) \in Nat
        /\ IsFiniteSet(O) /\ Cardinality(O) \in Nat /\ Cardinality(P) \in Nat
    BY CountsFinite
  <2>4. Cardinality(D) <= Cardinality(C)
    <3>1. D \in SUBSET C BY <2>2
    <3> QED BY <2>3, <3>1 DEF Counting, CardSubset
  <2>5. Refs(pipe[i], e) \in Nat BY RefsNat
  <2>6. pipe'[i] = Inherited(p, i) BY <1>1, Zenon
  <2>7. /\ pipe[i].active /\ F # {} => Refs(pipe'[i], e) = Refs(pipe[i], e) + 1
        /\ F = {} => Refs(pipe'[i], e) = Refs(pipe[i], e)
    <3> DEFINE z == Inherited(p, i)
    <3>1. /\ z.readers = IF pipe[i].active /\ Pointing(p, i, "r") # {} THEN pipe[i].readers + 1
                         ELSE pipe[i].readers
          /\ z.writers = IF pipe[i].active /\ Pointing(p, i, "w") # {} THEN pipe[i].writers + 1
                         ELSE pipe[i].writers
      BY InheritedGood
    <3> HIDE DEF z
    <3>2. pipe'[i] = z BY <2>6, Zenon DEF z
    <3>3. CASE e = "r" BY <3>1, <3>2, <3>3, Zenon DEF Refs
    <3>4. CASE e = "w" BY <3>1, <3>2, <3>4 DEF Refs
    <3> QED BY <3>3, <3>4, Zenon DEF Ends
  <2>8. F \in SUBSET Fd /\ IsFiniteSet(F) /\ Cardinality(F) \in Nat
    <3>1. F \in SUBSET Fd /\ IsFiniteSet(Fd) BY PipesAssumption DEF Pointing
    <3>2. IsFiniteSet(F) BY <3>1 DEF Counting, CardSubset
    <3> QED BY <3>1, <3>2 DEF Counting, CardNat
  <2>9. ~(Cardinality(F) > 1) BY <2>0 DEF Aliased
  <2>10. F = {} \/ \E f : F = {f}
    <3>1. Cardinality(F) = 0 \/ Cardinality(F) = 1 BY <2>8, <2>9
    <3> HIDE DEF F
    <3>2. IsFiniteSet(F) BY <2>8
    <3> QED BY <3>1, <3>2, AtMostOne, Zenon
  <2>t. /\ Refs(pipe[i], e) >= Cardinality(O) + Cardinality(C)
        /\ Tally(fds', pc', arg', i, e) = Cardinality(P) + Cardinality(D)
    BY <2>1, Zenon DEF Tally
  <2>11. CASE F = {}
    <3>1. {c} \X F = {} BY <2>11
    <3>2. P = O \cup ({c} \X F) BY <1>5
    <3> HIDE DEF C, D, O, P, F
    <3>3. P = O BY <3>1, <3>2, Zenon
    <3> QED BY ONLY <2>3, <2>4, <2>5, <2>7, <2>t, <2>11, <3>3
  <2>12. ASSUME NEW f, F = {f} PROVE Refs(pipe'[i], e) >= Tally(fds', pc', arg', i, e)
    <3>1. f \in Fd BY <2>8, <2>12
    <3>2. {c} \X F = {<<c, f>>} BY <2>12
    <3>3. P = O \cup {<<c, f>>} /\ <<c, f>> \notin O /\ O # {} BY <1>5, <2>12, <3>1, <3>2
    <3>4. pipe[i].active BY <2>0, <3>3, CountedActive, Zenon
    <3>5. Refs(pipe'[i], e) = Refs(pipe[i], e) + 1 BY <2>7, <2>12, <3>4
    <3> HIDE DEF C, D, O, P
    <3>6. Cardinality(P) = Cardinality(O) + 1 BY <2>3, <3>3 DEF Counting, CardAdd
    <3> QED BY ONLY <2>3, <2>4, <2>5, <2>t, <3>5, <3>6
  <2> QED BY <2>10, <2>11, <2>12
<1> QED BY <1>4, <1>6, <1>7, CountedIs

\* pipe: the two descriptors of a pipe nobody had.
LEMMA NewOpen ==
  ASSUME PTypes, Counting, NEW p \in Proc, NEW i \in Pipe, NEW t, t = fds[p], NEW r, NEW w,
         fds' = [fds EXCEPT ![p] = t]
         \/ fds' = [fds EXCEPT ![p] = [[t EXCEPT ![r] = Desc(i, "r")] EXCEPT ![w] = Desc(i, "w")]],
         NEW j \in Pipe, NEW e \in Ends
  PROVE  OpenIn(fds', j, e) \subseteq
           OpenIn(fds, j, e) \cup (IF j = i THEN {<<p, IF e = "r" THEN r ELSE w>>} ELSE {})
<1>1. fds \in [Proc -> [Fd -> Descs \cup {None}]] BY DEF PTypes
<1> DEFINE v == [[t EXCEPT ![r] = Desc(i, "r")] EXCEPT ![w] = Desc(i, "w")]
<1>2. ASSUME NEW f \in Fd
      PROVE  \/ v[f] = t[f]
             \/ f = r /\ v[f] = Desc(i, "r")
             \/ f = w /\ v[f] = Desc(i, "w")
  BY <1>1
<1> HIDE DEF v
<1>3. ASSUME NEW q \in Proc, NEW f \in Fd
      PROVE  \/ fds'[q][f] = fds[q][f]
             \/ q = p /\ f = r /\ fds'[q][f] = Desc(i, "r")
             \/ q = p /\ f = w /\ fds'[q][f] = Desc(i, "w")
  <2>1. CASE fds' = [fds EXCEPT ![p] = t] BY <1>1, <2>1
  <2>2. CASE fds' = [fds EXCEPT ![p] = v]
    <3>1. CASE q = p BY <1>1, <1>2, <2>2, <3>1
    <3>2. CASE q # p BY <1>1, <2>2, <3>2
    <3> QED BY <3>1, <3>2
  <2> QED BY <2>1, <2>2 DEF v
<1> DEFINE g == IF e = "r" THEN r ELSE w
<1>4. ASSUME NEW q \in Proc, NEW f \in Fd, fds'[q][f] = Desc(j, e)
      PROVE  fds[q][f] = Desc(j, e) \/ (j = i /\ q = p /\ f = g)
  <2>1. Desc(i, "r") = Desc(j, e) => j = i /\ e = "r" BY DEF Desc
  <2>2. Desc(i, "w") = Desc(j, e) => j = i /\ e = "w" BY DEF Desc
  <2> QED BY <1>3, <1>4, <2>1, <2>2
<1> HIDE DEF g
<1>5. ASSUME NEW x \in OpenIn(fds', j, e)
      PROVE  x \in OpenIn(fds, j, e) \cup (IF j = i THEN {<<p, g>>} ELSE {})
  <2>1. PICK q \in Proc, f \in Fd : x = <<q, f>> BY DEF OpenIn
  <2>2. fds'[q][f] = Desc(j, e) BY <2>1 DEF OpenIn
  <2>3. fds[q][f] = Desc(j, e) => x \in OpenIn(fds, j, e) BY <2>1 DEF OpenIn
  <2> QED BY <1>4, <2>1, <2>2, <2>3
<1> QED BY <1>5 DEF g

\* A new pipe counts one reader and one writer.
LEMMA SysPipeCounted ==
  ASSUME PTypes, Counting, Counted, NEW p \in Proc, SysPipe(p), copied' = copied
  PROVE  /\ Counted'
         /\ \A i \in Pipe, e \in Ends :
              pipe[i].active => OpenIn(fds', i, e) \subseteq OpenIn(fds, i, e)
<1> DEFINE t == fds[p]
           New == [EmptyPipe EXCEPT !.active = TRUE, !.readers = 1, !.writers = 1]
<1>1. PICK i \in Pipe :
         /\ ~pipe[i].active /\ pipe' = [pipe EXCEPT ![i] = New]
         /\ fds' = [fds EXCEPT ![p] =
              IF Cardinality({f \in Fd : t[f] = None}) < 2 THEN t
              ELSE LET r == CHOOSE f \in FreeFd(t) : TRUE
                       u == [t EXCEPT ![r] = Desc(i, "r")]
                       w == CHOOSE f \in FreeFd(u) : TRUE
                   IN [u EXCEPT ![w] = Desc(i, "w")]]
  BY Zenon DEF SysPipe
<1> DEFINE r == CHOOSE f \in FreeFd(t) : TRUE
           u == [t EXCEPT ![r] = Desc(i, "r")]
           w == CHOOSE f \in FreeFd(u) : TRUE
           v == [u EXCEPT ![w] = Desc(i, "w")]
<1>2. fds' = [fds EXCEPT ![p] = t] \/ fds' = [fds EXCEPT ![p] = v] BY <1>1, Zenon
<1> HIDE DEF r, w
<1>3. \A j \in Pipe, e \in Ends :
         OpenIn(fds', j, e) \subseteq
           OpenIn(fds, j, e) \cup (IF j = i THEN {<<p, IF e = "r" THEN r ELSE w>>} ELSE {})
  BY <1>2, NewOpen, Zenon
<1>4. New.readers = 1 /\ New.writers = 1 BY EmptyGood DEF GoodPipe, PipeRec
<1> HIDE DEF New, t, u, v
<1>5. pc' = pc /\ arg' = arg BY DEF SysPipe
<1>6. pipe'[i] = New /\ \A j \in Pipe \ {i} : pipe'[j] = pipe[j] BY <1>1 DEF PTypes
<1>7. ASSUME ~copied', NEW j \in Pipe, NEW e \in Ends
      PROVE  Refs(pipe'[j], e) >= Tally(fds', pc', arg', j, e)
  <2> DEFINE C == ClosingIn(pc, arg, j, e)
             O == OpenIn(fds, j, e)
             P == OpenIn(fds', j, e)
  <2>1. Refs(pipe[j], e) >= Tally(fds, pc, arg, j, e) BY <1>7, CountedIs
  <2>2. /\ IsFiniteSet(C) /\ Cardinality(C) \in Nat
        /\ IsFiniteSet(O) /\ Cardinality(O) \in Nat /\ Cardinality(P) \in Nat
    BY CountsFinite, Zenon
  <2>3. CASE j # i
    <3>1. P \in SUBSET O BY <1>3, <2>3
    <3>2. Cardinality(P) <= Cardinality(O) BY <2>2, <3>1 DEF Counting, CardSubset
    <3>3. Refs(pipe'[j], e) = Refs(pipe[j], e) /\ Refs(pipe[j], e) \in Nat BY <1>6, <2>3, RefsNat
    <3> QED BY <1>5, <2>1, <2>2, <3>2, <3>3 DEF Tally
  <2>4. CASE j = i
    <3> DEFINE x == <<p, IF e = "r" THEN r ELSE w>>
    <3>1. O = {} /\ C = {} BY <1>1, <1>7, <2>4, CountedActive
    <3>2. P \in SUBSET {x} BY <1>3, <2>4, <3>1
    <3> HIDE DEF x, P, C
    <3>3. Cardinality(P) <= 1
      <4>1. IsFiniteSet({x}) /\ Cardinality({x}) = 1 BY Zenon DEF Counting, CardOne
      <4>2. Cardinality(P) <= Cardinality({x}) BY <3>2, <4>1 DEF Counting, CardSubset
      <4> QED BY <4>1, <4>2
    <3>4. Cardinality(C) = 0 BY <3>1 DEF Counting, CardEmpty
    <3>5. Refs(pipe'[j], e) = 1 BY <1>4, <1>6, <2>4 DEF Refs
    <3> QED BY <1>5, <2>2, <3>3, <3>4, <3>5 DEF Tally, P, C
  <2> QED BY <2>3, <2>4
<1>8. ASSUME NEW j \in Pipe, NEW e \in Ends, pipe[j].active
      PROVE  OpenIn(fds', j, e) \subseteq OpenIn(fds, j, e)
  <2>1. j # i BY <1>1, <1>8
  <2> QED BY <1>3, <2>1
<1> QED BY <1>7, <1>8, CountedIs
=============================================================================
