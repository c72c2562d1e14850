---------------------------- MODULE PipesOneCore ----------------------------
(***************************************************************************)
(* What the steps of Pipes do, on one core, to the readers that sleep and  *)
(* to the level that a pipe reports.                                       *)
(***************************************************************************)
EXTENDS PipesTypes

(***************************************************************************)
(* One core.  The process that runs is the only one between two points of  *)
(* a call, so what holds of the others is told by what it is about to do.  *)
(***************************************************************************)
Idle == {None, "user", "halted", "zombie"}
Waken == {"publish_in", "token_in", "publish_out", "token_out", "wake", "sweep", "hangup",
          "token_end"}
Exiting == {"exit", "exit_hangup", "exit_token"}
Reading == {"publish_in", "token_in", "publish_out", "token_out", "read", "eof", "mark", "block"}

BytesAt(l, a, i) == l \in Waken /\ a.i = i /\ a.next = "wake"
WakesAt(l, a, i) == BytesAt(l, a, i) \/ l \in Exiting

\* OneCore for the process p that runs, with the variables as parameters.
QuietIn(p, l) == \A q \in Proc \ {p} : l[q] \in Idle

LookedIn(p, l, a, W, z) ==
  /\ l \in Reading /\ a.next = "read" /\ a.data = <<>> =>
       available_read(z[a.i]) = 0 \/ ~z[a.i].active
  /\ l \in {"mark", "block"} => z[a.i].writers > 0
  /\ l = "block" => p \in W[a.i]
  /\ l = "publish_in" => a.ar = available_read(z[a.i])

SleepIn(p, l, a, s, W, z) ==
  \A q \in Proc, i \in Pipe :
    l[q] = "halted" /\ s[q] = i =>
      /\ q \in W[i]
      /\ available_read(z[i]) > 0 => BytesAt(l[p], a[p], i)
      /\ z[i].writers = 0 => WakesAt(l[p], a[p], i)

LevelsIn(l, a, m, z) ==
  \A i \in Pipe : z[i].active /\ available_read(z[i]) > 0 =>
                    "IN" \in m[i] \/ (l = "publish_in" /\ a.i = i)

\* What OneCore says from where the running process p stands.
LEMMA ToOne ==
  ASSUME PTypes, OneCore, cores = 1, NEW p \in Proc, QuietIn(p, pc)
  PROVE  /\ LookedIn(p, pc[p], arg[p], waiters, pipe)
         /\ SleepIn(p, pc, arg, state, waiters, pipe)
         /\ LevelsIn(pc[p], arg[p], mask, pipe)
<1>0. \A q \in Proc \ {p} : pc[q] \notin Waken \cup Exiting
  BY PipesAssumption DEF QuietIn, Idle, Waken, Exiting, Labels
<1>1. LookedIn(p, pc[p], arg[p], waiters, pipe)
  BY DEF OneCore, Looked, LookedIn, Reading
<1>2. SleepIn(p, pc, arg, state, waiters, pipe)
  <2> SUFFICES ASSUME NEW q \in Proc, NEW i \in Pipe, pc[q] = "halted", state[q] = i
               PROVE  /\ q \in waiters[i]
                      /\ available_read(pipe[i]) > 0 => BytesAt(pc[p], arg[p], i)
                      /\ pipe[i].writers = 0 => WakesAt(pc[p], arg[p], i)
    BY DEF SleepIn
  <2>1. Asleep(q, i) BY DEF OneCore
  <2>2. q \in waiters[i] BY <2>1 DEF Asleep, At, Blocked
  <2>3. ASSUME available_read(pipe[i]) > 0 PROVE BytesAt(pc[p], arg[p], i)
    <3>1. PICK r \in Proc : WakingBytes(r, i) BY <2>1, <2>3 DEF Asleep, At, Blocked
    <3>2. r = p BY <1>0, <3>1 DEF WakingBytes, Waken
    <3> QED BY <3>1, <3>2 DEF WakingBytes, BytesAt, Waken
  <2>4. ASSUME pipe[i].writers = 0 PROVE WakesAt(pc[p], arg[p], i)
    <3>1. PICK r \in Proc : Waking(r, i) BY <2>1, <2>4 DEF Asleep, At, Blocked
    <3>2. r = p BY <1>0, <3>1 DEF Waking, Waken, Exiting
    <3> QED BY <3>1, <3>2 DEF Waking, WakesAt, BytesAt, Waken, Exiting
  <2> QED BY <2>2, <2>3, <2>4
<1>3. LevelsIn(pc[p], arg[p], mask, pipe)
  <2> SUFFICES ASSUME NEW i \in Pipe, pipe[i].active, available_read(pipe[i]) > 0
               PROVE  "IN" \in mask[i] \/ (pc[p] = "publish_in" /\ arg[p].i = i)
    BY DEF LevelsIn
  <2>1. "IN" \in mask[i] \/ \E q \in Proc : pc[q] = "publish_in" /\ arg[q].i = i
    BY DEF OneCore, Level, At
  <2> QED BY <1>0, <2>1 DEF Waken
<1> QED BY <1>1, <1>2, <1>3

\* And back.
LEMMA FromOne ==
  ASSUME NEW p \in Proc, QuietIn(p, pc'), LookedIn(p, pc'[p], arg'[p], waiters', pipe'),
         SleepIn(p, pc', arg', state', waiters', pipe'), LevelsIn(pc'[p], arg'[p], mask', pipe')
  PROVE  OneCore'
<1>0. \A q \in Proc \ {p} : pc'[q] \notin Waken \cup Exiting \cup Reading
  BY PipesAssumption DEF QuietIn, Idle, Waken, Exiting, Reading, Labels
<1>1. Alone' BY DEF Alone, Busy, QuietIn, Idle
<1>2. ASSUME NEW q \in Proc PROVE Looked(q)'
  <2>1. CASE q = p
    BY <2>1 DEF Looked, LookedIn, Reading, available_read
  <2>2. CASE q # p
    BY <1>0, <2>2 DEF Looked, Reading
  <2> QED BY <2>1, <2>2, Zenon
<1>3. ASSUME NEW q \in Proc, NEW i \in Pipe PROVE Asleep(q, i)'
  <2> SUFFICES ASSUME pc'[q] = "halted", state'[q] = i
               PROVE  /\ q \in waiters'[i]
                      /\ available_read(pipe'[i]) > 0 => \E r \in Proc : WakingBytes(r, i)'
                      /\ pipe'[i].writers = 0 => \E r \in Proc : Waking(r, i)'
    BY DEF Asleep, At, Blocked, available_read
  <2>1. /\ q \in waiters'[i]
        /\ available_read(pipe'[i]) > 0 => BytesAt(pc'[p], arg'[p], i)
        /\ pipe'[i].writers = 0 => WakesAt(pc'[p], arg'[p], i)
    BY DEF SleepIn
  <2>2. BytesAt(pc'[p], arg'[p], i) => WakingBytes(p, i)' BY DEF BytesAt, WakingBytes, Waken
  <2>3. WakesAt(pc'[p], arg'[p], i) => Waking(p, i)' BY DEF BytesAt, WakesAt, Waking, Waken, Exiting
  <2> QED BY <2>1, <2>2, <2>3
<1>4. ASSUME NEW i \in Pipe PROVE Level(i)'
  <2> SUFFICES ASSUME pipe'[i].active, available_read(pipe'[i]) > 0
               PROVE  "IN" \in mask'[i] \/ \E q \in Proc : pc'[q] = "publish_in" /\ arg'[q].i = i
    BY DEF Level, At, available_read
  <2> QED BY DEF LevelsIn
<1> QED BY <1>1, <1>2, <1>3, <1>4 DEF OneCore

\* A process that gets a core, when there is one, is the only one in a call.
CpuQuiet == cores = 1 => \A p \in Proc : Cpu(p) => QuietIn(p, pc)

\* A process in a call is the only one.
LEMMA BusyAlone ==
  ASSUME PTypes, OneCore, cores = 1, NEW p \in Proc, pc[p] \notin Idle
  PROVE  QuietIn(p, pc)
BY DEF OneCore, Alone, Busy, QuietIn, Idle

\* A pipe with no more bytes than before, and a writer if it had one.
Milder(i) ==
  /\ available_read(pipe'[i]) > 0 => available_read(pipe[i]) > 0
  /\ pipe'[i].writers = 0 => pipe[i].writers = 0
  /\ pipe'[i].active /\ available_read(pipe'[i]) > 0 => pipe[i].active

\* A call begins, is done in one step, or a reader goes on.
LEMMA StartOne ==
  ASSUME PTypes, OneCore, cores = 1, NEW p \in Proc, QuietIn(p, pc), pc[p] \in {"user", "halted", "dup"},
         \A q \in Proc \ {p} : pc'[q] = pc[q] \/ pc'[q] = "user",
         pc'[p] \in {"user", "pipe_write", "pipe_read", "close", "exit"},
         state' = state, mask' = mask, \A i \in Pipe : waiters[i] \ {p} \subseteq waiters'[i],
         \A i \in Pipe : Milder(i)
  PROVE  OneCore'
<1>1. /\ SleepIn(p, pc, arg, state, waiters, pipe)
      /\ LevelsIn(pc[p], arg[p], mask, pipe)
  BY ToOne
<1>2. QuietIn(p, pc') BY DEF QuietIn, Idle
<1>3. LookedIn(p, pc'[p], arg'[p], waiters', pipe') BY DEF LookedIn, Reading
<1>4. pc[p] \notin Waken \cup Exiting /\ pc'[p] # "halted" BY DEF Waken, Exiting
<1>5. SleepIn(p, pc', arg', state', waiters', pipe')
  <2> SUFFICES ASSUME NEW q \in Proc, NEW i \in Pipe, pc'[q] = "halted", state'[q] = i
               PROVE  /\ q \in waiters'[i]
                      /\ available_read(pipe'[i]) > 0 => BytesAt(pc'[p], arg'[p], i)
                      /\ pipe'[i].writers = 0 => WakesAt(pc'[p], arg'[p], i)
    BY DEF SleepIn
  <2>1. q # p BY <1>4
  <2>2. pc[q] = "halted" /\ state[q] = i BY <2>1
  <2>3. q \in waiters[i] /\ ~(available_read(pipe[i]) > 0) /\ pipe[i].writers # 0
    BY <1>1, <1>4, <2>2 DEF SleepIn, BytesAt, WakesAt
  <2>4. q \in waiters'[i] BY <2>1, <2>3
  <2> QED BY <2>3, <2>4 DEF Milder
<1>6. LevelsIn(pc'[p], arg'[p], mask', pipe')
  BY <1>1, <1>4 DEF LevelsIn, Milder, Waken
<1> QED BY <1>2, <1>3, <1>5, <1>6, FromOne

\* A pipe left alone has no more bytes than before, and its writers.
LEMMA SamePipes == ASSUME pipe' = pipe PROVE \A i \in Pipe : Milder(i)
BY DEF Milder

\* What the counters do leaves the bytes alone.
LEMMA AddsMilder ==
  ASSUME PTypes, NEW j \in Pipe, NEW x \in Ends, Adds(j, x)
  PROVE  \A i \in Pipe : Milder(i)
<1>1. pipe \in [Pipe -> GoodPipe] BY DEF PTypes
<1> DEFINE z == Added(pipe[j], x)
<1>2. /\ available_read(z) = available_read(pipe[j]) /\ z.active = pipe[j].active
      /\ z.writers = IF pipe[j].active /\ x = "w" THEN pipe[j].writers + 1 ELSE pipe[j].writers
  BY <1>1, AddedGood
<1>3. z.active => pipe[j].active BY <1>2, Zenon
<1>4. pipe[j].writers \in Nat BY <1>1 DEF GoodPipe, PipeRec
<1> HIDE DEF z
<1>5. pipe'[j] = z /\ \A i \in Pipe \ {j} : pipe'[i] = pipe[i] BY <1>1 DEF Adds, z
<1>6. Milder(j) BY <1>2, <1>3, <1>4, <1>5 DEF Milder
<1>7. \A i \in Pipe \ {j} : Milder(i) BY <1>5 DEF Milder
<1> QED BY <1>6, <1>7

\* A spawn takes no writer away and adds no bytes.
LEMMA SpawnMilder ==
  ASSUME PTypes, NEW p \in Proc, Spawn(p)
  PROVE  \A i \in Pipe : Milder(i)
<1> SUFFICES ASSUME NEW i \in Pipe PROVE Milder(i) OBVIOUS
<1>1. pipe' = [j \in Pipe |-> Inherited(p, j)] BY DEF Spawn, Inherited
<1> DEFINE z == Inherited(p, i)
<1>2. /\ available_read(z) = available_read(pipe[i]) /\ z.active = pipe[i].active
      /\ z.writers = IF pipe[i].active /\ Pointing(p, i, "w") # {} THEN pipe[i].writers + 1
                     ELSE pipe[i].writers
  BY InheritedGood
<1>3. z.active => pipe[i].active BY <1>2, Zenon
<1>4. pipe[i].writers \in Nat BY DEF PTypes, GoodPipe, PipeRec
<1>5. pipe'[i] = z BY <1>1
<1> HIDE DEF z
<1> QED BY <1>2, <1>3, <1>4, <1>5 DEF Milder

\* A new pipe is empty and has a writer.
LEMMA SysPipeMilder ==
  ASSUME PTypes, NEW p \in Proc, SysPipe(p)
  PROVE  \A i \in Pipe : Milder(i)
<1> DEFINE New == [EmptyPipe EXCEPT !.active = TRUE, !.readers = 1, !.writers = 1]
<1>1. PICK j \in Pipe : pipe' = [pipe EXCEPT ![j] = New] BY Zenon DEF SysPipe
<1>2. New \in PipeRec BY NewGood DEF GoodPipe
<1>3. New.head = 0 /\ New.tail = 0 /\ New.writers = 1 BY EmptyGood DEF GoodPipe, PipeRec, EmptyPipe
<1> HIDE DEF New
<1>4. SIZE \in Nat /\ SIZE > 1 BY PipesAssumption
<1>5. available_read(New) = 0 BY <1>3, <1>4, AvailRange DEF Gap
<1>6. pipe'[j] = New /\ \A i \in Pipe \ {j} : pipe'[i] = pipe[i] BY <1>1 DEF PTypes
<1>7. Milder(j) BY <1>3, <1>5, <1>6 DEF Milder
<1>8. \A i \in Pipe \ {j} : Milder(i) BY <1>6 DEF Milder
<1> QED BY <1>7, <1>8

\* Entering a call, or coming back to one, keeps OneCore.
LEMMA CallsOne ==
  ASSUME PTypes, OneCore, CpuQuiet, cores = 1, NEW p \in Proc, Calls(p) \/ Resume(p)
  PROVE  OneCore'
<1>1. Cpu(p) /\ pc[p] \in {"user", "halted"}
  BY Zenon DEF Calls, SysPipe, Write, Read, Close, Dup2, Exit, Dup, Spawn, Resume, User, At
<1>2. QuietIn(p, pc) BY <1>1 DEF CpuQuiet
<1>3. state' = state /\ mask' = mask
  BY Zenon DEF Calls, SysPipe, Write, Read, Close, Dup2, Exit, Dup, Spawn, Resume
<1>4. \A i \in Pipe : waiters[i] \ {p} \subseteq waiters'[i]
  <2>1. CASE Exit(p) BY <2>1 DEF Exit
  <2>2. CASE ~Exit(p)
    <3>1. waiters' = waiters
      BY <2>2, Zenon DEF Calls, SysPipe, Write, Read, Close, Dup2, Dup, Spawn, Resume
    <3> QED BY <3>1
  <2> QED BY <2>1, <2>2
<1>5. /\ \A q \in Proc \ {p} : pc'[q] = pc[q] \/ pc'[q] = "user"
      /\ pc'[p] \in {"user", "pipe_write", "pipe_read", "close", "exit"}
  <2> USE DEF Go, PTypes
  <2>u. Calls(p) => pc[p] = "user"
    BY Zenon DEF Calls, SysPipe, Write, Read, Close, Dup2, Exit, Dup, Spawn, User, At
  <2>1. CASE SysPipe(p) \/ Dup(p) BY <2>1 DEF SysPipe, Dup, User, At
  <2>2. CASE Write(p) \/ Read(p) \/ Close(p) \/ Exit(p) \/ Resume(p)
    BY <2>2, Zenon DEF Write, Read, Close, Exit, Resume
  <2>3. CASE Dup2(p) BY <2>3 DEF Dup2, User, At
  <2>4. CASE Spawn(p)
    <3>1. PICK c \in Proc : pc' = [pc EXCEPT ![c] = "user"] BY <2>4, Zenon DEF Spawn
    <3>2. pc[p] = "user" BY <2>4 DEF Spawn, User, At
    <3> QED BY <3>1, <3>2
  <2> QED BY <2>1, <2>2, <2>3, <2>4 DEF Calls
<1>6. \A i \in Pipe : Milder(i)
  <2>1. CASE SysPipe(p) BY <2>1, SysPipeMilder
  <2>2. CASE Spawn(p) BY <2>2, SpawnMilder
  <2>3. CASE Write(p) \/ Read(p) \/ Close(p) \/ Exit(p) \/ Resume(p) \/ Dup(p)
    <3>1. pipe' = pipe BY <2>3 DEF Write, Read, Close, Exit, Resume, Dup
    <3> QED BY <3>1, SamePipes, Zenon
  <2>4. CASE Dup2(p)
    <3>1. CASE pipe' = pipe BY <3>1, SamePipes
    <3>2. CASE \E old \in Fd, new \in Fd : fds[p][old] # None /\ DupSet(p, fds[p][old], new)
      <4>1. PICK old \in Fd, new \in Fd : fds[p][old] # None /\ DupSet(p, fds[p][old], new) BY <3>2
      <4>2. Adds(fds[p][old].pipe, fds[p][old].end) BY <4>1 DEF DupSet, Adds
      <4> QED BY <4>1, <4>2, FdType, AddsMilder
    <3> QED BY <2>4, <3>1, <3>2 DEF Dup2
  <2> QED BY <2>1, <2>2, <2>3, <2>4 DEF Calls
<1> QED BY <1>1, <1>2, <1>3, <1>4, <1>5, <1>6, StartOne

\* A step of the process that runs, which wakes nobody and puts nobody to sleep.
Runs(p) ==
  /\ \A q \in Proc \ {p} : pc'[q] = pc[q]
  /\ pc'[p] # "halted" /\ state' = state
  /\ \A i \in Pipe : waiters[i] \subseteq waiters'[i]

\* A step of the running process strands no sleeper if it is itself on the way
\* to wake the readers of the pipe it filled or hung up.
LEMMA RunSleep ==
  ASSUME NEW p \in Proc, SleepIn(p, pc, arg, state, waiters, pipe), Runs(p),
         \A i \in Pipe : /\ available_read(pipe'[i]) > 0 =>
                              \/ BytesAt(pc'[p], arg'[p], i)
                              \/ available_read(pipe[i]) > 0 /\ ~BytesAt(pc[p], arg[p], i)
                         /\ pipe'[i].writers = 0 =>
                              \/ WakesAt(pc'[p], arg'[p], i)
                              \/ pipe[i].writers = 0 /\ ~WakesAt(pc[p], arg[p], i)
  PROVE  SleepIn(p, pc', arg', state', waiters', pipe')
<1> SUFFICES ASSUME NEW q \in Proc, NEW i \in Pipe, pc'[q] = "halted", state'[q] = i
             PROVE  /\ q \in waiters'[i]
                    /\ available_read(pipe'[i]) > 0 => BytesAt(pc'[p], arg'[p], i)
                    /\ pipe'[i].writers = 0 => WakesAt(pc'[p], arg'[p], i)
  BY DEF SleepIn
<1>1. pc[q] = "halted" /\ state[q] = i BY DEF Runs
<1>2. /\ q \in waiters[i]
      /\ available_read(pipe[i]) > 0 => BytesAt(pc[p], arg[p], i)
      /\ pipe[i].writers = 0 => WakesAt(pc[p], arg[p], i)
  BY <1>1 DEF SleepIn
<1>3. q \in waiters'[i] BY <1>2, Zenon DEF Runs
<1> QED BY <1>2, <1>3

\* Steps that leave the pipes alone.
LEMMA RunOne ==
  ASSUME PTypes, OneCore, cores = 1, NEW p \in Proc, QuietIn(p, pc), Runs(p), pipe' = pipe,
         LookedIn(p, pc'[p], arg'[p], waiters', pipe),
         \A i \in Pipe : /\ BytesAt(pc[p], arg[p], i) => BytesAt(pc'[p], arg'[p], i)
                         /\ WakesAt(pc[p], arg[p], i) => WakesAt(pc'[p], arg'[p], i),
         LevelsIn(pc'[p], arg'[p], mask', pipe)
  PROVE  OneCore'
<1>1. SleepIn(p, pc, arg, state, waiters, pipe) BY ToOne, Zenon
<1>2. SleepIn(p, pc', arg', state', waiters', pipe') BY <1>1, RunSleep, Zenon
<1>3. QuietIn(p, pc') BY DEF QuietIn, Runs
<1> QED BY <1>2, <1>3, FromOne, Zenon

\* The level is what it was, or was just published.
LEMMA LevelSame ==
  ASSUME NEW p \in Proc, LevelsIn(pc[p], arg[p], mask, pipe), pc[p] # "publish_in",
         \A i \in Pipe : "IN" \in mask[i] => "IN" \in mask'[i]
  PROVE  LevelsIn(pc'[p], arg'[p], mask', pipe)
BY Zenon DEF LevelsIn

\* Publishing a level keeps OneCore.
LEMMA PublishOne ==
  ASSUME PTypes, OneCore, cores = 1, NEW p \in Proc,
         PublishIn(p) \/ PublishOut(p) \/ WakeToken(p) \/ HangUp(p)
  PROVE  OneCore'
<1> DEFINE a == arg[p]
<1> USE DEF At, Go
<1>1. pc[p] \in {"publish_in", "token_in", "publish_out", "token_out", "hangup", "token_end"}
  BY DEF PublishIn, PublishOut, WakeToken, HangUp
<1>2. pc[p] \in Path /\ pc[p] \notin Idle
  BY <1>1, NoneApart DEF Path, Labels, Idle
<1>3. QuietIn(p, pc) BY <1>2, BusyAlone
<1>4. a \in Locals /\ LocalAt(pc[p], a) /\ InCall(pc[p]) BY <1>2, AtPath
<1>5. a.i \in Pipe /\ a.next \in {"wake", "read", "leave"} BY <1>4 DEF Locals
<1>6. /\ LookedIn(p, pc[p], a, waiters, pipe) /\ LevelsIn(pc[p], a, mask, pipe)
  BY <1>3, ToOne
<1>7. pipe' = pipe /\ arg' = arg /\ state' = state /\ waiters' = waiters
  BY Zenon DEF PublishIn, PublishOut, WakeToken, HangUp
<1> DEFINE l == pc'[p]
<1>8. /\ l \in {"token_in", "publish_out", "token_out", "token_end", a.next}
      /\ pc[p] \in {"hangup", "token_end"} => l \in {"token_end", a.next}
      /\ l = "token_end" => pc[p] = "hangup"
  <2> USE DEF PTypes
  <2>1. CASE PublishIn(p) BY <2>1 DEF PublishIn
  <2>2. CASE PublishOut(p) BY <1>5, <2>2, Zenon DEF PublishOut
  <2>3. CASE WakeToken(p) BY <1>5, <2>3 DEF WakeToken
  <2>4. CASE HangUp(p) BY <2>4, Zenon DEF HangUp
  <2> QED BY <2>1, <2>2, <2>3, <2>4, Zenon
<1>9. \A q \in Proc \ {p} : pc'[q] = pc[q]
  BY Zenon DEF PublishIn, PublishOut, WakeToken, HangUp, PTypes
<1>10. Runs(p) BY <1>5, <1>7, <1>8, <1>9, Zenon DEF Runs
<1>11. pc[p] \in {"hangup", "token_end"} => a.next # "read" BY <1>4, Zenon DEF LocalAt
<1>12. LookedIn(p, l, a, waiters, pipe)
  BY <1>1, <1>5, <1>6, <1>8, <1>11, Zenon DEF LookedIn, Reading
<1>13. ASSUME NEW i \in Pipe
       PROVE  /\ BytesAt(pc[p], a, i) => BytesAt(l, a, i)
              /\ WakesAt(pc[p], a, i) => WakesAt(l, a, i)
  BY <1>1, <1>8 DEF BytesAt, WakesAt, Waken, Exiting
<1>14. LevelsIn(l, a, mask', pipe)
  <2>0. mask \in [Pipe -> SUBSET {"IN", "OUT", "HUP", "ERR"}] BY DEF PTypes
  <2>1. CASE PublishIn(p)
    <3> SUFFICES ASSUME NEW i \in Pipe, pipe[i].active, available_read(pipe[i]) > 0
                 PROVE  "IN" \in mask'[i]
      BY DEF LevelsIn
    <3>1. CASE i = a.i
      <4>1. a.ar = available_read(pipe[i]) BY <1>6, <2>1, <3>1, Zenon DEF LookedIn, PublishIn
      <4> QED BY <2>0, <2>1, <3>1, <4>1, Zenon DEF PublishIn
    <3>2. CASE i # a.i
      <4>1. mask'[i] = mask[i] BY <2>0, <2>1, <3>2, Zenon DEF PublishIn
      <4> QED BY <1>6, <3>2, <4>1 DEF LevelsIn
    <3> QED BY <3>1, <3>2
  <2>2. CASE ~PublishIn(p)
    <3>1. pc[p] # "publish_in" BY <2>2, Zenon DEF PublishOut, WakeToken, HangUp
    <3>2. \A i \in Pipe : "IN" \in mask[i] => "IN" \in mask'[i]
      BY <2>0, <2>2 DEF PublishOut, WakeToken, HangUp
    <3> QED BY <1>6, <1>7, <1>9, <3>1, <3>2, LevelSame, Zenon
  <2> QED BY <2>1, <2>2
<1> QED BY <1>3, <1>7, <1>9, <1>10, <1>12, <1>13, <1>14, RunOne, Zenon

\* What a reader does without bytes keeps OneCore.
LEMMA ReaderOne ==
  ASSUME PTypes, OneCore, cores = 1, NEW p \in Proc,
         NoBytes(p) \/ ReturnEof(p) \/ MarkWaiter(p) \/ CloseDone(p) \/ ExitHangUp(p)
  PROVE  OneCore'
<1> DEFINE a == arg[p]
<1> USE DEF At, Go
<1>1. pc[p] \in {"read", "eof", "mark", "leave", "exit_hangup"}
  BY DEF NoBytes, ReturnEof, MarkWaiter, CloseDone, ExitHangUp
<1>2. pc[p] \in Path /\ pc[p] \notin Idle
  BY <1>1, NoneApart DEF Path, Labels, Idle
<1>3. QuietIn(p, pc) BY <1>2, BusyAlone
<1>4. a \in Locals /\ LocalAt(pc[p], a) /\ InCall(pc[p]) BY <1>2, AtPath
<1>5. a.i \in Pipe BY <1>4 DEF Locals
<1>6. LookedIn(p, pc[p], a, waiters, pipe) /\ LevelsIn(pc[p], a, mask, pipe)
  BY <1>3, ToOne, Zenon
<1>7. pipe' = pipe /\ state' = state
  BY Zenon DEF NoBytes, ReturnEof, MarkWaiter, CloseDone, ExitHangUp
<1>8. \/ Return(p)
      \/ \E l \in {"eof", "mark", "block", "dup", "exit_token"} :
           /\ pc' = [pc EXCEPT ![p] = l] /\ arg' = arg
           /\ l \in {"eof", "mark"} => pc[p] = "read" /\ a.data = <<>>
           /\ l = "mark" => pipe[a.i].writers # 0
           /\ l = "block" => pc[p] = "mark" /\ p \in waiters'[a.i]
           /\ pc[p] = "exit_hangup" => l = "exit_token"
  <2>1. CASE NoBytes(p) BY <2>1 DEF NoBytes
  <2>2. CASE MarkWaiter(p) BY <1>5, <2>2, Zenon DEF MarkWaiter, PTypes
  <2>3. CASE ReturnEof(p) \/ CloseDone(p) \/ ExitHangUp(p)
    BY <2>3 DEF ReturnEof, CloseDone, ExitHangUp, Leave
  <2> QED BY <2>1, <2>2, <2>3, Zenon
<1>9. pc[p] = "exit_hangup" => ~Return(p)
  <2>1. ExitHangUp(p) => pc'[p] = "exit_token" BY DEF ExitHangUp, PTypes
  <2>2. Return(p) => pc'[p] = "user" BY DEF Return, PTypes
  <2>3. pc[p] = "exit_hangup" => ExitHangUp(p) BY DEF NoBytes, ReturnEof, MarkWaiter, CloseDone
  <2> QED BY <2>1, <2>2, <2>3, Zenon
<1>10. \A i \in Pipe : waiters[i] \subseteq waiters'[i]
  <2>1. CASE MarkWaiter(p) BY <2>1 DEF MarkWaiter, PTypes
  <2>2. CASE ~MarkWaiter(p)
    <3>1. waiters' = waiters BY <2>2 DEF NoBytes, ReturnEof, CloseDone, ExitHangUp
    <3> QED BY <3>1, Zenon
  <2> QED BY <2>1, <2>2, Zenon
<1>11. LevelsIn(pc'[p], arg'[p], mask', pipe)
  <2>1. \A i \in Pipe : "IN" \in mask[i] => "IN" \in mask'[i]
    BY DEF NoBytes, ReturnEof, MarkWaiter, CloseDone, ExitHangUp, PTypes
  <2> QED BY <1>1, <1>6, <2>1, LevelSame, Zenon
<1>12. \A i \in Pipe : ~BytesAt(pc[p], a, i) /\ (WakesAt(pc[p], a, i) => pc[p] = "exit_hangup")
  BY <1>1, Zenon DEF BytesAt, WakesAt, Waken, Exiting
<1>13. CASE Return(p)
  <2>1. pc'[p] = "user" /\ \A q \in Proc \ {p} : pc'[q] = pc[q] BY <1>13 DEF Return, PTypes
  <2>2. Runs(p) BY <1>7, <1>10, <2>1 DEF Runs
  <2>3. LookedIn(p, pc'[p], arg'[p], waiters', pipe) BY <2>1, Zenon DEF LookedIn, Reading
  <2> QED BY <1>3, <1>7, <1>9, <1>11, <1>12, <1>13, <2>2, <2>3, RunOne, Zenon
<1>14. CASE ~Return(p)
  <2>1. PICK l \in {"eof", "mark", "block", "dup", "exit_token"} :
           /\ pc' = [pc EXCEPT ![p] = l] /\ arg' = arg
           /\ l \in {"eof", "mark"} => pc[p] = "read" /\ a.data = <<>>
           /\ l = "mark" => pipe[a.i].writers # 0
           /\ l = "block" => pc[p] = "mark" /\ p \in waiters'[a.i]
           /\ pc[p] = "exit_hangup" => l = "exit_token"
    BY <1>8, <1>14
  <2>2. pc'[p] = l /\ \A q \in Proc \ {p} : pc'[q] = pc[q] BY <2>1 DEF PTypes
  <2>3. Runs(p) BY <1>7, <1>10, <2>2 DEF Runs
  <2>4. pipe[a.i].writers \in Nat BY <1>5, Zenon DEF PTypes, GoodPipe, PipeRec
  <2>5. LookedIn(p, l, a, waiters', pipe)
    <3>1. l \in {"eof", "mark", "block"} => pc[p] \in {"read", "mark"} /\ a.data = <<>> /\ a.next = "read"
      BY <1>4, <2>1, Zenon DEF LocalAt
    <3>2. l \in {"eof", "mark", "block"} => available_read(pipe[a.i]) = 0 \/ ~pipe[a.i].active
      BY <1>6, <3>1, Zenon DEF LookedIn, Reading
    <3>3. l = "block" => pipe[a.i].writers > 0 BY <1>6, <2>1 DEF LookedIn
    <3>4. l = "mark" => pipe[a.i].writers > 0 BY <2>1, <2>4
    <3>5. l \in Reading => l \in {"eof", "mark", "block"} BY <2>1 DEF Reading
    <3> QED BY ONLY <2>1, <3>2, <3>3, <3>4, <3>5 DEF LookedIn
  <2>6. pc[p] = "exit_hangup" => \A i \in Pipe : WakesAt(l, a, i)
    BY <2>1, Zenon DEF WakesAt, Exiting
  <2> QED BY <1>3, <1>7, <1>11, <1>12, <2>1, <2>2, <2>3, <2>5, <2>6, RunOne, Zenon
<1> QED BY <1>13, <1>14, Zenon

\* wake_pipe_readers is done: nobody sleeps on the pipe any more.
LEMMA WokenOne ==
  ASSUME PTypes, OneCore, cores = 1, NEW p \in Proc, pc[p] \in {"wake", "sweep"}, Leave(p),
         pipe' = pipe, mask' = mask,
         \A q \in Proc, i \in Pipe :
            state'[q] = i => /\ state[q] = i
                             /\ q \in waiters[i] => i # arg[p].i /\ q \in waiters'[i]
  PROVE  OneCore'
<1> DEFINE a == arg[p]
<1>1. pc[p] \in Path /\ pc[p] \notin Idle BY NoneApart DEF Path, Labels, Idle
<1>2. QuietIn(p, pc) BY <1>1, BusyAlone, Zenon
<1>3. SleepIn(p, pc, arg, state, waiters, pipe) /\ LevelsIn(pc[p], a, mask, pipe) BY <1>2, ToOne, Zenon
<1>4. pc'[p] \in {"user", "dup"} /\ \A q \in Proc \ {p} : pc'[q] = pc[q]
  BY DEF Leave, Return, Go, PTypes
<1>5. QuietIn(p, pc') BY <1>2, <1>4, Zenon DEF QuietIn
<1>6. LookedIn(p, pc'[p], arg'[p], waiters', pipe') BY <1>4 DEF LookedIn, Reading
<1>7. LevelsIn(pc'[p], arg'[p], mask', pipe') BY <1>3, LevelSame
<1>8. SleepIn(p, pc', arg', state', waiters', pipe')
  <2> SUFFICES ASSUME NEW q \in Proc, NEW i \in Pipe, pc'[q] = "halted", state'[q] = i
               PROVE  /\ q \in waiters'[i]
                      /\ ~(available_read(pipe'[i]) > 0) /\ pipe'[i].writers # 0
    BY DEF SleepIn
  <2>1. pc[q] = "halted" /\ state[q] = i BY <1>4
  <2>2. q \in waiters[i] BY <1>3, <2>1 DEF SleepIn
  <2>3. i # a.i /\ q \in waiters'[i] BY <2>2
  <2> QED BY <1>3, <2>1, <2>3, Zenon DEF SleepIn, BytesAt, WakesAt, Exiting
<1> QED BY <1>5, <1>6, <1>7, <1>8, FromOne, Zenon

\* The sweep that wakes the readers keeps OneCore.
LEMMA WakeOne ==
  ASSUME PTypes, OneCore, cores = 1, NEW p \in Proc, WakeLook(p) \/ WakeSweep(p)
  PROVE  OneCore'
<1> DEFINE a == arg[p]
<1>1. pc[p] \in {"wake", "sweep"} /\ pipe' = pipe /\ mask' = mask
  BY DEF WakeLook, WakeSweep, At
<1>2. pc[p] \in Path /\ pc[p] \notin Idle BY <1>1, NoneApart DEF Path, Labels, Idle
<1>3. a \in Locals BY <1>2, AtPath
<1>4. a.i \in Pipe BY <1>3 DEF Locals
<1>5. CASE WakeSweep(p)
  <2>1. /\ state' = [q \in Proc |-> IF q \in waiters[a.i] /\ Blocked(q, a.i) THEN None ELSE state[q]]
        /\ waiters' = [waiters EXCEPT ![a.i] = {}] /\ Leave(p)
    BY <1>5 DEF WakeSweep
  <2>2. ASSUME NEW q \in Proc, NEW i \in Pipe, state'[q] = i
        PROVE  /\ state[q] = i
               /\ q \in waiters[i] => i # a.i /\ q \in waiters'[i]
    <3>1. state[q] = i /\ ~(q \in waiters[a.i] /\ Blocked(q, a.i)) BY <2>1, <2>2, NoneApart, Zenon
    <3>2. i # a.i => waiters'[i] = waiters[i] BY <1>4, <2>1, Zenon DEF PTypes
    <3> QED BY <3>1, <3>2 DEF Blocked
  <2> QED BY <1>1, <2>1, <2>2, WokenOne
<1>6. CASE WakeLook(p) /\ waiters[a.i] = {}
  <2>1. Leave(p) /\ state' = state /\ waiters' = waiters BY <1>6, Zenon DEF WakeLook
  <2> QED BY <1>1, <1>6, <2>1, WokenOne
<1>7. CASE WakeLook(p) /\ waiters[a.i] # {}
  <2>1. /\ pc[p] = "wake" /\ pc' = [pc EXCEPT ![p] = "sweep"] /\ arg' = arg
        /\ state' = state /\ waiters' = waiters
    BY <1>7 DEF WakeLook, At, Go
  <2>2. QuietIn(p, pc) BY <1>2, BusyAlone
  <2>3. LevelsIn(pc[p], a, mask, pipe) BY <2>2, ToOne
  <2>4. pc'[p] = "sweep" /\ \A q \in Proc \ {p} : pc'[q] = pc[q] BY <2>1 DEF PTypes
  <2>5. Runs(p) BY <2>1, <2>4 DEF Runs
  <2>6. LookedIn(p, pc'[p], arg'[p], waiters', pipe) BY <2>4 DEF LookedIn, Reading
  <2>7. LevelsIn(pc'[p], arg'[p], mask', pipe) BY <1>1, <2>1, <2>3, LevelSame, Zenon
  <2>8. \A i \in Pipe : /\ BytesAt(pc[p], arg[p], i) => BytesAt(pc'[p], arg'[p], i)
                        /\ WakesAt(pc[p], arg[p], i) => WakesAt(pc'[p], arg'[p], i)
    BY <2>1, <2>4, Zenon DEF BytesAt, WakesAt, Waken, Exiting
  <2> QED BY <1>1, <2>2, <2>5, <2>6, <2>7, <2>8, RunOne, Zenon
<1> QED BY <1>5, <1>6, <1>7

\* Block: the bytes and the writers were looked at with nobody in between.
LEMMA BlockOne ==
  ASSUME PTypes, OneCore, cores = 1, NEW p \in Proc, Block(p)
  PROVE  OneCore'
<1> DEFINE a == arg[p]
<1>1. /\ pc[p] = "block" /\ pc' = [pc EXCEPT ![p] = "halted"] /\ state' = [state EXCEPT ![p] = a.i]
      /\ pipe' = pipe /\ mask' = mask /\ arg' = arg /\ waiters' = waiters
  BY DEF Block, At, Go
<1>2. pc[p] \in Path /\ pc[p] \notin Idle BY <1>1, NoneApart DEF Path, Labels, Idle
<1>3. a \in Locals /\ LocalAt(pc[p], a) /\ InCall(pc[p]) BY <1>2, AtPath
<1>4. a.i \in Pipe BY <1>3 DEF Locals
<1>5. QuietIn(p, pc) BY <1>2, BusyAlone
<1>6. /\ LookedIn(p, pc[p], a, waiters, pipe) /\ LevelsIn(pc[p], a, mask, pipe)
      /\ SleepIn(p, pc, arg, state, waiters, pipe)
  BY <1>5, ToOne
<1>7. pc'[p] = "halted" /\ \A q \in Proc \ {p} : pc'[q] = pc[q] /\ state'[q] = state[q]
  BY <1>1 DEF PTypes
<1>8. state'[p] = a.i BY <1>1 DEF PTypes
<1>9. QuietIn(p, pc') BY <1>5, <1>7 DEF QuietIn
<1>10. LookedIn(p, pc'[p], arg'[p], waiters', pipe') BY <1>7 DEF LookedIn, Reading
<1>11. LevelsIn(pc'[p], arg'[p], mask', pipe') BY <1>1, <1>6, LevelSame, Zenon
<1>12. pipe[a.i].writers > 0 /\ p \in waiters[a.i] BY <1>1, <1>6 DEF LookedIn
<1>13. ~(available_read(pipe[a.i]) > 0)
  <2>1. /\ pipe[a.i].active <=> pipe[a.i].readers + pipe[a.i].writers > 0
        /\ pipe[a.i].readers \in Nat /\ pipe[a.i].writers \in Nat
    BY <1>4, Zenon DEF PTypes, GoodPipe, PipeRec
  <2>2. pipe[a.i].active BY <1>12, <2>1
  <2>3. a.next = "read" /\ a.data = <<>> BY <1>1, <1>3, Zenon DEF LocalAt
  <2>4. available_read(pipe[a.i]) = 0 BY <1>1, <1>6, <2>2, <2>3, Zenon DEF LookedIn, Reading
  <2> QED BY <2>4
<1>14. SleepIn(p, pc', arg', state', waiters', pipe')
  <2> SUFFICES ASSUME NEW q \in Proc, NEW i \in Pipe, pc'[q] = "halted", state'[q] = i
               PROVE  /\ q \in waiters[i]
                      /\ ~(available_read(pipe[i]) > 0) /\ pipe[i].writers # 0
    BY <1>1 DEF SleepIn
  <2>1. CASE q = p BY <1>8, <1>12, <1>13, <2>1
  <2>2. CASE q # p
    BY <1>1, <1>6, <1>7, <2>2, Zenon DEF SleepIn, BytesAt, WakesAt, Waken, Exiting
  <2> QED BY <2>1, <2>2
<1> QED BY <1>9, <1>10, <1>11, <1>14, FromOne

\* dup2 counts the descriptor it copied.
LEMMA Dup2SetOne ==
  ASSUME PTypes, OneCore, cores = 1, NEW p \in Proc, Dup2Set(p)
  PROVE  OneCore'
<1>1. pc[p] = "dup" BY DEF Dup2Set, At
<1>2. pc[p] \in Path /\ pc[p] \notin Idle BY <1>1, NoneApart DEF Path, Labels, Idle
<1>3. QuietIn(p, pc) BY <1>2, BusyAlone
<1>4. arg[p].dup[1] \in Descs BY DupPending DEF Dup2Set
<1>5. arg[p].dup[1].pipe \in Pipe /\ arg[p].dup[1].end \in Ends BY <1>4, Zenon DEF Descs
<1>6. Adds(arg[p].dup[1].pipe, arg[p].dup[1].end) BY DEF Dup2Set, DupSet, Adds
<1>7. \A i \in Pipe : Milder(i) BY <1>5, <1>6, AddsMilder, Zenon
<1>8. pc'[p] = "user" /\ \A q \in Proc \ {p} : pc'[q] = pc[q]
  BY DEF Dup2Set, Return, Go, PTypes
<1>9. state' = state /\ mask' = mask /\ waiters' = waiters BY DEF Dup2Set
<1> QED BY <1>1, <1>3, <1>7, <1>8, <1>9, StartOne, Zenon

\* What giving up an end leaves of a pipe.
LEMMA DropsSame ==
  ASSUME PTypes, NEW j \in Pipe, NEW x \in Ends, Drops(j, x), NEW i \in Pipe
  PROVE  /\ available_read(pipe'[i]) = available_read(pipe[i])
         /\ pipe'[i].active => pipe[i].active
         /\ i # j \/ x = "r" => pipe'[i].writers = pipe[i].writers
<1>1. pipe \in [Pipe -> GoodPipe] BY DEF PTypes
<1> DEFINE q == Dropped(pipe[j], x)
<1>2. /\ available_read(q) = available_read(pipe[j])
      /\ q.active => pipe[j].active
      /\ q.writers = IF x = "w" /\ pipe[j].writers > 0 THEN pipe[j].writers - 1 ELSE pipe[j].writers
  BY <1>1, DroppedGood
<1> HIDE DEF q
<1>3. pipe'[j] = q /\ (i # j => pipe'[i] = pipe[i]) BY <1>1 DEF q, Drops
<1>4. CASE i # j BY <1>3, <1>4
<1>5. CASE i = j
  <2>1. pipe'[i].active => pipe[i].active BY <1>2, <1>3, <1>5, Zenon
  <2> QED BY <1>2, <1>3, <1>5, <2>1
<1> QED BY <1>4, <1>5

\* Giving up an end in a close keeps OneCore.
LEMMA CloseEndOne ==
  ASSUME PTypes, OneCore, cores = 1, NEW p \in Proc, CloseEnd(p)
  PROVE  OneCore'
<1> DEFINE a == arg[p]
<1>1. /\ pc[p] = "close" /\ arg' = arg /\ state' = state /\ waiters' = waiters /\ mask' = mask
      /\ Drops(a.i, a.e)
  BY DEF CloseEnd, At, Drops
<1>2. pc[p] \in Path /\ pc[p] \notin Idle BY <1>1, NoneApart, Zenon DEF Path, Labels, Idle
<1>3. QuietIn(p, pc) BY <1>2, BusyAlone
<1>4. a \in Locals /\ LocalAt(pc[p], a) /\ InCall(pc[p]) BY <1>2, AtPath
<1>5. a.i \in Pipe /\ a.e \in Ends BY <1>4, Zenon DEF Locals
<1>6. SleepIn(p, pc, arg, state, waiters, pipe) /\ LevelsIn(pc[p], a, mask, pipe) BY <1>3, ToOne, Zenon
<1>7. a.next = IF a.e = "w" THEN "wake" ELSE "leave" BY <1>1, <1>4, Zenon DEF LocalAt
<1>8. pc'[p] \in {"hangup", a.next} /\ \A q \in Proc \ {p} : pc'[q] = pc[q]
  BY Zenon DEF CloseEnd, Go, PTypes
<1>9. Runs(p) BY <1>1, <1>7, <1>8 DEF Runs
<1>10. QuietIn(p, pc') BY <1>3, <1>8, Zenon DEF QuietIn
<1>11. LookedIn(p, pc'[p], arg'[p], waiters', pipe') BY <1>7, <1>8, Zenon DEF LookedIn, Reading
<1>12. \A i \in Pipe : /\ available_read(pipe'[i]) = available_read(pipe[i])
                       /\ pipe'[i].active => pipe[i].active
                       /\ i # a.i \/ a.e = "r" => pipe'[i].writers = pipe[i].writers
  BY <1>1, <1>5, DropsSame, Zenon
<1>13. \A i \in Pipe : ~BytesAt(pc[p], arg[p], i) /\ ~WakesAt(pc[p], arg[p], i)
  BY <1>1 DEF BytesAt, WakesAt, Waken, Exiting
<1>14. a.e = "w" => WakesAt(pc'[p], arg'[p], a.i) BY <1>1, <1>7, <1>8 DEF WakesAt, BytesAt, Waken
<1>15. \A i \in Pipe : pipe'[i].writers = 0 => \/ WakesAt(pc'[p], arg'[p], i)
                                               \/ pipe[i].writers = 0
  BY <1>5, <1>12, <1>14, Zenon DEF Ends
<1>16. SleepIn(p, pc', arg', state', waiters', pipe') BY <1>6, <1>9, <1>12, <1>13, <1>15, RunSleep
<1>17. LevelsIn(pc'[p], arg'[p], mask', pipe') BY <1>1, <1>6, <1>12, Zenon DEF LevelsIn
<1> QED BY <1>10, <1>11, <1>16, <1>17, FromOne, Zenon

\* Giving up an end in an exit keeps OneCore.
LEMMA ExitEndOne ==
  ASSUME PTypes, OneCore, cores = 1, NEW p \in Proc, ExitEnd(p)
  PROVE  OneCore'
<1>1. pc[p] = "exit" /\ state' = state /\ waiters' = waiters /\ mask' = mask BY DEF ExitEnd, At
<1>2. pc[p] \notin Idle BY <1>1, NoneApart DEF Labels, Idle
<1>3. QuietIn(p, pc) BY <1>2, BusyAlone
<1>4. PICK f \in Fd : fds[p][f] # None /\ Drops(fds[p][f].pipe, fds[p][f].end)
  BY Zenon DEF ExitEnd, Drops
<1>5. fds[p][f].pipe \in Pipe /\ fds[p][f].end \in Ends BY <1>4, FdType
<1>6. SleepIn(p, pc, arg, state, waiters, pipe) /\ LevelsIn(pc[p], arg[p], mask, pipe)
  BY <1>3, ToOne, Zenon
<1>8. pc'[p] \in {"exit", "exit_hangup"} /\ \A q \in Proc \ {p} : pc'[q] = pc[q]
  BY <1>1 DEF ExitEnd, Go, PTypes
<1>9. Runs(p) BY <1>1, <1>8 DEF Runs
<1>10. QuietIn(p, pc') BY <1>3, <1>8, Zenon DEF QuietIn
<1>11. LookedIn(p, pc'[p], arg'[p], waiters', pipe') BY <1>8 DEF LookedIn, Reading
<1>12. \A i \in Pipe : /\ available_read(pipe'[i]) = available_read(pipe[i])
                       /\ pipe'[i].active => pipe[i].active
  BY <1>4, <1>5, DropsSame
<1>13. \A i \in Pipe : ~BytesAt(pc[p], arg[p], i) BY <1>1 DEF BytesAt, Waken
<1>14. \A i \in Pipe : WakesAt(pc'[p], arg'[p], i) BY <1>8, Zenon DEF WakesAt, Exiting
<1>16. SleepIn(p, pc', arg', state', waiters', pipe') BY <1>6, <1>9, <1>12, <1>13, <1>14, RunSleep, Zenon
<1>17. LevelsIn(pc'[p], arg'[p], mask', pipe') BY <1>1, <1>6, <1>12, Zenon DEF LevelsIn
<1> QED BY <1>10, <1>11, <1>16, <1>17, FromOne, Zenon

\* The sweep of exit_process.
LEMMA ExitDoneOne ==
  ASSUME PTypes, OneCore, cores = 1, NEW p \in Proc, ExitDone(p)
  PROVE  OneCore'
<1>1. pc[p] = "exit" /\ pipe' = pipe /\ mask' = mask /\ waiters' = waiters BY Zenon DEF ExitDone, At
<1>2. pc[p] \notin Idle BY <1>1, NoneApart DEF Labels, Idle
<1>3. QuietIn(p, pc) BY <1>2, BusyAlone
<1>4. SleepIn(p, pc, arg, state, waiters, pipe) /\ LevelsIn(pc[p], arg[p], mask, pipe)
  BY <1>3, ToOne, Zenon
<1>5. pc'[p] = "zombie" /\ \A q \in Proc \ {p} : pc'[q] = pc[q] BY DEF ExitDone, Go, PTypes
<1>6. QuietIn(p, pc') BY <1>3, <1>5, Zenon DEF QuietIn
<1>7. LookedIn(p, pc'[p], arg'[p], waiters', pipe') BY <1>5 DEF LookedIn, Reading
<1>8. LevelsIn(pc'[p], arg'[p], mask', pipe') BY <1>1, <1>4, LevelSame, Zenon
<1>9. SleepIn(p, pc', arg', state', waiters', pipe')
  <2> SUFFICES ASSUME NEW q \in Proc, NEW i \in Pipe, pc'[q] = "halted", state'[q] = i
               PROVE  /\ q \in waiters[i]
                      /\ ~(available_read(pipe[i]) > 0) /\ pipe[i].writers # 0
    BY <1>1 DEF SleepIn
  <2>1. q # p /\ pc[q] = "halted" BY <1>5, Zenon
  <2>2. state' = [r \in Proc |->
          IF r # p /\ \E j \in Pipe : Blocked(r, j) /\ pipe[j].writers = 0 THEN None ELSE state[r]]
    BY DEF ExitDone
  <2>3. state[q] = i /\ ~\E j \in Pipe : Blocked(q, j) /\ pipe[j].writers = 0
    BY <2>1, <2>2, NoneApart, Zenon
  <2>4. pipe[i].writers # 0 BY <2>3 DEF Blocked
  <2> QED BY <1>1, <1>4, <2>1, <2>3, <2>4, Zenon DEF SleepIn, BytesAt, Waken
<1> QED BY <1>6, <1>7, <1>8, <1>9, FromOne

\* What a read leaves, and that it comes back empty from an empty pipe only.
LEMMA ReadLeaves ==
  ASSUME NEW q \in GoodPipe, NEW n \in Nat \ {0}
  PROVE  /\ available_read(read(q, n).pipe) > 0 => available_read(q) > 0
         /\ read(q, n).bytes = <<>> => available_read(read(q, n).pipe) = 0
<1> DEFINE c == Contents(q)
           z == read(q, n).pipe
           d == read(q, n).bytes
           k == Smaller(n, Len(c))
<1>1. q \in PipeRec BY DEF GoodPipe
<1>2. c \in Seq(Byte) /\ Len(c) = available_read(q) BY <1>1, ContentsSeq
<1>3. z \in PipeRec /\ d = SubSeq(c, 1, k) /\ Contents(z) = SubSeq(c, k + 1, Len(c))
  BY <1>1, ReadTakes
<1>4. Len(Contents(z)) = available_read(z) BY <1>3, ContentsSeq, Zenon
<1> HIDE DEF c, z, d
<1>5. k \in Nat /\ k <= Len(c) /\ (k = 0 => Len(c) = 0) BY <1>2 DEF Smaller
<1> HIDE DEF k
<1>6. Len(SubSeq(c, 1, k)) = k /\ Len(SubSeq(c, k + 1, Len(c))) = Len(c) - k BY <1>2, <1>5
<1>7. available_read(z) = Len(c) - k BY <1>3, <1>4, <1>6, Zenon
<1>8. available_read(z) > 0 => available_read(q) > 0 BY <1>2, <1>5, <1>7
<1>9. d = <<>> => available_read(z) = 0 BY <1>2, <1>3, <1>5, <1>6, <1>7
<1> QED BY <1>8, <1>9 DEF z, d

\* A write or a read of the pipe p has open, with what it goes on with.
RingStep(p, z, b) ==
  /\ \A i \in Pipe : i # arg[p].i => pipe'[i] = pipe[i]
  /\ pipe'[arg[p].i] = z /\ arg'[p] = b /\ pc'[p] = "publish_in"
  /\ \A q \in Proc \ {p} : pc'[q] = pc[q]
  /\ state' = state /\ waiters' = waiters /\ mask' = mask
  /\ b.i = arg[p].i /\ b.next = arg[p].next /\ b.ar = available_read(z)
  /\ z.writers = pipe[arg[p].i].writers

\* A transfer keeps OneCore if its process goes on to publish or to wake.
LEMMA RingOne ==
  ASSUME PTypes, OneCore, cores = 1, NEW p \in Proc, NEW z, NEW b, RingStep(p, z, b),
         pc[p] \in {"pipe_write", "pipe_read"},
         b.next = "read" =>
           /\ available_read(z) > 0 => available_read(pipe[arg[p].i]) > 0
           /\ b.data = <<>> => available_read(z) = 0,
         b.next \in {"wake", "read"}
  PROVE  OneCore'
<1> DEFINE a == arg[p]
<1>1. pc[p] \in Path /\ pc[p] \notin Idle BY NoneApart DEF Path, Labels, Idle
<1>2. QuietIn(p, pc) BY <1>1, BusyAlone
<1>3. SleepIn(p, pc, arg, state, waiters, pipe) /\ LevelsIn(pc[p], a, mask, pipe) BY <1>2, ToOne, Zenon
<1>4. Runs(p) BY Zenon DEF Runs, RingStep
<1>5. QuietIn(p, pc') BY <1>2, Zenon DEF QuietIn, RingStep
<1>6. LookedIn(p, pc'[p], arg'[p], waiters', pipe') BY DEF LookedIn, RingStep
<1>7. LevelsIn(pc'[p], arg'[p], mask', pipe')
  <2> SUFFICES ASSUME NEW i \in Pipe, pipe'[i].active, available_read(pipe'[i]) > 0
               PROVE  "IN" \in mask'[i] \/ (pc'[p] = "publish_in" /\ arg'[p].i = i)
    BY Zenon DEF LevelsIn
  <2>1. CASE i = a.i BY <2>1 DEF RingStep
  <2>2. CASE i # a.i
    <3>1. pipe'[i] = pipe[i] /\ mask' = mask BY <2>2, Zenon DEF RingStep
    <3> QED BY <1>3, <3>1, Zenon DEF LevelsIn
  <2> QED BY <2>1, <2>2
<1>8. ASSUME NEW i \in Pipe
      PROVE  /\ available_read(pipe'[i]) > 0 =>
                  BytesAt(pc'[p], arg'[p], i) \/ available_read(pipe[i]) > 0
             /\ pipe'[i].writers = 0 => pipe[i].writers = 0
  <2>1. CASE i # a.i
    <3>1. pipe'[i] = pipe[i] BY <2>1, Zenon DEF RingStep
    <3> QED BY <3>1, Zenon
  <2>2. CASE i = a.i
    <3>1. /\ pipe'[i] = z /\ arg'[p] = b /\ pc'[p] = "publish_in" /\ b.i = i
          /\ z.writers = pipe[i].writers
      BY <2>2, Zenon DEF RingStep
    <3>2. b.next = "wake" => BytesAt(pc'[p], arg'[p], i) BY <3>1 DEF BytesAt, Waken
    <3>3. b.next = "read" => (available_read(z) > 0 => available_read(pipe[i]) > 0) BY <2>2
    <3> QED BY <3>1, <3>2, <3>3, Zenon
  <2> QED BY <2>1, <2>2
<1>9. \A i \in Pipe : ~BytesAt(pc[p], arg[p], i) /\ ~WakesAt(pc[p], arg[p], i)
  BY Zenon DEF BytesAt, WakesAt, Waken, Exiting
<1>10. SleepIn(p, pc', arg', state', waiters', pipe') BY <1>3, <1>4, <1>8, <1>9, RunSleep
<1> QED BY <1>5, <1>6, <1>7, <1>10, FromOne, Zenon

\* PipeWrite keeps OneCore.
LEMMA PipeWriteOne ==
  ASSUME PTypes, OneCore, cores = 1, NEW p \in Proc, PipeWrite(p)
  PROVE  OneCore'
<1> DEFINE a == arg[p]
           z == write(pipe[a.i], a.data)
           b == After(a, <<>>, z)
<1>1. pc[p] = "pipe_write" /\ state' = state /\ waiters' = waiters /\ mask' = mask
  BY DEF PipeWrite, At
<1>2. pc[p] \in Path /\ pc[p] \notin Idle BY <1>1, NoneApart, Zenon DEF Path, Labels, Idle
<1>3. a \in Locals /\ LocalAt(pc[p], a) /\ InCall(pc[p]) BY <1>2, AtPath
<1>4. a.i \in Pipe /\ a.data \in Seq(Byte) BY <1>3, Zenon DEF Locals
<1>5. a.next = "wake" BY <1>1, <1>3 DEF LocalAt
<1>6. pipe \in [Pipe -> GoodPipe] /\ pipe[a.i] \in GoodPipe BY <1>4 DEF PTypes
<1>7. CASE pipe[a.i].active
  <2>1. /\ pipe' = [pipe EXCEPT ![a.i] = z] /\ arg' = [arg EXCEPT ![p] = b]
        /\ pc' = [pc EXCEPT ![p] = "publish_in"]
    BY <1>7 DEF PipeWrite, With, Go, After
  <2>2. z \in GoodPipe /\ z.writers = pipe[a.i].writers BY <1>4, <1>6, WriteGood
  <2>3. <<>> \in Seq(Byte) OBVIOUS
  <2>4. b.i = a.i /\ b.next = a.next /\ b.ar = available_read(z) BY <1>3, <2>2, <2>3, LocalUpdate, Zenon
  <2> HIDE DEF z, b
  <2>5. RingStep(p, z, b) BY <1>1, <1>4, <1>6, <2>1, <2>2, <2>4 DEF RingStep, PTypes
  <2> QED BY <1>1, <1>5, <2>4, <2>5, RingOne
<1>8. CASE ~pipe[a.i].active
  <2>1. pc' = [pc EXCEPT ![p] = "wake"] /\ arg' = arg /\ pipe' = pipe
    BY <1>8, Zenon DEF PipeWrite, Go
  <2>2. QuietIn(p, pc) BY <1>2, BusyAlone
  <2>3. LevelsIn(pc[p], a, mask, pipe) BY <2>2, ToOne
  <2>4. pc'[p] = "wake" /\ \A q \in Proc \ {p} : pc'[q] = pc[q] BY <2>1 DEF PTypes
  <2>5. Runs(p) BY <1>1, <2>4 DEF Runs
  <2>6. LookedIn(p, pc'[p], arg'[p], waiters', pipe) BY <2>4 DEF LookedIn, Reading
  <2>7. LevelsIn(pc'[p], arg'[p], mask', pipe) BY <1>1, <2>3, LevelSame
  <2>8. \A i \in Pipe : ~BytesAt(pc[p], arg[p], i) /\ ~WakesAt(pc[p], arg[p], i)
    BY <1>1, Zenon DEF BytesAt, WakesAt, Waken, Exiting
  <2> QED BY <2>1, <2>2, <2>5, <2>6, <2>7, <2>8, RunOne
<1> QED BY <1>7, <1>8

\* PipeRead keeps OneCore.
LEMMA PipeReadOne ==
  ASSUME PTypes, OneCore, cores = 1, NEW p \in Proc, PipeRead(p)
  PROVE  OneCore'
<1> DEFINE a == arg[p]
           z == read(pipe[a.i], a.len).pipe
           d == read(pipe[a.i], a.len).bytes
           b == After(a, d, z)
<1>1. pc[p] = "pipe_read" /\ state' = state /\ waiters' = waiters /\ mask' = mask
  BY DEF PipeRead, At
<1>2. pc[p] \in Path /\ pc[p] \notin Idle BY <1>1, NoneApart DEF Path, Labels, Idle
<1>3. a \in Locals /\ LocalAt(pc[p], a) /\ InCall(pc[p]) BY <1>2, AtPath
<1>4. a.next = "read" /\ a.len \in 1 .. MaxLen BY <1>1, <1>3 DEF LocalAt
<1>5. a.i \in Pipe /\ a.len \in Nat \ {0} BY <1>3, <1>4 DEF Locals
<1>6. pipe \in [Pipe -> GoodPipe] /\ pipe[a.i] \in GoodPipe BY <1>5 DEF PTypes
<1>7. CASE pipe[a.i].active
  <2>1. /\ pipe' = [pipe EXCEPT ![a.i] = z] /\ arg' = [arg EXCEPT ![p] = b]
        /\ pc' = [pc EXCEPT ![p] = "publish_in"]
    BY <1>7, Zenon DEF PipeRead, With, Go, After
  <2>2. z \in GoodPipe /\ z.writers = pipe[a.i].writers BY <1>5, <1>6, ReadGood, Zenon
  <2>3. d \in Seq(Byte) BY <1>5, <1>6, ReadBytes
  <2>4. b.i = a.i /\ b.next = a.next /\ b.ar = available_read(z) /\ b.data = d
    BY <1>3, <2>2, <2>3, LocalUpdate, Zenon
  <2>5. /\ available_read(z) > 0 => available_read(pipe[a.i]) > 0
        /\ d = <<>> => available_read(z) = 0
    BY <1>5, <1>6, ReadLeaves
  <2> HIDE DEF z, b, d
  <2>6. RingStep(p, z, b) BY <1>1, <1>5, <1>6, <2>1, <2>2, <2>4 DEF RingStep, PTypes
  <2> QED BY <1>1, <1>4, <2>4, <2>5, <2>6, RingOne, Zenon
<1>8. CASE ~pipe[a.i].active
  <2>1. pc' = [pc EXCEPT ![p] = "read"] /\ arg' = arg /\ pipe' = pipe
    BY <1>8, Zenon DEF PipeRead, Go
  <2>2. QuietIn(p, pc) BY <1>2, BusyAlone
  <2>3. LevelsIn(pc[p], a, mask, pipe) BY <2>2, ToOne
  <2>4. pc'[p] = "read" /\ \A q \in Proc \ {p} : pc'[q] = pc[q] BY <2>1 DEF PTypes
  <2>5. Runs(p) BY <1>1, <2>4 DEF Runs
  <2>6. LookedIn(p, pc'[p], arg'[p], waiters', pipe) BY <1>8, <2>1, <2>4, Zenon DEF LookedIn
  <2>7. LevelsIn(pc'[p], arg'[p], mask', pipe) BY <1>1, <2>3, LevelSame
  <2>8. \A i \in Pipe : ~BytesAt(pc[p], arg[p], i) /\ ~WakesAt(pc[p], arg[p], i)
    BY <1>1 DEF BytesAt, WakesAt, Waken, Exiting
  <2> QED BY <2>1, <2>2, <2>5, <2>6, <2>7, <2>8, RunOne, Zenon
<1> QED BY <1>7, <1>8

\* No step changes the number of cores.
LEMMA CoresFixed == ASSUME [Next]_vars PROVE cores' = cores
<1> USE DEF Return, Leave
<1>1. CASE UNCHANGED vars BY <1>1 DEF vars
<1>2. ASSUME NEW p \in Proc, Calls(p) PROVE cores' = cores
  BY <1>2, Zenon DEF Calls, SysPipe, Write, Read, Close, Dup2, Exit, Dup, Spawn
<1>3. ASSUME NEW p \in Proc, Steps(p) PROVE cores' = cores
  BY <1>3, Zenon DEF Steps, PublishIn, PublishOut, WakeToken, PipeWrite, WakeLook, WakeSweep, PipeRead,
     NoBytes, ReturnEof, MarkWaiter, Block, Resume, CloseEnd, HangUp, CloseDone, Dup2Set, ExitEnd,
     ExitHangUp, ExitDone
<1> QED BY <1>1, <1>2, <1>3 DEF Next

\* Every step keeps OneCore.
LEMMA NextOne == ASSUME PTypes, OneCore, CpuQuiet, [Next]_vars PROVE OneCore'
<1>1. CASE cores # 1
  <2>1. cores' # 1 BY <1>1, CoresFixed
  <2> QED BY <2>1 DEF OneCore
<1>2. CASE cores = 1 /\ UNCHANGED vars
  <2>1. Alone' BY <1>2, Zenon DEF vars, OneCore, Alone, Busy
  <2>2. ASSUME NEW p \in Proc PROVE Looked(p)'
    BY <1>2, <2>2, Zenon DEF vars, OneCore, Looked, available_read
  <2>3. ASSUME NEW p \in Proc, NEW i \in Pipe PROVE Asleep(p, i)'
    BY <1>2, <2>3 DEF vars, OneCore, Asleep, WakingBytes, Waking, At, Blocked, available_read
  <2>4. ASSUME NEW i \in Pipe PROVE Level(i)'
    BY <1>2, <2>4 DEF vars, OneCore, Level, At, available_read
  <2> QED BY <2>1, <2>2, <2>3, <2>4 DEF OneCore
<1>3. ASSUME cores = 1, NEW p \in Proc, Calls(p) PROVE OneCore' BY <1>3, CallsOne, Zenon
<1>4. ASSUME cores = 1, NEW p \in Proc, Steps(p) PROVE OneCore'
  BY <1>4, CallsOne, PublishOne, ReaderOne, WakeOne, BlockOne, PipeWriteOne, PipeReadOne,
     CloseEndOne, Dup2SetOne, ExitEndOne, ExitDoneOne, Zenon
  DEF Steps
<1> QED BY <1>1, <1>2, <1>3, <1>4 DEF Next
=============================================================================
