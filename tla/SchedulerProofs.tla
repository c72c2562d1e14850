--------------------------- MODULE SchedulerProofs ---------------------------
(***************************************************************************)
(* Safety of the process table, for every number of slots and cores.       *)
(*                                                                         *)
(* OnOneCore, FreedOffCore and WaitTargetLive are inductive together with  *)
(* the types: reaping needs to know that a task off every core by its      *)
(* running_on is current on none, and a target that is alive cannot be     *)
(* reaped.                                                                 *)
(***************************************************************************)
EXTENDS Scheduler, TLAPS

----------------------------------------------------------------------------
(* Every step keeps the types of the process table; what a tick does to it. *)

States == Alive \cup {"Zombie", "Terminated"}

(* Slot 0 is the kernel's and no task's.                                    *)
LEMMA Slots == 0 \notin Pid /\ 0 \in Pid0 /\ Pid \subseteq Pid0
BY SchedulerAssumption DEF Pid0

(* Setting slots of a table to a value of its range keeps its range.        *)
LEMMA ResetType ==
    ASSUME NEW S, NEW V, NEW f \in [Pid -> V], NEW v \in V
    PROVE  Reset(f, S, v) \in [Pid -> V]
BY DEF Reset

(* The group of a task is named by a slot.                                  *)
LEMMA LeaderType ==
    ASSUME TypeOK, NEW p \in Pid0
    PROVE  LeaderOf(p) \in Pid0
BY DEF TypeOK, LeaderOf, Pid0

(* The end of a task leaves the table well formed.                          *)
LEMMA AfterExitType ==
    ASSUME NEW st \in [Pid -> States], NEW t
    PROVE  AfterExit(st, t) \in [Pid -> States]
BY DEF AfterExit, States, Alive

(* Forgetting the calls and the ends of the tasks in S keeps the types.     *)
LEMMA EndCallsType ==
    ASSUME TypeOK, NEW S, EndCalls(S)
    PROVE  arg' \in [Pid -> Pid0]
BY Slots, ResetType, Zenon DEF EndCalls, TypeOK

(* So does forgetting why a task was blocked.                               *)
LEMMA UnblockType ==
    ASSUME TypeOK, NEW S, Unblock(S)
    PROVE  why' \in [Pid -> {"WaitChild", "Io"}] /\ id' \in [Pid -> Pid0]
BY Slots, ResetType, Zenon DEF Unblock, TypeOK

(* And forgetting how it ended.                                             *)
LEMMA CleanType ==
    ASSUME TypeOK, NEW S, Clean(S)
    PROVE  /\ status' \in [Pid -> {"none", "exited", "signaled"}]
           /\ pending' \in [Pid -> SUBSET {"SIGKILL", "SIGTERM", "SIGSTOP"}]
BY ResetType, Zenon DEF Clean, TypeOK

(* Page tables only exist for slots.                                        *)
LEMMA TablesType ==
    ASSUME TypeOK, NEW c, NEW R
    PROVE  TablesAfter(c, R) \subseteq Pid
BY DEF TypeOK, TablesAfter

(* Spawning keeps the types.                                                *)
LEMMA OccupyType ==
    ASSUME TypeOK, NEW c, NEW p \in Pid0, NEW group \in Pid0, NEW det \in BOOLEAN,
           NEW t \in Pid, Occupy(c, p, group, det, t)
    PROVE  TypeOK'
<1> DEFINE R == DetachedZombies
<1> HIDE DEF R
<1>0. /\ state' = Reset(Reset(state, R, "Terminated"), {t}, "Ready")
      /\ EndCalls(R) /\ Unblock(R) /\ Clean(R)
      /\ pc' = Reset(pc, R, "user")
      /\ parent' = [parent EXCEPT ![t] = p]
      /\ leader' = [leader EXCEPT ![t] = group]
      /\ detached' = Reset(Reset(detached, R, FALSE), {t}, det)
      /\ tables' = TablesAfter(c, R) \cup (IF group = 0 THEN {t} ELSE {})
      /\ UNCHANGED coreVars
  BY DEF Occupy, R
<1>1. state' \in [Pid -> States]
  BY <1>0 DEF Reset, TypeOK, States, Alive
<1>2. pc' \in [Pid -> {"user", "hlt", "loop", "dead"}] BY <1>0 DEF Reset, TypeOK
<1>3. parent' \in [Pid -> Pid0] /\ leader' \in [Pid -> Pid0] BY <1>0 DEF TypeOK
<1>4. detached' \in [Pid -> BOOLEAN]
  <2>1. Reset(detached, R, FALSE) \in [Pid -> BOOLEAN] BY ResetType, Zenon DEF TypeOK
  <2> QED BY <1>0, <2>1, ResetType, Zenon
<1>5. tables' \subseteq Pid BY <1>0, TablesType
<1>6. /\ why' \in [Pid -> {"WaitChild", "Io"}] /\ id' \in [Pid -> Pid0]
      /\ arg' \in [Pid -> Pid0]
  BY <1>0, EndCallsType, UnblockType
<1>7. /\ status' \in [Pid -> {"none", "exited", "signaled"}]
      /\ pending' \in [Pid -> SUBSET {"SIGKILL", "SIGTERM", "SIGSTOP"}]
  BY <1>0, CleanType
<1> QED BY <1>0, <1>1, <1>2, <1>3, <1>4, <1>5, <1>6, <1>7, Zenon DEF TypeOK, coreVars, States

(* Collecting a zombie keeps the types.                                     *)
LEMMA CollectType ==
    ASSUME TypeOK, NEW c, NEW p \in Pid, NEW t \in Pid, Collect(c, p, t)
    PROVE  TypeOK'
<1>1. state' \in [Pid -> States] BY DEF Collect, TypeOK, States, Alive
<1>2. pc' \in [Pid -> {"user", "hlt", "loop", "dead"}]
  BY DEF Collect, Reset, TypeOK
<1>3. detached' \in [Pid -> BOOLEAN] BY ResetType, Zenon DEF Collect, TypeOK
<1>4. tables' \subseteq Pid BY TablesType DEF Collect
<1>5. /\ why' \in [Pid -> {"WaitChild", "Io"}] /\ id' \in [Pid -> Pid0]
      /\ arg' \in [Pid -> Pid0]
  BY EndCallsType, UnblockType DEF Collect
<1>6. /\ status' \in [Pid -> {"none", "exited", "signaled"}]
      /\ pending' \in [Pid -> SUBSET {"SIGKILL", "SIGTERM", "SIGSTOP"}]
  BY CleanType DEF Collect
<1> QED BY <1>1, <1>2, <1>3, <1>4, <1>5, <1>6, Zenon DEF Collect, TypeOK, coreVars, States

(* A turn of the wait loop collects, finds nothing, parks or halts.         *)
LEMMA WaitTurnCases ==
    ASSUME NEW c, NEW p, NEW i, WaitTurn(c, p, i)
    PROVE  \/ \E t \in Pid : Collect(c, p, t)
           \/ NoChild(p)
           \/ /\ ParkInWait(p, i) /\ Waitable(p, i) # {}
              /\ \A t \in Waitable(p, i) : state[t] # "Zombie"
           \/ HaltInWait(p, i)
BY Zenon DEF WaitTurn

(* A turn of the wait loop keeps the types.                                 *)
LEMMA WaitTurnType ==
    ASSUME TypeOK, NEW c, NEW p \in Pid, NEW i \in Pid0, WaitTurn(c, p, i)
    PROVE  TypeOK'
<1>1. ASSUME NEW t \in Pid, Collect(c, p, t) PROVE TypeOK' BY <1>1, CollectType
<1>2. CASE NoChild(p)
  <2>1. /\ why' \in [Pid -> {"WaitChild", "Io"}] /\ id' \in [Pid -> Pid0]
        /\ arg' \in [Pid -> Pid0]
    BY <1>2, EndCallsType, UnblockType DEF NoChild
  <2> QED BY <1>2, <2>1, Zenon DEF NoChild, TypeOK, coreVars, kinVars
<1>3. CASE ParkInWait(p, i)
  BY <1>3 DEF ParkInWait, TypeOK, coreVars, kinVars, Alive
<1>4. CASE HaltInWait(p, i)
  BY <1>4 DEF HaltInWait, TypeOK, coreVars, kinVars
<1> QED BY <1>1, <1>2, <1>3, <1>4, WaitTurnCases

(* What is pending is a signal; what is delivered was pending.              *)
LEMMA RaiseType ==
    ASSUME TypeOK, NEW p \in Pid, NEW sig \in {"SIGKILL", "SIGTERM", "SIGSTOP"},
           Raise(p, sig)
    PROVE  TypeOK'
BY DEF Raise, TypeOK, coreVars, kinVars

(* Signals keep the types.                                                  *)
LEMMA SignalType ==
    ASSUME TypeOK, NEW p \in Pid, SendSignal(p)
    PROVE  TypeOK'
<1>0. state \in [Pid -> States] BY DEF TypeOK, States
<1>1. CASE Raise(p, "SIGKILL") \/ Raise(p, "SIGTERM") \/ Raise(p, "SIGSTOP")
  BY <1>1, RaiseType
<1>2. CASE SendKill(p) /\ running_on[p] = NoCore
  <2>1. state' \in [Pid -> States] BY <1>0, <1>2, AfterExitType DEF SendKill
  <2>2. status' = [status EXCEPT ![p] = "signaled"] BY <1>2 DEF SendKill
  <2>3. status' \in [Pid -> {"none", "exited", "signaled"}] BY <2>2 DEF TypeOK
  <2>4. UNCHANGED <<why, id, arg, pc, running_on, cur, loaded, parent, leader, detached,
                    pending, tables>>
    BY <1>2 DEF SendKill, coreVars, kinVars
  <2> QED BY <2>1, <2>3, <2>4, Zenon DEF TypeOK, States
<1>3. CASE SendStop(p) /\ running_on[p] = NoCore
  BY <1>3 DEF SendStop, TypeOK, coreVars, kinVars, Alive
<1>4. CASE SendCont(p)
  BY <1>4 DEF SendCont, TypeOK, coreVars, kinVars, Alive
<1> QED BY <1>1, <1>2, <1>3, <1>4 DEF SendSignal, SendKill, SendTerm, SendStop

----------------------------------------------------------------------------
(* The tick. *)

(* A tick of core c that dispatches next: R is what the sweep reaped, sig   *)
(* the signal delivered to the task that was on the core.                   *)
TickOf(c, next, R, sig) ==
    /\ TickEffect(c, next, R, sig)
    /\ \A t \in R : t \in Pid /\ Reapable(t)
    /\ cur[c] = 0 => sig = "none"

(* A tick sweeps some slots and delivers some signal.                       *)
LEMMA TickCases ==
    ASSUME NEW c, NEW next, TickTo(c, next)
    PROVE  \E R \in SUBSET Pid, sig \in {"none", "SIGKILL", "SIGTERM", "SIGSTOP"} :
              TickOf(c, next, R, sig)
<1>1. PICK sweep \in BOOLEAN, deliver \in BOOLEAN :
         TickEffect(c, next, IF sweep /\ c = BSP THEN DetachedZombies ELSE {},
                    IF cur[c] # 0 /\ deliver THEN Delivered(cur[c]) ELSE "none")
  BY DEF TickTo
<1> DEFINE R == IF sweep /\ c = BSP THEN DetachedZombies ELSE {}
           sig == IF cur[c] # 0 /\ deliver THEN Delivered(cur[c]) ELSE "none"
<1>2. R \in SUBSET Pid /\ \A t \in R : t \in Pid /\ Reapable(t) BY DEF DetachedZombies
<1>3. sig \in {"none", "SIGKILL", "SIGTERM", "SIGSTOP"} BY DEF Delivered
<1>4. cur[c] = 0 => sig = "none" OBVIOUS
<1> HIDE DEF R, sig
<1>5. TickEffect(c, next, R, sig) BY <1>1, Zenon DEF R, sig
<1> QED BY <1>2, <1>3, <1>4, <1>5 DEF TickOf

(* The table before the dispatch, slot by slot.                             *)
TickTable(c, R, sig) ==
    IF cur[c] = 0 THEN Reset(state, R, "Terminated")
    ELSE AfterSignal(Preempted(Reset(state, R, "Terminated"), cur[c]), cur[c], sig)

(* Off the core a task is not Running any more, and not freed by its tick.  *)
LEMMA TickTableCur ==
    ASSUME TypeOK, NEW c \in Core, NEW R, NEW sig, cur[c] # 0, cur[c] \notin R
    PROVE  LET st == TickTable(c, R, sig)
           IN  /\ st[cur[c]] # "Running"
               /\ state[cur[c]] # "Terminated" => st[cur[c]] # "Terminated"
               /\ st[cur[c]] = "Blocked" => state[cur[c]] = "Blocked" \/ sig = "SIGSTOP"
               /\ sig \in {"SIGKILL", "SIGTERM"} => st[cur[c]] = "Zombie"
               /\ sig \notin {"SIGKILL", "SIGTERM"} /\ state[cur[c]] \in Alive
                  => st[cur[c]] \in Alive
               /\ sig \notin {"SIGKILL", "SIGTERM"} /\ st[cur[c]] = "Zombie"
                  => state[cur[c]] = "Zombie"
<1>1. cur[c] \in Pid BY Zenon DEF TypeOK, Pid0
<1> QED BY <1>1 DEF TickTable, AfterSignal, Preempted, AfterExit, Reset, Alive, TypeOK

(* Other tasks are reaped, or woken from a wait, or left alone.             *)
LEMMA TickTableOther ==
    ASSUME TypeOK, NEW c \in Core, NEW R, NEW sig, NEW q \in Pid, q # cur[c]
    PROVE  LET st == TickTable(c, R, sig)
           IN  /\ q \in R => st[q] = "Terminated"
               /\ q \notin R => \/ st[q] = state[q]
                                \/ state[q] = "Blocked" /\ st[q] = "Ready"
               /\ /\ sig \in {"SIGKILL", "SIGTERM"} /\ cur[c] # 0
                  /\ why[q] = "WaitChild" /\ id[q] \in {cur[c], 0}
                  => st[q] # "Blocked"
<1>1. cur[c] # 0 => cur[c] \in Pid BY DEF TypeOK, Pid0
<1> QED BY <1>1 DEF TickTable, AfterSignal, Preempted, AfterExit, Reset, TypeOK

(* The table before the dispatch has its type.                              *)
LEMMA TickTableType ==
    ASSUME TypeOK, NEW c \in Core, NEW R, NEW sig
    PROVE  TickTable(c, R, sig) \in [Pid -> States]
<1>1. cur[c] # 0 => cur[c] \in Pid BY DEF TypeOK, Pid0
<1>2. Reset(state, R, "Terminated") \in [Pid -> States]
  BY DEF Reset, TypeOK, States
<1>3. ASSUME NEW p \in Pid PROVE Preempted(Reset(state, R, "Terminated"), p) \in [Pid -> States]
  BY <1>2 DEF Preempted, States, Alive
<1>4. ASSUME NEW st \in [Pid -> States], NEW p \in Pid PROVE AfterSignal(st, p, sig) \in [Pid -> States]
  BY AfterExitType, Zenon DEF AfterSignal, States, Alive
<1> QED BY <1>1, <1>2, <1>3, <1>4 DEF TickTable

(* The effect of a tick on the table and the cores.                         *)
LEMMA TickDispatch ==
    ASSUME NEW c, NEW next, NEW R, NEW sig, TickOf(c, next, R, sig)
    PROVE  /\ next # 0 => /\ TickTable(c, R, sig)[next] = "Ready"
                          /\ Reset(running_on, {cur[c]}, NoCore)[next] = NoCore
           /\ state' = Reset(TickTable(c, R, sig), {next}, "Running")
           /\ running_on' = Reset(Reset(running_on, {cur[c]}, NoCore), {next}, c)
           /\ cur' = [cur EXCEPT ![c] = next]
BY DEF TickOf, TickEffect, Dispatch, Pickable, TickTable

(* A tick keeps the types.                                                  *)
LEMMA TickType ==
    ASSUME TypeOK, NEW c \in Core, NEW next \in Pid0, TickTo(c, next)
    PROVE  TypeOK'
<1>1. PICK R \in SUBSET Pid, sig \in {"none", "SIGKILL", "SIGTERM", "SIGSTOP"} :
         TickOf(c, next, R, sig)
  BY TickCases
<1>2. state' \in [Pid -> States]
  <2>1. state' = Reset(TickTable(c, R, sig), {next}, "Running")
    BY <1>1 DEF TickOf, TickEffect, Dispatch, TickTable
  <2>2. TickTable(c, R, sig) \in [Pid -> States] BY TickTableType
  <2> QED BY <2>1, <2>2, ResetType, Zenon DEF States, Alive
<1>3. running_on' \in [Pid -> Core \cup {NoCore}]
  <2>1. running_on' = Reset(Reset(running_on, {cur[c]}, NoCore), {next}, c)
    BY <1>1, TickDispatch, Zenon
  <2> QED BY <2>1 DEF Reset, TypeOK
<1>4. cur' \in [Core -> Pid0]
  <2>1. cur' = [cur EXCEPT ![c] = next] BY <1>1, TickDispatch, Zenon
  <2> QED BY <2>1 DEF TypeOK
<1>5. /\ why' \in [Pid -> {"WaitChild", "Io"}] /\ id' \in [Pid -> Pid0]
      /\ arg' \in [Pid -> Pid0]
  BY <1>1, Slots, EndCallsType, Zenon DEF TickOf, TickEffect, Reset, TypeOK
<1>6. pc' \in [Pid -> {"user", "hlt", "loop", "dead"}]
  BY <1>1 DEF TickOf, TickEffect, TypeOK
<1>7. detached' \in [Pid -> BOOLEAN]
  <2>1. detached' = Reset(detached, R, FALSE) BY <1>1 DEF TickOf, TickEffect
  <2> QED BY <2>1, ResetType, Zenon DEF TypeOK
<1>8. status' \in [Pid -> {"none", "exited", "signaled"}]
  BY <1>1, Zenon DEF TickOf, TickEffect, Reset, TypeOK
<1>9. pending' \in [Pid -> SUBSET {"SIGKILL", "SIGTERM", "SIGSTOP"}]
  BY <1>1, Zenon DEF TickOf, TickEffect, TypeOK
<1>10. tables' \subseteq Pid BY <1>1, TablesType, Zenon DEF TickOf, TickEffect
<1>11. UNCHANGED <<parent, leader, loaded>> BY <1>1 DEF TickOf, TickEffect
<1> QED BY <1>2, <1>3, <1>4, <1>5, <1>6, <1>7, <1>8, <1>9, <1>10, <1>11 DEF TypeOK, States

(* The types are preserved by every step.                                   *)
LEMMA TypeStep == TypeOK /\ [Next]_vars => TypeOK'
<1> SUFFICES ASSUME TypeOK, [Next]_vars PROVE TypeOK' OBVIOUS
<1>1. ASSUME NEW c \in Core, NEW p \in Pid0, SpawnUserProcess(c, p) PROVE TypeOK'
  BY <1>1, OccupyType, Slots, Zenon DEF SpawnUserProcess
<1>2. ASSUME NEW c \in Core, NEW p \in Pid, NEW det \in BOOLEAN, SpawnUserThread(c, p, det)
      PROVE  TypeOK'
  BY <1>2, OccupyType, LeaderType, Slots DEF SpawnUserThread
<1>3. ASSUME NEW c \in Core, NEW p \in Pid, NEW i \in Pid0, Wait(c, p, i) PROVE TypeOK'
  BY <1>3, WaitTurnType DEF Wait
<1>4. ASSUME NEW c \in Core, NEW p \in Pid, WaitAgain(c, p) PROVE TypeOK'
  <2>1. arg[p] \in Pid0 BY DEF TypeOK
  <2> QED BY <1>4, <2>1, WaitTurnType DEF WaitAgain
<1>5. ASSUME NEW c \in Core, NEW p \in Pid, NEW t \in Pid, TryWait(c, p, t) PROVE TypeOK'
  BY <1>5, CollectType DEF TryWait
<1>6. ASSUME NEW c \in Core, NEW p \in Pid, NEW t \in Pid, ThreadDetach(c, p, t) PROVE TypeOK'
  BY <1>6 DEF ThreadDetach, TypeOK, coreVars
<1>7. ASSUME NEW c \in Core, NEW p \in Pid, NEW t \in Pid, NEW n \in Pid, Reparent(c, p, t, n)
      PROVE  TypeOK'
  BY <1>7, Slots DEF Reparent, TypeOK, coreVars
<1>8. ASSUME NEW c \in Core, NEW p \in Pid, ExitProcess(c, p) PROVE TypeOK'
  <2>1. state' \in [Pid -> States]
    BY <1>8, AfterExitType DEF ExitProcess, TypeOK, States
  <2> QED BY <1>8, <2>1, Zenon DEF ExitProcess, TypeOK, States, coreVars, kinVars
<1>9. ASSUME NEW c \in Core, Tick(c) PROVE TypeOK' BY <1>9, TickType DEF Tick
<1>10. ASSUME NEW c \in Core, SwitchCr3(c) PROVE TypeOK'
  <2>1. Cr3(cur[c]) \in Pid0 BY LeaderType DEF Cr3, TypeOK
  <2> QED BY <1>10, <2>1 DEF SwitchCr3, TypeOK, kinVars
<1>11. ASSUME NEW c \in Core, DeviceIrq(c) PROVE TypeOK'
  <2>1. cur[c] \in Pid BY <1>11 DEF DeviceIrq, TypeOK, Pid0
  <2> QED BY <1>11, <2>1 DEF DeviceIrq, TypeOK, coreVars, kinVars
<1>12. ASSUME NEW p \in Pid, SendSignal(p) PROVE TypeOK' BY <1>12, SignalType
<1>13. CASE UNCHANGED vars BY <1>13, Zenon DEF vars, TypeOK
<1> QED BY Slots, <1>1, <1>2, <1>3, <1>4, <1>5, <1>6, <1>7, <1>8, <1>9, <1>10, <1>11, <1>12, <1>13
        DEF Next, TaskStep

----------------------------------------------------------------------------

IInv == TypeOK /\ OnOneCore /\ FreedOffCore /\ WaitTargetLive

----------------------------------------------------------------------------
(* Who is on which core. *)

(* A step under the lock other than a tick moves no task between cores,     *)
(* starts none running, and frees only slots that reap_zombie may free.     *)
TableStep ==
    /\ UNCHANGED <<running_on, cur>>
    /\ \A p \in Pid : /\ state'[p] = "Running" => state[p] = "Running"
                      /\ IsFree(p)' => IsFree(p) \/ Reapable(p)

(* Spawning is a step of the table.                                         *)
LEMMA OccupyTable ==
    ASSUME TypeOK, NEW c, NEW p, NEW group, NEW det, NEW t \in Pid,
           Occupy(c, p, group, det, t)
    PROVE  TableStep
<1>1. state' = Reset(Reset(state, DetachedZombies, "Terminated"), {t}, "Ready")
  BY DEF Occupy
<1>2. UNCHANGED <<running_on, cur>> BY DEF Occupy, coreVars
<1> QED BY <1>1, <1>2 DEF TableStep, Reset, DetachedZombies, IsFree

(* So is the end of a task.                                                 *)
LEMMA AfterExitTable ==
    ASSUME TypeOK, NEW t \in Pid, state' = AfterExit(state, t), UNCHANGED coreVars
    PROVE  TableStep
BY Zenon DEF TableStep, AfterExit, IsFree, coreVars

(* So is a reap.                                                            *)
LEMMA CollectTable ==
    ASSUME TypeOK, NEW c, NEW p, NEW t \in Pid, Collect(c, p, t)
    PROVE  TableStep
BY DEF Collect, TableStep, IsFree, Reapable, coreVars, TypeOK

(* So is a turn of the wait loop.                                           *)
LEMMA WaitTurnTable ==
    ASSUME TypeOK, NEW c, NEW p \in Pid, NEW i, WaitTurn(c, p, i)
    PROVE  TableStep
<1>1. ASSUME NEW t \in Pid, Collect(c, p, t) PROVE TableStep BY <1>1, CollectTable
<1>2. CASE NoChild(p) BY <1>2 DEF NoChild, TableStep, IsFree, coreVars
<1>3. CASE ParkInWait(p, i) BY <1>3 DEF ParkInWait, TableStep, IsFree, coreVars, TypeOK
<1>4. CASE HaltInWait(p, i) BY <1>4 DEF HaltInWait, TableStep, IsFree, coreVars
<1> QED BY <1>1, <1>2, <1>3, <1>4, WaitTurnCases

(* So is a signal.                                                          *)
LEMMA SignalTable ==
    ASSUME TypeOK, NEW p \in Pid, SendSignal(p)
    PROVE  TableStep
<1>1. CASE Raise(p, "SIGKILL") \/ Raise(p, "SIGTERM") \/ Raise(p, "SIGSTOP")
  BY <1>1 DEF Raise, TableStep, IsFree, coreVars
<1>2. CASE SendKill(p) /\ running_on[p] = NoCore BY <1>2, AfterExitTable DEF SendKill
<1>3. CASE SendStop(p) /\ running_on[p] = NoCore
  BY <1>3 DEF SendStop, TableStep, IsFree, coreVars, TypeOK
<1>4. CASE SendCont(p) BY <1>4 DEF SendCont, TableStep, IsFree, coreVars, TypeOK
<1> QED BY <1>1, <1>2, <1>3, <1>4 DEF SendSignal, SendKill, SendTerm, SendStop

(* Every step is a tick or a step of the table.                             *)
LEMMA StepKinds ==
    ASSUME TypeOK, [Next]_vars
    PROVE  TableStep \/ \E c \in Core, next \in Pid0 : TickTo(c, next)
<1>1. ASSUME NEW c \in Core, NEW p \in Pid0, SpawnUserProcess(c, p) PROVE TableStep
  BY <1>1, OccupyTable, Zenon DEF SpawnUserProcess
<1>2. ASSUME NEW c \in Core, NEW p \in Pid, NEW det \in BOOLEAN, SpawnUserThread(c, p, det)
      PROVE  TableStep
  BY <1>2, OccupyTable DEF SpawnUserThread
<1>3. ASSUME NEW c \in Core, NEW p \in Pid, NEW i \in Pid0, Wait(c, p, i) PROVE TableStep
  BY <1>3, WaitTurnTable DEF Wait
<1>4. ASSUME NEW c \in Core, NEW p \in Pid, WaitAgain(c, p) PROVE TableStep
  BY <1>4, WaitTurnTable DEF WaitAgain
<1>5. ASSUME NEW c \in Core, NEW p \in Pid, NEW t \in Pid, TryWait(c, p, t) PROVE TableStep
  BY <1>5, CollectTable DEF TryWait
<1>6. ASSUME NEW c \in Core, NEW p \in Pid, NEW t \in Pid,
             ThreadDetach(c, p, t) \/ \E n \in Pid : Reparent(c, p, t, n)
      PROVE  TableStep
  BY <1>6 DEF ThreadDetach, Reparent, TableStep, IsFree, coreVars
<1>7. ASSUME NEW c \in Core, NEW p \in Pid, ExitProcess(c, p) PROVE TableStep
  BY <1>7, AfterExitTable, Zenon DEF ExitProcess
<1>8. ASSUME NEW c \in Core, SwitchCr3(c) \/ DeviceIrq(c) PROVE TableStep
  BY <1>8 DEF SwitchCr3, DeviceIrq, TableStep, IsFree, coreVars
<1>9. ASSUME NEW p \in Pid, SendSignal(p) PROVE TableStep BY <1>9, SignalTable
<1>10. CASE UNCHANGED vars BY <1>10 DEF vars, TableStep, IsFree
<1> QED BY Slots, <1>1, <1>2, <1>3, <1>4, <1>5, <1>6, <1>7, <1>8, <1>9, <1>10
        DEF Next, TaskStep, Tick

(* A step of the table keeps cores and table in agreement.                  *)
LEMMA TableOnCore ==
    ASSUME TypeOK, OnOneCore, FreedOffCore, TableStep
    PROVE  OnOneCore' /\ FreedOffCore'
<1>1. OnOneCore' BY DEF OnOneCore, TableStep
<1>2. ASSUME NEW c \in Core, cur'[c] # 0 PROVE ~IsFree(cur[c])'
  <2>1. cur'[c] = cur[c] /\ cur[c] \in Pid BY <1>2 DEF TableStep, TypeOK, Pid0
  <2>2. running_on[cur[c]] = c BY <2>1 DEF OnOneCore
  <2>3. ~Reapable(cur[c]) BY <2>2, SchedulerAssumption DEF Reapable
  <2>4. ~IsFree(cur[c]) BY <1>2, <2>1 DEF FreedOffCore
  <2> QED BY <2>1, <2>3, <2>4 DEF TableStep
<1> QED BY <1>1, <1>2 DEF FreedOffCore, IsFree

(* So does a tick: the task picked is on no core, and what the sweep frees  *)
(* is on no core either.                                                    *)
LEMMA TickOnCore ==
    ASSUME TypeOK, OnOneCore, FreedOffCore,
           NEW c \in Core, NEW next \in Pid0, TickTo(c, next)
    PROVE  OnOneCore' /\ FreedOffCore'
<1>1. PICK R \in SUBSET Pid, sig \in {"none", "SIGKILL", "SIGTERM", "SIGSTOP"} :
         TickOf(c, next, R, sig)
  BY TickCases, Zenon
<1> DEFINE st == TickTable(c, R, sig)
           p == cur[c]
<1>2. /\ next # 0 => st[next] = "Ready" /\ Reset(running_on, {p}, NoCore)[next] = NoCore
      /\ state' = Reset(st, {next}, "Running")
      /\ running_on' = Reset(Reset(running_on, {p}, NoCore), {next}, c)
      /\ cur' = [cur EXCEPT ![c] = next]
  BY <1>1, Zenon DEF TickOf, TickEffect, Dispatch, Pickable, TickTable
<1>3. \A t \in R : t \in Pid /\ running_on[t] = NoCore BY <1>1, Zenon DEF TickOf, Reapable
<1>4. p # 0 => p \in Pid /\ running_on[p] = c /\ p \notin R
  <2>1. p # 0 => p \in Pid BY Zenon DEF TypeOK, Pid0
  <2>2. p \in Pid => running_on[p] = c BY DEF OnOneCore
  <2>3. c # NoCore BY SchedulerAssumption
  <2> QED BY <2>1, <2>2, <2>3, <1>3
<1>5. next # 0 => next \in Pid /\ (next = p \/ running_on[next] = NoCore)
  BY <1>2, Zenon DEF Reset, Pid0
<1>6. p # 0 => st[p] # "Running" /\ st[p] # "Terminated"
  BY <1>4, TickTableCur DEF FreedOffCore, IsFree
<1>7. \A q \in Pid : q # p /\ q \notin R => \/ st[q] = state[q]
                                            \/ state[q] = "Blocked" /\ st[q] = "Ready"
  BY TickTableOther
<1>8. \A q \in R : st[q] = "Terminated" BY <1>3, <1>4, TickTableOther, Slots
<1> HIDE DEF st
<1>9. \A q \in Pid, d \in Core : cur'[d] = q <=> running_on'[q] = d
  BY <1>2, <1>4, <1>5, Slots, SchedulerAssumption DEF Reset, TypeOK, OnOneCore
<1>10. \A q \in Pid : state'[q] = "Running" => running_on'[q] # NoCore
  <2> SUFFICES ASSUME NEW q \in Pid, state'[q] = "Running", q # next
               PROVE  running_on'[q] # NoCore
    BY <1>2, SchedulerAssumption DEF Reset
  <2>1. st[q] = "Running" BY <1>2 DEF Reset
  <2>2. q # p /\ q \notin R BY <2>1, <1>6, <1>8, Slots
  <2>3. state[q] = "Running" BY <2>1, <2>2, <1>7
  <2> QED BY <2>2, <2>3, <1>2 DEF Reset, OnOneCore
<1>11. ASSUME NEW d \in Core, cur'[d] # 0 PROVE state'[cur'[d]] # "Terminated"
  <2>1. CASE d = c
    BY <2>1, <1>11, <1>2, <1>5 DEF Reset, TypeOK
  <2>2. CASE d # c
    <3>1. cur'[d] = cur[d] /\ cur[d] \in Pid BY <2>2, <1>11, <1>2 DEF TypeOK, Pid0
    <3>2. running_on[cur[d]] = d BY <3>1, Zenon DEF OnOneCore
    <3>3. cur[d] # p /\ cur[d] \notin R
      BY <3>1, <3>2, <2>2, <1>3, <1>4, Slots, SchedulerAssumption, Zenon
    <3>4. state[cur[d]] # "Terminated" BY <1>11, <3>1 DEF FreedOffCore, IsFree
    <3>5. st[cur[d]] # "Terminated" BY <3>1, <3>3, <3>4, <1>7
    <3> QED BY <3>1, <3>5, <1>2 DEF Reset
  <2> QED BY <2>1, <2>2
<1> QED BY <1>9, <1>10, <1>11 DEF OnOneCore, FreedOffCore, IsFree

----------------------------------------------------------------------------
(* Waiting for a task by name. *)

Waiting(p) == state[p] = "Blocked" /\ why[p] = "WaitChild" /\ id[p] # 0

(* A step that lets no task wait that did not, frees no task that is alive  *)
(* and ends at most tasks nobody still waits for keeps the targets alive.   *)
TargetKept(p) ==
    Waiting(p)' => /\ Waiting(p) /\ id'[p] = id[p]
                   /\ state[id[p]] \in Alive => state'[id[p]] \in Alive

(* Targets that are kept stay alive.                                        *)
LEMMA TargetsKept ==
    ASSUME TypeOK, WaitTargetLive, \A p \in Pid : TargetKept(p)
    PROVE  WaitTargetLive'
<1> SUFFICES ASSUME NEW p \in Pid, Waiting(p)' PROVE state'[id'[p]] \in Alive
  BY DEF WaitTargetLive, Waiting
<1>0. TargetKept(p) OBVIOUS
<1>1. Waiting(p) /\ id'[p] = id[p] /\ (state[id[p]] \in Alive => state'[id[p]] \in Alive)
  BY <1>0, Zenon DEF TargetKept
<1>2. state[id[p]] \in Alive BY <1>1 DEF WaitTargetLive, Waiting
<1> QED BY <1>1, <1>2, Zenon

(* Spawning keeps the targets alive.                                        *)
LEMMA OccupyTargets ==
    ASSUME TypeOK, WaitTargetLive, NEW c, NEW p, NEW group, NEW det, NEW t \in Pid,
           Occupy(c, p, group, det, t)
    PROVE  WaitTargetLive'
<1> DEFINE R == DetachedZombies
<1>1. /\ state' = Reset(Reset(state, R, "Terminated"), {t}, "Ready")
      /\ why' = Reset(why, R, "Io") /\ id' = Reset(id, R, 0)
  BY DEF Occupy, Unblock
<1>2. \A q \in R : q \in Pid /\ state[q] = "Zombie" BY DEF DetachedZombies, Reapable
<1> HIDE DEF R
<1>3. ASSUME NEW q \in Pid, Waiting(q)'
      PROVE  /\ Waiting(q) /\ id'[q] = id[q]
             /\ state[id[q]] \in Alive => state'[id[q]] \in Alive
  <2>1. q \notin R /\ Waiting(q) /\ id'[q] = id[q] BY <1>1, <1>3 DEF Waiting, Reset
  <2>2. id[q] \in Pid BY <2>1 DEF Waiting, TypeOK, Pid0
  <2> QED BY <1>1, <1>2, <2>1, <2>2 DEF Reset, Alive
<1> QED BY <1>3, TargetsKept, Zenon DEF TargetKept

(* The end of a task wakes whoever waits for it.                            *)
LEMMA AfterExitTargets ==
    ASSUME TypeOK, WaitTargetLive, NEW t \in Pid, state' = AfterExit(state, t),
           UNCHANGED <<why, id>>
    PROVE  WaitTargetLive'
<1>1. ASSUME NEW q \in Pid, Waiting(q)'
      PROVE  /\ Waiting(q) /\ id'[q] = id[q]
             /\ state[id[q]] \in Alive => state'[id[q]] \in Alive
  <2>1. Waiting(q) /\ id[q] # t BY <1>1 DEF Waiting, AfterExit
  <2>2. id[q] \in Pid BY <2>1, Zenon DEF Waiting, TypeOK, Pid0
  <2> QED BY <2>1, <2>2 DEF AfterExit, Alive
<1> QED BY <1>1, TargetsKept DEF TargetKept

(* A reap takes no target.                                                  *)
LEMMA CollectTargets ==
    ASSUME TypeOK, WaitTargetLive, NEW c, NEW p \in Pid, NEW t \in Pid, Collect(c, p, t)
    PROVE  WaitTargetLive'
<1>1. /\ state' = [state EXCEPT ![t] = "Terminated"] /\ state[t] = "Zombie"
      /\ why' = Reset(why, {t} \cup IfUnblocked(p), "Io") /\ id' = Reset(id, {t} \cup IfUnblocked(p), 0)
  BY Zenon DEF Collect, Reapable, Unblock
<1>2. ASSUME NEW q \in Pid, Waiting(q)'
      PROVE  /\ Waiting(q) /\ id'[q] = id[q]
             /\ state[id[q]] \in Alive => state'[id[q]] \in Alive
  <2>1. q \notin {t} \cup IfUnblocked(p) /\ Waiting(q) /\ id'[q] = id[q]
    BY <1>1, <1>2 DEF Waiting, Reset, TypeOK
  <2>2. id[q] \in Pid BY <2>1 DEF Waiting, TypeOK, Pid0
  <2> QED BY <1>1, <2>1, <2>2 DEF Alive, TypeOK
<1> QED BY <1>2, TargetsKept, Zenon DEF TargetKept

(* A call parks only on a task that is alive.                               *)
LEMMA ParkTargets ==
    ASSUME TypeOK, WaitTargetLive, NEW p \in Pid, NEW i \in Pid0, ParkInWait(p, i),
           Waitable(p, i) # {}, \A t \in Waitable(p, i) : state[t] # "Zombie"
    PROVE  WaitTargetLive'
<1>1. i # 0 => i \in Pid /\ state[i] \in Alive
  BY DEF Waitable, IsFree, TypeOK, Pid0
<1>2. /\ state' = [state EXCEPT ![p] = "Blocked"]
      /\ why' = [why EXCEPT ![p] = "WaitChild"]
      /\ id' = [id EXCEPT ![p] = i]
  BY DEF ParkInWait
<1>3. \A q \in Pid : state[q] \in Alive => state'[q] \in Alive
  BY <1>2 DEF Alive, TypeOK
<1>4. ASSUME NEW q \in Pid, Waiting(q)' PROVE state'[id'[q]] \in Alive
  <2>1. CASE q = p BY <2>1, <1>1, <1>2, <1>3, <1>4 DEF Waiting, TypeOK
  <2>2. CASE q # p
    <3>1. Waiting(q) /\ id'[q] = id[q] BY <2>2, <1>2, <1>4 DEF Waiting, TypeOK
    <3>2. id[q] \in Pid BY <3>1 DEF Waiting, TypeOK, Pid0
    <3> QED BY <3>1, <3>2, <1>3 DEF WaitTargetLive, Waiting
  <2> QED BY <2>1, <2>2
<1> QED BY <1>4 DEF WaitTargetLive, Waiting

(* A turn of the wait loop keeps the targets alive.                         *)
LEMMA WaitTurnTargets ==
    ASSUME TypeOK, WaitTargetLive, NEW c, NEW p \in Pid, NEW i \in Pid0, WaitTurn(c, p, i)
    PROVE  WaitTargetLive'
<1>1. ASSUME NEW t \in Pid, Collect(c, p, t) PROVE WaitTargetLive'
  BY <1>1, CollectTargets, Zenon
<1>2. CASE NoChild(p)
  <2>1. /\ state' = state
        /\ why' = Reset(why, IfUnblocked(p), "Io") /\ id' = Reset(id, IfUnblocked(p), 0)
    BY <1>2 DEF NoChild, Unblock
  <2>2. \A q \in Pid : Waiting(q)' => Waiting(q) /\ id'[q] = id[q]
    BY <2>1 DEF Waiting, Reset
  <2> QED BY <2>1, <2>2, TargetsKept, Zenon DEF TargetKept
<1>3. CASE ParkInWait(p, i) /\ Waitable(p, i) # {}
           /\ \A t \in Waitable(p, i) : state[t] # "Zombie"
  BY <1>3, ParkTargets
<1>4. CASE HaltInWait(p, i)
  <2>1. UNCHANGED <<state, why, id>> BY <1>4 DEF HaltInWait
  <2> QED BY <2>1 DEF WaitTargetLive
<1> QED BY <1>1, <1>2, <1>3, <1>4, WaitTurnCases

(* A tick ends a task only together with the waits for it.                  *)
LEMMA TickTargets ==
    ASSUME TypeOK, OnOneCore, WaitTargetLive,
           NEW c \in Core, NEW next \in Pid0, TickTo(c, next)
    PROVE  WaitTargetLive'
<1>1. PICK R \in SUBSET Pid, sig \in {"none", "SIGKILL", "SIGTERM", "SIGSTOP"} :
         TickOf(c, next, R, sig)
  BY TickCases
<1> DEFINE st == TickTable(c, R, sig)
           p == cur[c]
<1>2. state' = Reset(st, {next}, "Running")
  BY <1>1, Zenon DEF TickOf, TickEffect, Dispatch, TickTable
<1>3. \A t \in R : t \in Pid /\ state[t] = "Zombie" /\ running_on[t] = NoCore
  BY <1>1, Zenon DEF TickOf, Reapable
<1>4. /\ why' = Reset(why, R \cup (IF sig = "SIGSTOP" THEN {p} ELSE {}), "Io")
      /\ id' = Reset(id, R, 0)
  BY <1>1, Zenon DEF TickOf, TickEffect
<1>5. p # 0 => p \in Pid /\ p \notin R
  <2>1. p # 0 => p \in Pid BY DEF TypeOK, Pid0
  <2>2. p \in Pid => running_on[p] = c BY DEF OnOneCore
  <2>3. c # NoCore BY SchedulerAssumption
  <2> QED BY <2>1, <2>2, <2>3, <1>3
<1>6. p # 0 =>
        /\ st[p] = "Blocked" => state[p] = "Blocked" \/ sig = "SIGSTOP"
        /\ sig \in {"SIGKILL", "SIGTERM"} => st[p] = "Zombie"
        /\ sig \notin {"SIGKILL", "SIGTERM"} /\ state[p] \in Alive => st[p] \in Alive
  BY <1>5, TickTableCur
<1>7. ASSUME NEW q \in Pid, q # p
      PROVE  /\ q \in R => st[q] = "Terminated"
             /\ q \notin R => \/ st[q] = state[q]
                              \/ state[q] = "Blocked" /\ st[q] = "Ready"
             /\ /\ sig \in {"SIGKILL", "SIGTERM"} /\ p # 0
                /\ why[q] = "WaitChild" /\ id[q] = p
                => st[q] # "Blocked"
  BY <1>7, TickTableOther, Zenon
<1> HIDE DEF st
<1>8. ASSUME NEW q \in Pid, Waiting(q)'
      PROVE  /\ Waiting(q) /\ id'[q] = id[q]
             /\ state[id[q]] \in Alive => state'[id[q]] \in Alive
  <2>1. st[q] = "Blocked" /\ why'[q] = "WaitChild" /\ id'[q] # 0
    BY <1>2, <1>8 DEF Waiting, Reset
  <2>2. q \notin R /\ why[q] = "WaitChild" /\ id'[q] = id[q] /\ (sig = "SIGSTOP" => q # p)
    BY <2>1, <1>4 DEF Reset
  <2>3. state[q] = "Blocked" BY <2>1, <2>2, <1>5, <1>6, <1>7, Slots
  <2>4. Waiting(q) /\ id[q] \in Pid BY <2>1, <2>2, <2>3 DEF Waiting, TypeOK, Pid0
  <2>5. ASSUME state[id[q]] \in Alive PROVE st[id[q]] \in Alive
    <3>1. CASE id[q] = p
      <4>1. p # 0 BY <3>1, <2>4, Slots
      <4>2. sig \notin {"SIGKILL", "SIGTERM"}
        BY <4>1, <3>1, <2>1, <2>2, <1>6, <1>7
      <4> QED BY <2>5, <3>1, <4>1, <4>2, <1>6
    <3>2. CASE id[q] # p
      <4>1. id[q] \notin R BY <2>5, <1>3 DEF Alive
      <4> QED BY <2>4, <2>5, <3>2, <4>1, <1>7 DEF Alive
    <3> QED BY <3>1, <3>2
  <2>6. state[id[q]] \in Alive => state'[id[q]] \in Alive
    BY <2>4, <2>5, <1>2, Zenon DEF Reset, Alive
  <2> QED BY <2>2, <2>4, <2>6, Zenon
<1> QED BY <1>8, TargetsKept, Zenon DEF TargetKept

(* A signal keeps the targets alive.                                        *)
LEMMA SignalTargets ==
    ASSUME TypeOK, WaitTargetLive, NEW p \in Pid, SendSignal(p)
    PROVE  WaitTargetLive'
<1>1. CASE Raise(p, "SIGKILL") \/ Raise(p, "SIGTERM") \/ Raise(p, "SIGSTOP")
  BY <1>1 DEF Raise, WaitTargetLive
<1>2. CASE SendKill(p) /\ running_on[p] = NoCore BY <1>2, AfterExitTargets DEF SendKill
<1>3. CASE SendStop(p) /\ running_on[p] = NoCore
  <2>1. /\ state' = [state EXCEPT ![p] = "Blocked"] /\ why' = [why EXCEPT ![p] = "Io"]
        /\ id' = id
    BY <1>3 DEF SendStop
  <2>2. ASSUME NEW q \in Pid, Waiting(q)'
        PROVE  /\ Waiting(q) /\ id'[q] = id[q]
               /\ state[id[q]] \in Alive => state'[id[q]] \in Alive
    <3>1. q # p /\ Waiting(q) BY <2>1, <2>2 DEF Waiting, TypeOK
    <3>2. id[q] \in Pid BY <3>1 DEF Waiting, TypeOK, Pid0
    <3> QED BY <2>1, <3>1, <3>2 DEF Alive, TypeOK
  <2> QED BY <2>2, TargetsKept, Zenon DEF TargetKept
<1>4. CASE SendCont(p)
  <2>1. state' = [state EXCEPT ![p] = "Ready"] /\ why' = why /\ id' = id
    BY <1>4 DEF SendCont
  <2>2. ASSUME NEW q \in Pid, Waiting(q)'
        PROVE  /\ Waiting(q) /\ id'[q] = id[q]
               /\ state[id[q]] \in Alive => state'[id[q]] \in Alive
    <3>1. Waiting(q) BY <2>1, <2>2 DEF Waiting, TypeOK
    <3>2. id[q] \in Pid BY <3>1, Zenon DEF Waiting, TypeOK, Pid0
    <3> QED BY <2>1, <3>1, <3>2 DEF Alive, TypeOK
  <2> QED BY <2>2, TargetsKept DEF TargetKept
<1> QED BY <1>1, <1>2, <1>3, <1>4 DEF SendSignal, SendKill, SendTerm, SendStop

(* The targets of waits stay alive in every step.                           *)
LEMMA TargetsStep ==
    ASSUME TypeOK, OnOneCore, WaitTargetLive, [Next]_vars
    PROVE  WaitTargetLive'
<1>1. ASSUME NEW c \in Core, NEW p \in Pid0, SpawnUserProcess(c, p) PROVE WaitTargetLive'
  BY <1>1, OccupyTargets, Zenon DEF SpawnUserProcess
<1>2. ASSUME NEW c \in Core, NEW p \in Pid, NEW det \in BOOLEAN, SpawnUserThread(c, p, det)
      PROVE  WaitTargetLive'
  BY <1>2, OccupyTargets DEF SpawnUserThread
<1>3. ASSUME NEW c \in Core, NEW p \in Pid, NEW i \in Pid0, Wait(c, p, i) PROVE WaitTargetLive'
  BY <1>3, WaitTurnTargets DEF Wait
<1>4. ASSUME NEW c \in Core, NEW p \in Pid, WaitAgain(c, p) PROVE WaitTargetLive'
  <2>1. arg[p] \in Pid0 BY DEF TypeOK
  <2> QED BY <1>4, <2>1, WaitTurnTargets DEF WaitAgain
<1>5. ASSUME NEW c \in Core, NEW p \in Pid, NEW t \in Pid, TryWait(c, p, t) PROVE WaitTargetLive'
  BY <1>5, CollectTargets DEF TryWait
<1>6. ASSUME NEW c \in Core, NEW p \in Pid, NEW t \in Pid,
             ThreadDetach(c, p, t) \/ \E n \in Pid : Reparent(c, p, t, n)
      PROVE  WaitTargetLive'
  BY <1>6 DEF ThreadDetach, Reparent, WaitTargetLive
<1>7. ASSUME NEW c \in Core, NEW p \in Pid, ExitProcess(c, p) PROVE WaitTargetLive'
  BY <1>7, AfterExitTargets, Zenon DEF ExitProcess
<1>8. ASSUME NEW c \in Core, SwitchCr3(c) \/ DeviceIrq(c) PROVE WaitTargetLive'
  BY <1>8, Zenon DEF SwitchCr3, DeviceIrq, WaitTargetLive
<1>9. ASSUME NEW c \in Core, Tick(c) PROVE WaitTargetLive' BY <1>9, TickTargets DEF Tick
<1>10. ASSUME NEW p \in Pid, SendSignal(p) PROVE WaitTargetLive' BY <1>10, SignalTargets
<1>11. CASE UNCHANGED vars BY <1>11, Zenon DEF vars, WaitTargetLive
<1> QED BY Slots, <1>1, <1>2, <1>3, <1>4, <1>5, <1>6, <1>7, <1>8, <1>9, <1>10, <1>11
        DEF Next, TaskStep

----------------------------------------------------------------------------
(* Waiting for any child. *)

WaitingAny(p) == state[p] = "Blocked" /\ why[p] = "WaitChild" /\ id[p] = 0

(* A step that makes no task wait for any child that did not, and no zombie *)
(* of its kin that was none, keeps the waits for any child covered.         *)
AnyKept(p) ==
    WaitingAny(p)' => /\ WaitingAny(p)
                      /\ \A t \in Pid : OwnKin(p, t)' /\ state'[t] = "Zombie"
                                        => OwnKin(p, t) /\ state[t] = "Zombie"

(* Waits that are kept stay covered.                                        *)
LEMMA AnysKept ==
    ASSUME AnyWaitCovered, \A p \in Pid : AnyKept(p)
    PROVE  AnyWaitCovered'
BY DEF AnyWaitCovered, AnyKept, WaitingAny

(* A step that leaves kinship and every zombie alone.                       *)
SameKin == UNCHANGED <<parent, leader>>

(* Then who is whose kin stays.                                             *)
LEMMA KinStays ==
    ASSUME SameKin, NEW p, NEW t
    PROVE  OwnKin(p, t)' <=> OwnKin(p, t)
BY Zenon DEF SameKin, OwnKin, LeaderOf

(* The new occupant of a slot neither waits nor is a zombie.                *)
LEMMA OccupyAny ==
    ASSUME TypeOK, AnyWaitCovered, NEW c, NEW p, NEW group, NEW det, NEW t \in Pid,
           Occupy(c, p, group, det, t)
    PROVE  AnyWaitCovered'
<1> DEFINE R == DetachedZombies
<1>1. /\ state' = Reset(Reset(state, R, "Terminated"), {t}, "Ready")
      /\ why' = Reset(why, R, "Io") /\ id' = Reset(id, R, 0)
      /\ parent' = [parent EXCEPT ![t] = p] /\ leader' = [leader EXCEPT ![t] = group]
  BY Zenon DEF Occupy, Unblock
<1> HIDE DEF R
<1>2. ASSUME NEW q \in Pid, WaitingAny(q)' PROVE q # t /\ WaitingAny(q)
  BY <1>1, <1>2 DEF WaitingAny, Reset
<1>3. ASSUME NEW q \in Pid, q # t, NEW u \in Pid, OwnKin(q, u)', state'[u] = "Zombie"
      PROVE  OwnKin(q, u) /\ state[u] = "Zombie"
  <2>1. u # t /\ state[u] = "Zombie" BY <1>1, <1>3, Zenon DEF Reset
  <2>2. parent'[u] = parent[u] /\ leader'[u] = leader[u] /\ leader'[q] = leader[q]
    BY <1>1, <1>3, <2>1, Zenon DEF TypeOK
  <2> QED BY <1>3, <2>1, <2>2 DEF OwnKin, LeaderOf
<1> QED BY <1>2, <1>3, AnysKept, Zenon DEF AnyKept

(* The end of a task wakes every wait for any child.                        *)
LEMMA AfterExitAny ==
    ASSUME NEW t \in Pid, state' = AfterExit(state, t), UNCHANGED <<why, id>>
    PROVE  AnyWaitCovered'
BY DEF AnyWaitCovered, AfterExit

(* A reap makes no zombie.                                                  *)
LEMMA CollectAny ==
    ASSUME TypeOK, AnyWaitCovered, NEW c, NEW p \in Pid, NEW t \in Pid, Collect(c, p, t)
    PROVE  AnyWaitCovered'
<1>1. /\ state' = [state EXCEPT ![t] = "Terminated"] /\ SameKin
      /\ why' = Reset(why, {t} \cup IfUnblocked(p), "Io")
      /\ id' = Reset(id, {t} \cup IfUnblocked(p), 0)
  BY DEF Collect, Unblock, SameKin
<1>2. ASSUME NEW q \in Pid, WaitingAny(q)' PROVE WaitingAny(q)
  BY <1>1, <1>2, Zenon DEF WaitingAny, Reset, TypeOK
<1>3. ASSUME NEW q \in Pid, NEW u \in Pid, OwnKin(q, u)', state'[u] = "Zombie"
      PROVE  OwnKin(q, u) /\ state[u] = "Zombie"
  BY <1>1, <1>3, KinStays, Zenon DEF TypeOK
<1> QED BY <1>2, <1>3, AnysKept, Zenon DEF AnyKept

(* A call parks for any child only when it found no zombie to collect.      *)
LEMMA ParkAny ==
    ASSUME TypeOK, AnyWaitCovered, NEW p \in Pid, NEW i \in Pid0, ParkInWait(p, i),
           \A t \in Waitable(p, i) : state[t] # "Zombie"
    PROVE  AnyWaitCovered'
<1>1. /\ state' = [state EXCEPT ![p] = "Blocked"] /\ SameKin
      /\ why' = [why EXCEPT ![p] = "WaitChild"] /\ id' = [id EXCEPT ![p] = i]
  BY DEF ParkInWait, kinVars, SameKin
<1>2. ASSUME NEW q \in Pid, WaitingAny(q)', NEW u \in Pid, OwnKin(q, u)'
      PROVE  state'[u] # "Zombie"
  <2>1. OwnKin(q, u) BY <1>1, <1>2, KinStays, Zenon
  <2>2. CASE q = p
    <3>1. i = 0 BY <2>2, <1>1, <1>2, Zenon DEF WaitingAny, TypeOK
    <3>2. CanReap(p, u) BY <2>1, <2>2 DEF OwnKin, CanReap
    <3>3. state[u] # "Zombie" BY <3>1, <3>2, Zenon DEF Waitable, IsFree
    <3> QED BY <3>3, <1>1 DEF TypeOK
  <2>3. CASE q # p
    <3>1. WaitingAny(q) BY <2>3, <1>1, <1>2, Zenon DEF WaitingAny, TypeOK
    <3>2. state[u] # "Zombie" BY <3>1, <2>1 DEF AnyWaitCovered, WaitingAny
    <3> QED BY <3>2, <1>1 DEF TypeOK
  <2> QED BY <2>2, <2>3
<1> QED BY <1>2 DEF AnyWaitCovered, WaitingAny

(* A turn of the wait loop keeps the waits for any child covered.           *)
LEMMA WaitTurnAny ==
    ASSUME TypeOK, AnyWaitCovered, NEW c, NEW p \in Pid, NEW i \in Pid0, WaitTurn(c, p, i)
    PROVE  AnyWaitCovered'
<1>1. ASSUME NEW t \in Pid, Collect(c, p, t) PROVE AnyWaitCovered'
  BY <1>1, CollectAny
<1>2. CASE NoChild(p)
  <2>1. /\ state' = state /\ SameKin
        /\ why' = Reset(why, IfUnblocked(p), "Io") /\ id' = Reset(id, IfUnblocked(p), 0)
    BY <1>2, Zenon DEF NoChild, Unblock, kinVars, SameKin
  <2>2. \A q \in Pid : WaitingAny(q)' => WaitingAny(q) BY <2>1 DEF WaitingAny, Reset
  <2> QED BY <2>1, <2>2, KinStays, AnysKept, Zenon DEF AnyKept
<1>3. CASE ParkInWait(p, i) /\ \A t \in Waitable(p, i) : state[t] # "Zombie"
  BY <1>3, ParkAny, Zenon
<1>4. CASE HaltInWait(p, i)
  <2>1. UNCHANGED <<state, why, id>> /\ SameKin BY <1>4 DEF HaltInWait, kinVars, SameKin
  <2> QED BY <2>1, KinStays DEF AnyWaitCovered
<1> QED BY <1>1, <1>2, <1>3, <1>4, WaitTurnCases

(* A tick that ends the task of its core wakes the waits for any child; any *)
(* other makes no zombie.                                                   *)
LEMMA TickAny ==
    ASSUME TypeOK, OnOneCore, AnyWaitCovered,
           NEW c \in Core, NEW next \in Pid0, TickTo(c, next)
    PROVE  AnyWaitCovered'
<1>1. PICK R \in SUBSET Pid, sig \in {"none", "SIGKILL", "SIGTERM", "SIGSTOP"} :
         TickOf(c, next, R, sig)
  BY TickCases
<1> DEFINE st == TickTable(c, R, sig)
           p == cur[c]
<1>2. state' = Reset(st, {next}, "Running")
  BY <1>1, Zenon DEF TickOf, TickEffect, Dispatch, TickTable
<1>3. \A t \in R : t \in Pid /\ state[t] = "Zombie" /\ running_on[t] = NoCore
  BY <1>1, Zenon DEF TickOf, Reapable
<1>4. /\ why' = Reset(why, R \cup (IF sig = "SIGSTOP" THEN {p} ELSE {}), "Io")
      /\ id' = Reset(id, R, 0) /\ SameKin
  BY <1>1, Zenon DEF TickOf, TickEffect, SameKin
<1>5. p # 0 => p \in Pid /\ p \notin R
  <2>1. p # 0 => p \in Pid BY DEF TypeOK, Pid0
  <2>2. p \in Pid => running_on[p] = c BY DEF OnOneCore
  <2>3. c # NoCore BY SchedulerAssumption
  <2> QED BY <2>1, <2>2, <2>3, <1>3
<1>6. p # 0 =>
        /\ st[p] = "Blocked" => state[p] = "Blocked" \/ sig = "SIGSTOP"
        /\ sig \in {"SIGKILL", "SIGTERM"} => st[p] = "Zombie"
        /\ sig \notin {"SIGKILL", "SIGTERM"} /\ st[p] = "Zombie" => state[p] = "Zombie"
  BY <1>5, TickTableCur, Zenon
<1>7. ASSUME NEW q \in Pid, q # p
      PROVE  /\ q \in R => st[q] = "Terminated"
             /\ q \notin R => \/ st[q] = state[q]
                              \/ state[q] = "Blocked" /\ st[q] = "Ready"
             /\ /\ sig \in {"SIGKILL", "SIGTERM"} /\ p # 0
                /\ why[q] = "WaitChild" /\ id[q] \in {p, 0}
                => st[q] # "Blocked"
  BY <1>7, TickTableOther
<1>8. p = 0 => sig = "none" BY <1>1 DEF TickOf
<1> HIDE DEF st
<1>9. ASSUME NEW q \in Pid, WaitingAny(q)'
      PROVE  WaitingAny(q) /\ sig \notin {"SIGKILL", "SIGTERM"}
  <2>1. st[q] = "Blocked" /\ why'[q] = "WaitChild" /\ id'[q] = 0
    BY <1>2, <1>9, Zenon DEF WaitingAny, Reset
  <2>2. q \notin R /\ why[q] = "WaitChild" /\ id[q] = 0 /\ (sig = "SIGSTOP" => q # p)
    BY <2>1, <1>4 DEF Reset
  <2>3. state[q] = "Blocked" BY <2>1, <2>2, <1>5, <1>6, <1>7, Slots, Zenon
  <2>4. sig \notin {"SIGKILL", "SIGTERM"} BY <2>1, <2>2, <1>6, <1>7, <1>8, Slots
  <2> QED BY <2>2, <2>3, <2>4 DEF WaitingAny
<1>10. ASSUME sig \notin {"SIGKILL", "SIGTERM"}, NEW u \in Pid, state'[u] = "Zombie"
       PROVE  state[u] = "Zombie"
  <2>1. st[u] = "Zombie" BY <1>2, <1>10, Zenon DEF Reset
  <2> QED BY <2>1, <1>6, <1>7, <1>10, Slots
<1> QED BY <1>4, <1>9, <1>10, KinStays, AnysKept, Zenon DEF AnyKept

(* So does a signal.                                                        *)
LEMMA SignalAny ==
    ASSUME TypeOK, AnyWaitCovered, NEW p \in Pid, SendSignal(p)
    PROVE  AnyWaitCovered'
<1>1. CASE Raise(p, "SIGKILL") \/ Raise(p, "SIGTERM") \/ Raise(p, "SIGSTOP")
  <2>1. UNCHANGED <<state, why, id>> /\ SameKin BY <1>1 DEF Raise, kinVars, SameKin
  <2> QED BY <2>1, KinStays, Zenon DEF AnyWaitCovered
<1>2. CASE SendKill(p) /\ running_on[p] = NoCore BY <1>2, AfterExitAny DEF SendKill
<1>3. CASE SendStop(p) /\ running_on[p] = NoCore
  <2>1. /\ state' = [state EXCEPT ![p] = "Blocked"] /\ why' = [why EXCEPT ![p] = "Io"]
        /\ id' = id /\ SameKin
    BY <1>3, Zenon DEF SendStop, kinVars, SameKin
  <2>2. \A q \in Pid : /\ WaitingAny(q)' => WaitingAny(q)
                       /\ state'[q] = "Zombie" => state[q] = "Zombie"
    BY <2>1 DEF WaitingAny, TypeOK
  <2> QED BY <2>1, <2>2, KinStays, AnysKept DEF AnyKept
<1>4. CASE SendCont(p)
  <2>1. state' = [state EXCEPT ![p] = "Ready"] /\ why' = why /\ id' = id /\ SameKin
    BY <1>4 DEF SendCont, kinVars, SameKin
  <2>2. \A q \in Pid : /\ WaitingAny(q)' => WaitingAny(q)
                       /\ state'[q] = "Zombie" => state[q] = "Zombie"
    BY <2>1, Zenon DEF WaitingAny, TypeOK
  <2> QED BY <2>1, <2>2, KinStays, AnysKept DEF AnyKept
<1> QED BY <1>1, <1>2, <1>3, <1>4 DEF SendSignal, SendKill, SendTerm, SendStop

(* Every step but a reparent keeps the waits for any child covered.         *)
LEMMA AnyStep ==
    ASSUME "reparent" \notin Calls, TypeOK, OnOneCore, AnyWaitCovered, [Next]_vars
    PROVE  AnyWaitCovered'
<1>1. ASSUME NEW c \in Core, NEW p \in Pid0, SpawnUserProcess(c, p) PROVE AnyWaitCovered'
  BY <1>1, OccupyAny, Zenon DEF SpawnUserProcess
<1>2. ASSUME NEW c \in Core, NEW p \in Pid, NEW det \in BOOLEAN, SpawnUserThread(c, p, det)
      PROVE  AnyWaitCovered'
  BY <1>2, OccupyAny DEF SpawnUserThread
<1>3. ASSUME NEW c \in Core, NEW p \in Pid, NEW i \in Pid0, Wait(c, p, i) PROVE AnyWaitCovered'
  BY <1>3, WaitTurnAny DEF Wait
<1>4. ASSUME NEW c \in Core, NEW p \in Pid, WaitAgain(c, p) PROVE AnyWaitCovered'
  <2>1. arg[p] \in Pid0 BY DEF TypeOK
  <2> QED BY <1>4, <2>1, WaitTurnAny DEF WaitAgain
<1>5. ASSUME NEW c \in Core, NEW p \in Pid, NEW t \in Pid, TryWait(c, p, t) PROVE AnyWaitCovered'
  BY <1>5, CollectAny, Zenon DEF TryWait
<1>6. ASSUME NEW c \in Core, NEW p \in Pid, NEW t \in Pid, ThreadDetach(c, p, t)
      PROVE  AnyWaitCovered'
  <2>1. UNCHANGED <<state, why, id>> /\ SameKin BY <1>6 DEF ThreadDetach, SameKin
  <2> QED BY <2>1, KinStays DEF AnyWaitCovered
<1>7. ASSUME NEW c \in Core, NEW p \in Pid, ExitProcess(c, p) PROVE AnyWaitCovered'
  BY <1>7, AfterExitAny, Zenon DEF ExitProcess
<1>8. ASSUME NEW c \in Core, SwitchCr3(c) \/ DeviceIrq(c) PROVE AnyWaitCovered'
  <2>1. UNCHANGED <<state, why, id>> /\ SameKin
    BY <1>8 DEF SwitchCr3, DeviceIrq, kinVars, SameKin
  <2> QED BY <2>1, KinStays DEF AnyWaitCovered
<1>9. ASSUME NEW c \in Core, Tick(c) PROVE AnyWaitCovered' BY <1>9, TickAny DEF Tick
<1>10. ASSUME NEW p \in Pid, SendSignal(p) PROVE AnyWaitCovered' BY <1>10, SignalAny
<1>11. CASE UNCHANGED vars
  <2>1. UNCHANGED <<state, why, id>> /\ SameKin BY <1>11 DEF vars, SameKin
  <2> QED BY <2>1, KinStays DEF AnyWaitCovered
<1> QED BY Slots, <1>1, <1>2, <1>3, <1>4, <1>5, <1>6, <1>7, <1>8, <1>9, <1>10, <1>11
        DEF Next, TaskStep, Reparent

----------------------------------------------------------------------------
(* IInv is an inductive invariant of the process table.                     *)
THEOREM TableInductive == Spec => []IInv
<1>1. Init => IInv
  <2> SUFFICES ASSUME Init PROVE IInv OBVIOUS
  <2>1. TypeOK
    <3>1. /\ id \in [Pid -> Pid0] /\ arg \in [Pid -> Pid0] /\ parent \in [Pid -> Pid0]
          /\ leader \in [Pid -> Pid0] /\ cur \in [Core -> Pid0] /\ loaded \in [Core -> Pid0]
      BY Slots DEF Init
    <3>2. detached \in [Pid -> BOOLEAN] BY Zenon DEF Init
    <3>3. /\ state \in [Pid -> Alive \cup {"Zombie", "Terminated"}]
          /\ why \in [Pid -> {"WaitChild", "Io"}]
          /\ pc \in [Pid -> {"user", "hlt", "loop", "dead"}]
          /\ status \in [Pid -> {"none", "exited", "signaled"}]
      BY DEF Init
    <3>4. /\ running_on \in [Pid -> Core \cup {NoCore}] /\ tables \subseteq Pid
          /\ pending \in [Pid -> SUBSET {"SIGKILL", "SIGTERM", "SIGSTOP"}]
      BY DEF Init
    <3> QED BY <3>1, <3>2, <3>3, <3>4 DEF TypeOK
  <2>2. OnOneCore BY Slots, SchedulerAssumption DEF Init, OnOneCore
  <2>3. FreedOffCore BY DEF Init, FreedOffCore
  <2>4. WaitTargetLive BY DEF Init, WaitTargetLive
  <2> QED BY <2>1, <2>2, <2>3, <2>4 DEF IInv
<1>2. IInv /\ [Next]_vars => IInv'
  <2> SUFFICES ASSUME IInv, [Next]_vars PROVE IInv' OBVIOUS
  <2>1. TypeOK' BY TypeStep DEF IInv
  <2>2. OnOneCore' /\ FreedOffCore' BY StepKinds, TableOnCore, TickOnCore DEF IInv
  <2>3. WaitTargetLive' BY TargetsStep DEF IInv
  <2> QED BY <2>1, <2>2, <2>3 DEF IInv
<1> QED BY <1>1, <1>2, PTL DEF Spec

(* The fields of the process table keep their ranges.                       *)
THEOREM TableTypesOK == Spec => []TypeOK
<1>1. IInv => TypeOK BY DEF IInv
<1> QED BY <1>1, TableInductive, PTL

(* No task is ever on two cores, and cores and table agree on who is where. *)
THEOREM TasksOnOneCore == Spec => []OnOneCore
<1>1. IInv => OnOneCore BY DEF IInv
<1> QED BY <1>1, TableInductive, PTL

(* No slot is freed while a core still has it as its current task.          *)
THEOREM FreedSlotsOffCore == Spec => []FreedOffCore
<1>1. IInv => FreedOffCore BY DEF IInv
<1> QED BY <1>1, TableInductive, PTL

(* A join or wait by pid never sleeps on a task that has ended.             *)
THEOREM WaitTargetsLive == Spec => []WaitTargetLive
<1>1. IInv => WaitTargetLive BY DEF IInv
<1> QED BY <1>1, TableInductive, PTL

(* In a program without sys_reparent, a wait for any child never sleeps     *)
(* over a child of its own or a thread of its group that has ended.         *)
THEOREM AnyWaitsCovered == ASSUME "reparent" \notin Calls PROVE Spec => []AnyWaitCovered
<1>1. Init => AnyWaitCovered BY DEF Init, AnyWaitCovered
<1>2. IInv /\ AnyWaitCovered /\ [Next]_vars => AnyWaitCovered' BY AnyStep DEF IInv
<1> QED BY <1>1, <1>2, TableInductive, PTL DEF Spec
==============================================================================
