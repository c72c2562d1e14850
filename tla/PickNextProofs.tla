--------------------------- MODULE PickNextProofs ---------------------------
(***************************************************************************)
(* The starvation bound of pick_next, for every size of the table, number  *)
(* of cores, weight and score.                                             *)
(*                                                                         *)
(* The bound alone is not inductive.  ScanApproaches says why it holds: a  *)
(* starving task is overtaken only by tasks that stand before it in BSP's  *)
(* scan, and the scan starts after the one that overtook.  It needs that   *)
(* tasks on a core have no wait to their account.                          *)
(***************************************************************************)
EXTENDS PickNext, TLAPS

(* A running task has its wait cleared when it is picked. *)
RunningCharged == \A p \in Pid : state[p] = "Running" => wait[p] = 0

IInv == TypeOK /\ RunningCharged /\ ScanApproaches

(* The scan visits every slot within N steps, no two in the same step.      *)
LEMMA DistRange ==
    ASSUME NEW a \in Pid, NEW p \in Pid
    PROVE  Dist(a, p) \in 1 .. N
BY PickNextAssumption DEF Dist, Pid

(* From a task q that stands before p in the scan, p is nearer by the       *)
(* distance of q.                                                           *)
LEMMA DistNearer ==
    ASSUME NEW a \in Pid, NEW p \in Pid, NEW q \in Pid, p # q,
           Dist(a, q) <= Dist(a, p)
    PROVE  Dist(q, p) <= Dist(a, p) - 1
BY PickNextAssumption DEF Dist, Pid

(* Waits, budgets, states and places are well formed throughout a tick.     *)
LEMMA TickTypes ==
    ASSUME TypeOK, NEW c \in Core
    PROVE  /\ StateOff(c) \in [Pid -> {"Ready", "Running", "Blocked"}]
           /\ OnOff(c) \in [Pid -> Core \cup {NoCore}]
           /\ Aged(c) \in [Pid -> 0 .. MaxWait]
           /\ Funds(c) \in [Pid -> 0 .. 16]
           /\ Refilled(c) \in [Pid -> 0 .. 16]
           /\ Queue(c) \subseteq Pid
<1>1. cur[c] \in Pid BY DEF TypeOK
<1>2. StateOff(c) \in [Pid -> {"Ready", "Running", "Blocked"}]
  BY <1>1 DEF StateOff, TypeOK
<1>3. OnOff(c) \in [Pid -> Core \cup {NoCore}] BY <1>1 DEF OnOff, TypeOK
<1>4. Aged(c) \in [Pid -> 0 .. MaxWait]
  BY PickNextAssumption DEF Aged, Smaller, TypeOK
<1>5. Funds(c) \in [Pid -> 0 .. 16] BY DEF Funds, TypeOK
<1>6. \A p \in Pid : Weight(p, emergency) \in 0 .. 16
  BY PickNextAssumption DEF TypeOK
<1>7. Refilled(c) \in [Pid -> 0 .. 16] BY <1>5, <1>6 DEF Refilled
<1>8. Queue(c) \subseteq Pid BY DEF Queue
<1> QED BY <1>2, <1>3, <1>4, <1>5, <1>7, <1>8

(* Charging a budget keeps it in range.                                     *)
LEMMA SpendType ==
    ASSUME TypeOK, NEW b \in [Pid -> 0 .. 16], NEW q \in Pid
    PROVE  Spend(b, q) \in [Pid -> 0 .. 16]
<1>1. Weight(q, emergency) \in 1 .. 16 BY PickNextAssumption DEF TypeOK
<1> QED BY <1>1 DEF Spend

(* A tick of core c either runs some task q, with its wait cleared and, if  *)
(* a user task starves, q the first starving one in the scan, or leaves an  *)
(* AP idle.                                                                 *)
TickRuns(c, q) ==
    /\ wait' = [Aged(c) EXCEPT ![q] = 0]
    /\ state' = [StateOff(c) EXCEPT ![q] = "Running"]
    /\ running_on' = [OnOff(c) EXCEPT ![q] = c]
    /\ cur' = [cur EXCEPT ![c] = q]
    /\ \A p \in Queue(c) \ {0} :
          Aged(c)[p] >= ForceTicks => Dist(cur[c], q) <= Dist(cur[c], p)

TickIdles(c) ==
    /\ c # BSP
    /\ wait' = Aged(c)
    /\ state' = StateOff(c) /\ running_on' = OnOff(c)
    /\ cur' = [cur EXCEPT ![c] = 0]

(* A tick dispatches a task or idles, and keeps the counters in their ranges. *)
LEMMA TickShape ==
    ASSUME TypeOK, NEW c \in Core, Tick(c)
    PROVE  /\ TickIdles(c) \/ \E q \in Pid : TickRuns(c, q)
           /\ budget' \in [Pid -> 0 .. 16] /\ streak' \in Nat
           /\ idle' \in BOOLEAN /\ hlt' \in BOOLEAN /\ emergency' \in BOOLEAN
<1>1. PICK compositor \in BOOLEAN :
         TickBody(c, Skip(c, compositor), StreakBefore(c, compositor))
  BY DEF Tick
<1> DEFINE skip == Skip(c, compositor)
           s == StreakBefore(c, compositor)
<1>2. s \in Nat BY DEF StreakBefore, TypeOK
<1>3. TickBody(c, skip, s) BY <1>1
<1> HIDE DEF skip, s
<1>4. idle' \in BOOLEAN /\ hlt' \in BOOLEAN /\ emergency' \in BOOLEAN
  BY <1>3, Zenon DEF TickBody, TypeOK, IdleAfter
<1>5. \A p \in Queue(c) \ {0} : Aged(c)[p] >= ForceTicks => p \in Starving(c, skip)
  BY DEF Starving, Eligible
<1>6. cur[c] \in Pid BY DEF TypeOK
<1>7. CASE PickStarving(c, skip, s)
  <2>1. PICK q \in Pid : /\ IsFirst(q, Starving(c, skip), cur[c])
                         /\ Run(c, skip, q, Spend(Funds(c), q), s)
    BY <1>7 DEF PickStarving
  <2>2. TickRuns(c, q) BY <2>1, <1>5 DEF TickRuns, Run, IsFirst
  <2>3. budget' \in [Pid -> 0 .. 16] BY <2>1, TickTypes, SpendType, Zenon DEF Run
  <2>4. streak' \in Nat BY <2>1, <1>2 DEF Run
  <2> QED BY <2>2, <2>3, <2>4, <1>4
<1>8. ASSUME NEW b \in [Pid -> 0 .. 16], PickBest(c, skip, s, b)
      PROVE  /\ \E q \in Pid : TickRuns(c, q)
             /\ budget' \in [Pid -> 0 .. 16] /\ streak' \in Nat
  <2>1. PICK q \in Pid : /\ IsBest(q, Funded(c, skip, b), c, Aged(c))
                         /\ Run(c, skip, q, [b EXCEPT ![q] = @ - 1], s)
    BY <1>8, Zenon DEF PickBest
  <2>2. Starving(c, skip) = {} BY <1>8 DEF PickBest
  <2>3. TickRuns(c, q) BY <2>1, <2>2, <1>5 DEF TickRuns, Run
  <2>4. b[q] > 0 BY <2>1 DEF IsBest, Funded
  <2>5. budget' \in [Pid -> 0 .. 16] BY <2>1, <2>4 DEF Run
  <2>6. streak' \in Nat BY <2>1, <1>2 DEF Run
  <2> QED BY <2>3, <2>5, <2>6
<1>9. CASE PickBest(c, skip, s, Funds(c)) BY <1>9, <1>8, <1>4, TickTypes
<1>10. CASE PickBest(c, skip, s, Refilled(c)) BY <1>10, <1>8, <1>4, TickTypes
<1>11. CASE PickAny(c, skip)
  <2>1. PICK q \in Pid : Run(c, FALSE, q, Spend(Refilled(c), q), 0)
    BY <1>11, Zenon DEF PickAny
  <2>2. Starving(c, skip) = {} BY <1>11 DEF PickAny, NoneFunded
  <2>3. TickRuns(c, q) BY <2>1, <2>2, <1>5 DEF TickRuns, Run
  <2>4. budget' \in [Pid -> 0 .. 16] BY <2>1, TickTypes, SpendType, Zenon DEF Run
  <2>5. streak' \in Nat BY <2>1 DEF Run
  <2> QED BY <2>3, <2>4, <2>5, <1>4
<1>12. CASE KeepCurrent(c, skip, s)
  <2>1. Run(c, skip, cur[c], Spend(Refilled(c), cur[c]), s)
    BY <1>12 DEF KeepCurrent
  <2>2. Starving(c, skip) = {} BY <1>12 DEF KeepCurrent, NoneFunded
  <2>3. TickRuns(c, cur[c]) BY <2>1, <2>2, <1>5 DEF TickRuns, Run
  <2>4. budget' \in [Pid -> 0 .. 16] BY <2>1, <1>6, TickTypes, SpendType, Zenon DEF Run
  <2>5. streak' \in Nat BY <2>1, <1>2 DEF Run
  <2> QED BY <2>3, <2>4, <2>5, <1>4, <1>6
<1>13. CASE GoIdle(c, skip, s)
  <2>1. TickIdles(c) BY <1>13 DEF GoIdle, TickIdles
  <2>2. budget' \in [Pid -> 0 .. 16] BY <1>13, TickTypes DEF GoIdle
  <2>3. streak' \in Nat BY <1>13, <1>2 DEF GoIdle
  <2> QED BY <2>1, <2>2, <2>3, <1>4
<1> QED BY <1>3, <1>7, <1>9, <1>10, <1>11, <1>12, <1>13 DEF TickBody

(* Types are preserved by every step.                                       *)
LEMMA TypeStep == TypeOK /\ [Next]_vars => TypeOK'
<1> SUFFICES ASSUME TypeOK, [Next]_vars PROVE TypeOK' OBVIOUS
<1>1. ASSUME NEW c \in Core, Tick(c) PROVE TypeOK'
  <2>1. /\ budget' \in [Pid -> 0 .. 16] /\ streak' \in Nat
        /\ idle' \in BOOLEAN /\ hlt' \in BOOLEAN /\ emergency' \in BOOLEAN
    BY <1>1, TickShape
  <2>2. CASE TickIdles(c)
    <3>1. 0 \in Pid BY PickNextAssumption DEF Pid
    <3>2. cur' \in [Core -> Pid] BY <2>2, <3>1 DEF TickIdles, TypeOK
    <3> QED BY <2>1, <2>2, <3>2, TickTypes DEF TickIdles, TypeOK
  <2>3. ASSUME NEW q \in Pid, TickRuns(c, q) PROVE TypeOK'
    <3>1. wait' \in [Pid -> 0 .. MaxWait]
      BY <2>3, TickTypes, PickNextAssumption DEF TickRuns
    <3>2. state' \in [Pid -> {"Ready", "Running", "Blocked"}]
      BY <2>3, TickTypes DEF TickRuns
    <3>3. running_on' \in [Pid -> Core \cup {NoCore}] BY <2>3, TickTypes DEF TickRuns
    <3>4. cur' \in [Core -> Pid] BY <2>3 DEF TickRuns, TypeOK
    <3> QED BY <2>1, <3>1, <3>2, <3>3, <3>4 DEF TypeOK
  <2> QED BY <1>1, TickShape, <2>2, <2>3
<1>2. ASSUME NEW c \in Core, Block(c) PROVE TypeOK'
  BY <1>2 DEF Block, accounts, TypeOK
<1>3. ASSUME NEW p \in Pid, Wake(p) PROVE TypeOK'
  BY <1>3 DEF Wake, accounts, TypeOK
<1>4. ASSUME NEW p \in Pid, Spawn(p) PROVE TypeOK'
  BY <1>4, PickNextAssumption DEF Spawn, TypeOK
<1>5. CASE MarkKernelHlt BY <1>5 DEF MarkKernelHlt, accounts, TypeOK
<1>6. CASE SetThermalSignal BY <1>6, Zenon DEF SetThermalSignal, accounts, TypeOK
<1>7. CASE UNCHANGED vars BY <1>7 DEF vars, TypeOK
<1> QED BY <1>1, <1>2, <1>3, <1>4, <1>5, <1>6, <1>7 DEF Next

(* What a tick leaves running that it did not pick was running before.      *)
LEMMA StillRunning ==
    ASSUME TypeOK, RunningCharged, NEW c \in Core, NEW p \in Pid,
           StateOff(c)[p] = "Running"
    PROVE  Aged(c)[p] = 0
<1>1. cur[c] \in Pid BY DEF TypeOK
<1>2. state[p] = "Running" BY <1>1 DEF StateOff, TypeOK
<1>3. wait[p] = 0 BY <1>2 DEF RunningCharged
<1>4. p \notin Queue(c) BY DEF Queue
<1> QED BY <1>3, <1>4 DEF Aged

(* Picking clears the wait, and nothing else makes a task run.              *)
LEMMA RunningChargedStep ==
    TypeOK /\ RunningCharged /\ [Next]_vars => RunningCharged'
<1> SUFFICES ASSUME TypeOK, RunningCharged, [Next]_vars,
                    NEW p \in Pid, state'[p] = "Running"
             PROVE  wait'[p] = 0
  BY DEF RunningCharged
<1>1. ASSUME NEW c \in Core, Tick(c) PROVE wait'[p] = 0
  <2>1. CASE TickIdles(c) BY <2>1, StillRunning DEF TickIdles
  <2>2. ASSUME NEW q \in Pid, TickRuns(c, q) PROVE wait'[p] = 0
    BY <2>2, StillRunning, TickTypes DEF TickRuns
  <2> QED BY <1>1, TickShape, <2>1, <2>2
<1>2. ASSUME NEW c \in Core, Block(c) PROVE wait'[p] = 0
  BY <1>2 DEF Block, accounts, TypeOK, RunningCharged
<1>3. ASSUME NEW r \in Pid, Wake(r) PROVE wait'[p] = 0
  BY <1>3 DEF Wake, accounts, TypeOK, RunningCharged
<1>4. ASSUME NEW r \in Pid, Spawn(r) PROVE wait'[p] = 0
  BY <1>4 DEF Spawn, TypeOK, RunningCharged
<1>5. CASE MarkKernelHlt BY <1>5 DEF MarkKernelHlt, accounts, RunningCharged
<1>6. CASE SetThermalSignal BY <1>6 DEF SetThermalSignal, accounts, RunningCharged
<1>7. CASE UNCHANGED vars BY <1>7 DEF vars, RunningCharged
<1> QED BY <1>1, <1>2, <1>3, <1>4, <1>5, <1>6, <1>7 DEF Next

(* Only a queued task can reach the limit in BSP's aging, and by one tick.  *)
LEMMA AgedStarving ==
    ASSUME TypeOK, RunningCharged, NEW p \in Pid, Aged(BSP)[p] >= ForceTicks
    PROVE  p \in Queue(BSP) /\ Aged(BSP)[p] <= wait[p] + 1
<1>1. BSP \in Core BY PickNextAssumption
<1>2. wait[p] \in 0 .. MaxWait BY DEF TypeOK
<1>3. StateOff(BSP)[p] # "Running" BY <1>1, StillRunning, PickNextAssumption
<1>4. p \in Queue(BSP) BY <1>3, PickNextAssumption DEF Aged
<1> QED BY <1>2, <1>4, PickNextAssumption DEF Aged, Smaller

(* The step of the argument: overtaken once, a starving task is nearer.     *)
LEMMA ScanApproachesStep ==
    TypeOK /\ RunningCharged /\ ScanApproaches /\ [Next]_vars => ScanApproaches'
<1> SUFFICES ASSUME TypeOK, RunningCharged, ScanApproaches, [Next]_vars,
                    NEW p \in Pid \ {0}, wait'[p] >= ForceTicks
             PROVE  wait'[p] - ForceTicks + Dist(cur'[BSP], p) <= N
  BY DEF ScanApproaches, Dist
<1>0. BSP \in Core /\ cur[BSP] \in Pid /\ wait[p] \in 0 .. MaxWait
  BY PickNextAssumption DEF TypeOK
<1>1. wait[p] >= ForceTicks => wait[p] - ForceTicks + Dist(cur[BSP], p) <= N
  BY DEF ScanApproaches
<1>2. CASE Tick(BSP)
  <2>1. ~TickIdles(BSP) BY DEF TickIdles
  <2>2. PICK q \in Pid : TickRuns(BSP, q) BY <1>0, <1>2, <2>1, TickShape
  <2>3. wait' = [Aged(BSP) EXCEPT ![q] = 0] /\ cur'[BSP] = q
    BY <2>2, <1>0 DEF TickRuns, TypeOK
  <2>4. p # q /\ wait'[p] = Aged(BSP)[p]
    BY <2>3, <1>0, TickTypes, PickNextAssumption
  <2>5. p \in Queue(BSP) /\ Aged(BSP)[p] <= wait[p] + 1 BY <2>4, AgedStarving
  <2>6. Dist(cur[BSP], q) <= Dist(cur[BSP], p) BY <2>2, <2>4, <2>5 DEF TickRuns
  <2>7. Dist(q, p) <= Dist(cur[BSP], p) - 1 BY <2>4, <2>6, <1>0, DistNearer
  <2>8. Dist(q, p) \in 1 .. N /\ Dist(cur[BSP], p) \in 1 .. N BY <1>0, DistRange
  <2>9. Aged(BSP)[p] \in Nat BY <1>0, TickTypes
  <2> QED BY <1>0, <1>1, <2>3, <2>4, <2>5, <2>7, <2>8, <2>9, PickNextAssumption
<1>3. ASSUME cur'[BSP] = cur[BSP], wait'[p] = wait[p] \/ wait'[p] = 0
      PROVE  wait'[p] - ForceTicks + Dist(cur'[BSP], p) <= N
  BY <1>1, <1>3, PickNextAssumption
<1>4. ASSUME NEW c \in Core, Tick(c), c # BSP
      PROVE  cur'[BSP] = cur[BSP] /\ (wait'[p] = wait[p] \/ wait'[p] = 0)
  <2>1. Aged(c) = wait BY <1>4 DEF Aged
  <2>2. CASE TickIdles(c) BY <2>1, <2>2, <1>0, <1>4 DEF TickIdles, TypeOK
  <2>3. ASSUME NEW q \in Pid, TickRuns(c, q)
        PROVE  cur'[BSP] = cur[BSP] /\ (wait'[p] = wait[p] \/ wait'[p] = 0)
    BY <2>1, <2>3, <1>0, <1>4 DEF TickRuns, TypeOK
  <2> QED BY <1>4, TickShape, <2>2, <2>3
<1>5. ASSUME (\E c \in Core : Block(c)) \/ (\E r \in Pid : Wake(r)) \/ MarkKernelHlt
             \/ SetThermalSignal \/ UNCHANGED vars
      PROVE  cur'[BSP] = cur[BSP] /\ wait'[p] = wait[p]
  BY <1>5 DEF Block, Wake, MarkKernelHlt, SetThermalSignal, accounts, vars
<1>6. ASSUME NEW r \in Pid, Spawn(r)
      PROVE  cur'[BSP] = cur[BSP] /\ (wait'[p] = wait[p] \/ wait'[p] = 0)
  BY <1>6 DEF Spawn, TypeOK
<1> QED BY <1>2, <1>3, <1>4, <1>5, <1>6 DEF Next

(* IInv is an inductive invariant of the scheduler's choice.                *)
THEOREM PickInductive == Spec => []IInv
<1>1. Init => IInv
  <2> SUFFICES ASSUME Init PROVE IInv OBVIOUS
  <2>1. 0 \in Pid BY PickNextAssumption DEF Pid
  <2>2. TypeOK
    <3>1. /\ wait \in [Pid -> 0 .. MaxWait] /\ budget \in [Pid -> 0 .. 16] /\ streak \in Nat
          /\ cur \in [Core -> Pid]
      BY <2>1, PickNextAssumption DEF Init
    <3>2. running_on \in [Pid -> Core \cup {NoCore}] BY PickNextAssumption DEF Init
    <3>3. state \in [Pid -> {"Ready", "Running", "Blocked"}] BY DEF Init
    <3>4. hlt \in BOOLEAN /\ idle \in BOOLEAN /\ emergency \in BOOLEAN BY Zenon DEF Init
    <3> QED BY <3>1, <3>2, <3>3, <3>4 DEF TypeOK
  <2>3. RunningCharged BY DEF Init, RunningCharged
  <2>4. ScanApproaches BY PickNextAssumption DEF Init, ScanApproaches
  <2> QED BY <2>2, <2>3, <2>4 DEF IInv
<1>2. IInv /\ [Next]_vars => IInv'
  BY TypeStep, RunningChargedStep, ScanApproachesStep DEF IInv
<1> QED BY <1>1, <1>2, PTL DEF Spec

(* Every field of the scheduler's accounts stays in its range: budgets do   *)
(* not underflow and waits stay below their saturation.                     *)
THEOREM PickTypesOK == Spec => []TypeOK
<1>1. IInv => TypeOK BY DEF IInv
<1> QED BY <1>1, PickInductive, PTL

(* A starving task overtaken k times is at least k slots nearer.            *)
THEOREM PickScanApproaches == Spec => []ScanApproaches
<1>1. IInv => ScanApproaches BY DEF IInv
<1> QED BY <1>1, PickInductive, PTL

(* The hard starvation bound of pick_next, for user tasks.                  *)
THEOREM PickWaitBounded == Spec => []UserWaitBounded
<1>1. IInv => UserWaitBounded
  <2> SUFFICES ASSUME IInv, NEW p \in Pid \ {0} PROVE wait[p] < ForceTicks + N
    BY DEF UserWaitBounded
  <2>1. BSP \in Core /\ cur[BSP] \in Pid /\ wait[p] \in 0 .. MaxWait
    BY PickNextAssumption DEF IInv, TypeOK
  <2>2. Dist(cur[BSP], p) \in 1 .. N BY <2>1, DistRange
  <2>3. wait[p] >= ForceTicks => wait[p] - ForceTicks + Dist(cur[BSP], p) <= N
    BY DEF IInv, ScanApproaches
  <2> QED BY <2>1, <2>2, <2>3, PickNextAssumption
<1> QED BY <1>1, PickInductive, PTL
=============================================================================
