------------------------------ MODULE PickNext ------------------------------
(***************************************************************************)
(* The choice of the next task: aging, starvation forcing, weighted        *)
(* budgets and the skipping of an idle kernel.                             *)
(*                                                                         *)
(*   morpheus-kernel/src/schedular/tick.rs   pick_next, scheduler_tick     *)
(*                                                                         *)
(* Slot 0 is the kernel, which only BSP runs.  What a task does is reduced *)
(* to becoming ready and blocking; "Blocked" also stands for a slot that   *)
(* is free.  Importance, policy, power mode and affinity enter a score as  *)
(* one constant summand and the weight as another constant.                *)
(***************************************************************************)
EXTENDS Integers

CONSTANTS
    N,              \* MAX_PROCESSES
    Core, BSP, NoCore,
    ForceTicks,     \* STARVATION_FORCE_TICKS
    MaxSkip,        \* MAX_KERNEL_SKIP
    MaxWait,        \* u32::MAX, where sched_wait_ticks saturates
    Weight(_, _),   \* effective_weight of a task, in an emergency or not
    Merit(_, _, _), \* the part of pick_score that waiting does not change
    Performance     \* tasks with ProcessPowerMode::Performance

Pid == 0 .. N - 1

ASSUME PickNextAssumption ==
    /\ N \in Nat \ {0} /\ ForceTicks \in Nat \ {0} /\ MaxSkip \in Nat
    /\ MaxWait \in Nat /\ ForceTicks + N <= MaxWait
    /\ BSP \in Core /\ NoCore \notin Core
    /\ \A p \in Pid, h \in BOOLEAN : Weight(p, h) \in 1 .. 16
    /\ \A p \in Pid, c \in Core, h \in BOOLEAN : Merit(p, c, h) \in Int

VARIABLES
    state, running_on,
    wait,       \* sched_wait_ticks
    budget,     \* sched_budget_left
    streak,     \* KERNEL_SKIP_STREAK
    cur,        \* current pid of each core, 0: the kernel, or an idle AP
    hlt,        \* KERNEL_HLT_ENTRY_TSC is set: the kernel halted in its loop
    idle,       \* KERNEL_LAST_WAS_IDLE
    emergency   \* system state ThermalEmergency

vars == <<state, running_on, wait, budget, streak, cur, hlt, idle, emergency>>

TypeOK ==
    /\ state \in [Pid -> {"Ready", "Running", "Blocked"}]
    /\ running_on \in [Pid -> Core \cup {NoCore}]
    /\ wait \in [Pid -> 0 .. MaxWait]
    /\ budget \in [Pid -> 0 .. 16]
    /\ streak \in Nat
    /\ cur \in [Core -> Pid]
    /\ hlt \in BOOLEAN /\ idle \in BOOLEAN /\ emergency \in BOOLEAN

Init ==
    /\ state = [p \in Pid |-> IF p = 0 THEN "Running" ELSE "Blocked"]
    /\ running_on = [p \in Pid |-> IF p = 0 THEN BSP ELSE NoCore]
    /\ wait = [p \in Pid |-> 0]
    /\ budget = [p \in Pid |-> 0]
    /\ streak = 0
    /\ cur = [c \in Core |-> 0]
    /\ hlt = FALSE /\ idle = FALSE /\ emergency = FALSE

----------------------------------------------------------------------------
(* delta of the scan (current + delta) % n, delta in 1..=n, at which p comes *)
Dist(current, p) == IF p > current THEN p - current ELSE p - current + N

(* The first of S in the scan from current. *)
IsFirst(q, S, current) ==
    /\ q \in S
    /\ \A r \in S : Dist(current, q) <= Dist(current, r)

Smaller(a, b) == IF a < b THEN a ELSE b

(* pick_score *)
Score(q, c, w) ==
    Merit(q, c, emergency) + Smaller(w[q], 64) \div 4 + 64 - Smaller(Dist(cur[c], q), 64)

(* The first of the best of S: a later candidate must beat the score. *)
IsBest(q, S, c, w) ==
    /\ q \in S
    /\ \A r \in S : \/ Score(q, c, w) > Score(r, c, w)
                    \/ /\ Score(q, c, w) = Score(r, c, w)
                       /\ Dist(cur[c], q) <= Dist(cur[c], r)

(* One tick of q's budget, refilled if it is used up. *)
Spend(b, q) ==
    [b EXCEPT ![q] = (IF @ = 0 THEN Weight(q, emergency) ELSE @) - 1]

(* On an AP, current pid 0 is the idle loop and not the kernel task. *)
IdleAP(c) == c # BSP /\ cur[c] = 0

(* The table once the current task of c is off the core. *)
StateOff(c) ==
    IF IdleAP(c) THEN state
    ELSE [state EXCEPT ![cur[c]] = IF @ = "Running" THEN "Ready" ELSE @]
OnOff(c) == IF IdleAP(c) THEN running_on ELSE [running_on EXCEPT ![cur[c]] = NoCore]

Queue(c) == {q \in Pid : StateOff(c)[q] = "Ready" /\ OnOff(c)[q] = NoCore}

(* BSP ages the queue; a task neither queued nor running starts over. *)
Aged(c) ==
    IF c # BSP THEN wait
    ELSE [q \in Pid |-> IF q \in Queue(c) THEN Smaller(wait[q] + 1, MaxWait)
                        ELSE IF StateOff(c)[q] = "Running" THEN wait[q] ELSE 0]

Funds(c) ==
    IF c # BSP THEN budget
    ELSE [q \in Pid |-> IF q \in Queue(c) \/ StateOff(c)[q] = "Running"
                        THEN budget[q] ELSE 0]

(* KERNEL_LAST_WAS_IDLE after the tick's first part *)
IdleAfter(c) == IF c = BSP /\ cur[c] = 0 THEN hlt ELSE idle

(* skip_kernel as scheduler_tick computes it, compositor active or not *)
SkipAsked(c, compositor) == IF c # BSP THEN TRUE ELSE ~compositor /\ IdleAfter(c)

(* Variant: an idle kernel is skipped however long it has been. *)
SkipAlways(c, compositor) == SkipAsked(c, compositor)

(* ... and as pick_next uses it: BSP skips at most MaxSkip times in a row. *)
Skip(c, compositor) ==
    SkipAsked(c, compositor) /\ ~(c = BSP /\ streak >= MaxSkip)

StreakBefore(c, compositor) ==
    IF c = BSP /\ SkipAsked(c, compositor) /\ streak >= MaxSkip THEN 0 ELSE streak

Eligible(c, skip) == IF skip THEN Queue(c) \ {0} ELSE Queue(c)

(* Variant: tasks the heat excludes from the weighted pass are not forced. *)
StarvingCool(c, skip) ==
    {q \in Eligible(c, skip) : Aged(c)[q] >= ForceTicks /\ ~(emergency /\ q \in Performance)}

Starving(c, skip) == {q \in Eligible(c, skip) : Aged(c)[q] >= ForceTicks}

Refilled(c) ==
    [q \in Pid |-> IF q \in Queue(c) THEN Weight(q, emergency) ELSE Funds(c)[q]]

(* Tasks with budget left, by the budgets b, that the heat does not exclude. *)
Funded(c, skip, b) ==
    {q \in Eligible(c, skip) : b[q] > 0 /\ ~(emergency /\ q \in Performance)}

----------------------------------------------------------------------------
(* pick_next returns q: the effect on the accounts, and the dispatch of q. *)
Run(c, skip, q, b, s) ==
    /\ budget' = b
    /\ wait' = [Aged(c) EXCEPT ![q] = 0]
    /\ streak' = IF c # BSP THEN s ELSE IF q = 0 THEN 0 ELSE IF skip THEN s + 1 ELSE s
    /\ state' = [StateOff(c) EXCEPT ![q] = "Running"]
    /\ running_on' = [OnOff(c) EXCEPT ![q] = c]
    /\ cur' = [cur EXCEPT ![c] = q]

(* Hard starvation bound. *)
PickStarving(c, skip, s) ==
    \E q \in Pid : /\ IsFirst(q, Starving(c, skip), cur[c])
                   /\ Run(c, skip, q, Spend(Funds(c), q), s)

(* Weighted pass over the budgets b. *)
PickBest(c, skip, s, b) ==
    /\ Starving(c, skip) = {}
    /\ \E q \in Pid : /\ IsBest(q, Funded(c, skip, b), c, Aged(c))
                      /\ Run(c, skip, q, [b EXCEPT ![q] = @ - 1], s)

NoneFunded(c, skip) ==
    /\ Starving(c, skip) = {}
    /\ Funded(c, skip, Funds(c)) = {}
    /\ Funded(c, skip, Refilled(c)) = {}

(* BSP runs whatever is ready, the kernel included. *)
PickAny(c, skip) ==
    /\ c = BSP /\ NoneFunded(c, skip)
    /\ \E q \in Pid : /\ IsFirst(q, Queue(c), cur[c])
                      /\ Run(c, FALSE, q, Spend(Refilled(c), q), 0)

(* An AP goes on with its current task if that is still ready ... *)
KeepCurrent(c, skip, s) ==
    /\ c # BSP /\ NoneFunded(c, skip)
    /\ cur[c] # 0 /\ StateOff(c)[cur[c]] = "Ready"
    /\ Run(c, skip, cur[c], Spend(Refilled(c), cur[c]), s)

(* ... and idles otherwise. *)
GoIdle(c, skip, s) ==
    /\ c # BSP /\ NoneFunded(c, skip)
    /\ cur[c] = 0 \/ StateOff(c)[cur[c]] # "Ready"
    /\ budget' = Refilled(c) /\ wait' = Aged(c) /\ streak' = s
    /\ state' = StateOff(c) /\ running_on' = OnOff(c)
    /\ cur' = [cur EXCEPT ![c] = 0]

TickBody(c, skip, s) ==
    /\ \/ PickStarving(c, skip, s)
       \/ PickBest(c, skip, s, Funds(c))
       \/ Funded(c, skip, Funds(c)) = {} /\ PickBest(c, skip, s, Refilled(c))
       \/ PickAny(c, skip)
       \/ KeepCurrent(c, skip, s)
       \/ GoIdle(c, skip, s)
    /\ idle' = IdleAfter(c)
    /\ hlt' = (hlt /\ IdleAP(c))
    /\ UNCHANGED emergency

(* scheduler_tick; the compositor may come and go between ticks. *)
Tick(c) == \E compositor \in BOOLEAN :
               TickBody(c, Skip(c, compositor), StreakBefore(c, compositor))

accounts == <<wait, budget, streak, cur, idle>>

Block(c) ==
    /\ cur[c] # 0 /\ state[cur[c]] = "Running"
    /\ state' = [state EXCEPT ![cur[c]] = "Blocked"]
    /\ UNCHANGED <<running_on, accounts, hlt, emergency>>

Wake(p) ==
    /\ state[p] = "Blocked"
    /\ state' = [state EXCEPT ![p] = "Ready"]
    /\ UNCHANGED <<running_on, accounts, hlt, emergency>>

(* A new task in slot p: Process::empty() clears its accounts. *)
Spawn(p) ==
    /\ state[p] = "Blocked" /\ running_on[p] = NoCore
    /\ state' = [state EXCEPT ![p] = "Ready"]
    /\ wait' = [wait EXCEPT ![p] = 0]
    /\ budget' = [budget EXCEPT ![p] = 0]
    /\ UNCHANGED <<running_on, streak, cur, hlt, idle, emergency>>

MarkKernelHlt ==
    /\ cur[BSP] = 0
    /\ hlt' = TRUE
    /\ UNCHANGED <<state, running_on, accounts, emergency>>

SetThermalSignal ==
    /\ emergency' = ~emergency
    /\ UNCHANGED <<state, running_on, accounts, hlt>>

Next ==
    \/ \E c \in Core : Tick(c) \/ Block(c)
    \/ \E p \in Pid : Wake(p) \/ Spawn(p)
    \/ MarkKernelHlt
    \/ SetThermalSignal

Spec == Init /\ [][Next]_vars

(* The timer of every core keeps firing. *)
FairSpec == Spec /\ \A c \in Core : WF_vars(Tick(c))

----------------------------------------------------------------------------
(* Properties. *)

(* A ready user task waits at most ForceTicks ticks of BSP and one round of *)
(* the table more, whatever the scores, budgets, heat and other cores do.   *)
UserWaitBounded == \A p \in Pid \ {0} : wait[p] < ForceTicks + N

(* Why: a starving task that is passed over comes nearer in BSP's scan by   *)
(* at least as many slots as it has waited ticks.                           *)
ScanApproaches ==
    \A p \in Pid \ {0} :
        wait[p] >= ForceTicks => wait[p] - ForceTicks + Dist(cur[BSP], p) <= N

(* A ready user task is run or blocks again.                                *)
ReadyRuns == \A p \in Pid \ {0} : (state[p] = "Ready") ~> (state[p] # "Ready")

(* The kernel, ready or running at all times, gets BSP again and again.     *)
KernelRuns == []<>(cur[BSP] = 0)
=============================================================================
