------------------------------ MODULE Scheduler ------------------------------
(***************************************************************************)
(* The process table: dispatch on several cores, spawn, exit, wait, join,  *)
(* detach, reparent, signals, and the page tables a core has loaded.       *)
(*                                                                         *)
(*   morpheus-kernel/src/schedular/{lifecycle,spawn,tick,wait,state}.rs    *)
(*   morpheus-kernel/src/syscall/handler/{core,proc,sync}.rs               *)
(*   asm/cpu/context_switch.s (irq_timer_isr)                              *)
(*                                                                         *)
(* Everything done under PROCESS_TABLE_LOCK is one step.  The part of the  *)
(* timer interrupt after the unlock, which loads the new CR3, is a step of *)
(* its own.  Why a task blocks other than in wait or on SIGSTOP is the     *)
(* subject of TimedWait; which ready task a tick picks is left open.  The  *)
(* kernel, pid 0, runs on BSP whenever no other task does and never exits. *)
(***************************************************************************)
EXTENDS Integers, FiniteSets

CONSTANTS
    Pid,        \* slots 1..MAX_PROCESSES-1
    Core, BSP,
    NoCore,     \* running_on = u32::MAX
    MsiCore,    \* cores that also take the xHCI interrupt
    MaxUser,    \* MAX_USER_PROCESSES
    Calls,      \* the syscalls user programs make
    Signal      \* the signals they send

ASSUME SchedulerAssumption ==
    /\ Pid \subseteq Nat \ {0} /\ IsFiniteSet(Pid)
    /\ BSP \in Core /\ NoCore \notin Core
    /\ MsiCore \subseteq Core /\ MaxUser \in Nat
    /\ Calls \subseteq {"spawn", "thread", "exit", "wait", "trywait", "detach", "reparent"}
    /\ Signal \subseteq {"SIGKILL", "SIGTERM", "SIGCONT", "SIGSTOP"}

VARIABLES
    state,       \* ProcessState; "Terminated" is also a slot never used
    why,         \* BlockReason of a Blocked task
    id,          \* the pid in BlockReason::WaitChild, 0 for any child
    arg,         \* the pid its wait call names
    pc,          \* user mode, halted in wait, back from the halt, exited
    running_on, cur,   \* the core of a task; current_pid of a core
    parent, leader, detached,
    status,      \* exit_code and term_signal: how the task ended
    pending,     \* pending_signals
    tables,      \* slots whose page tables exist
    loaded       \* per core: slot whose page tables CR3 points at, 0: the kernel's

vars == <<state, why, id, arg, pc, running_on, cur, parent, leader, detached, status,
          pending, tables, loaded>>

kinVars  == <<parent, leader, detached>>
coreVars == <<running_on, cur, loaded>>

Pid0  == Pid \cup {0}
Alive == {"Ready", "Running", "Blocked"}

TypeOK ==
    /\ state \in [Pid -> Alive \cup {"Zombie", "Terminated"}]
    /\ why \in [Pid -> {"WaitChild", "Io"}]
    /\ id \in [Pid -> Pid0] /\ arg \in [Pid -> Pid0]
    /\ pc \in [Pid -> {"user", "hlt", "loop", "dead"}]
    /\ running_on \in [Pid -> Core \cup {NoCore}]
    /\ cur \in [Core -> Pid0]
    /\ parent \in [Pid -> Pid0] /\ leader \in [Pid -> Pid0]
    /\ detached \in [Pid -> BOOLEAN]
    /\ status \in [Pid -> {"none", "exited", "signaled"}]
    /\ pending \in [Pid -> SUBSET {"SIGKILL", "SIGTERM", "SIGSTOP"}]
    /\ tables \subseteq Pid
    /\ loaded \in [Core -> Pid0]

Init ==
    /\ state = [p \in Pid |-> "Terminated"]
    /\ why = [p \in Pid |-> "Io"]
    /\ id = [p \in Pid |-> 0] /\ arg = [p \in Pid |-> 0]
    /\ pc = [p \in Pid |-> "user"]
    /\ running_on = [p \in Pid |-> NoCore]
    /\ cur = [c \in Core |-> 0]
    /\ parent = [p \in Pid |-> 0] /\ leader = [p \in Pid |-> 0]
    /\ detached = [p \in Pid |-> FALSE]
    /\ status = [p \in Pid |-> "none"]
    /\ pending = [p \in Pid |-> {}]
    /\ tables = {}
    /\ loaded = [c \in Core |-> 0]

----------------------------------------------------------------------------
(* leader_of; a freed slot still answers with its last occupant's group *)
LeaderOf(p) == IF p \in Pid /\ leader[p] # 0 THEN leader[p] ELSE p

(* The page tables task p runs on: those of its group. *)
Cr3(p) == LeaderOf(p)

(* p, or the kernel if p = 0, executes on core c, past the CR3 switch. *)
RunsOn(c, p) == cur[c] = p /\ loaded[c] = Cr3(p)

IsFree(p) == state[p] = "Terminated"

IsLowest(p, S) == p \in S /\ \A q \in S : p <= q

(* child of the caller's group, or a thread of it *)
CanReap(p, t) ==
    \/ LeaderOf(parent[t]) = LeaderOf(p)
    \/ leader[t] # 0 /\ leader[t] = LeaderOf(p)

(* Variant: reaping does not look at running_on. *)
ReapableAnywhere(t) == state[t] = "Zombie"

(* reap_zombie refuses a zombie that is still on a core *)
Reapable(t) == state[t] = "Zombie" /\ running_on[t] = NoCore

(* The page tables left when core c reaps the slots R: a group's go with    *)
(* its leader, unless they are the ones c has loaded.                       *)
TablesAfter(c, R) == tables \ {t \in R : leader[t] = 0 /\ t # loaded[c]}

DetachedZombies == {t \in Pid : detached[t] /\ Reapable(t)}

(* f with the slots of S set to v *)
Reset(f, S, v) == [p \in Pid |-> IF p \in S THEN v ELSE f[p]]

(* Nothing reads the call and the end of a task once its slot is reaped, or *)
(* the call once it has returned: Process::empty() and the next call set    *)
(* them anew.  The model resets them at once.                               *)
EndCalls(S) == arg' = Reset(arg, S, 0)
Unblock(S) == why' = Reset(why, S, "Io") /\ id' = Reset(id, S, 0)
Clean(S) == status' = Reset(status, S, "none") /\ pending' = Reset(pending, S, {})

(* p, unless the table has it Blocked *)
IfUnblocked(p) == IF state[p] = "Blocked" THEN {} ELSE {p}

(* Variant: waits for any child are not woken. *)
AfterExitNoAny(st, t) ==
    [p \in Pid |-> IF p = t THEN "Zombie"
                   ELSE IF st[p] = "Blocked" /\ why[p] = "WaitChild" /\ id[p] = t
                   THEN "Ready" ELSE st[p]]

(* What terminate_process_inner(t) makes of the states st: t is a zombie    *)
(* and every task waiting for it or for any child is ready.                 *)
AfterExit(st, t) ==
    [p \in Pid |-> IF p = t THEN "Zombie"
                   ELSE IF st[p] = "Blocked" /\ why[p] = "WaitChild" /\ id[p] \in {t, 0}
                   THEN "Ready" ELSE st[p]]

----------------------------------------------------------------------------
(* Spawning. *)

UserProcesses == {p \in Pid : ~IsFree(p) /\ leader[p] = 0}

(* The slot find_free_slot returns, after it has reaped the detached        *)
(* zombies, and the fields of its new occupant.                             *)
Occupy(c, p, group, det, t) ==
    LET R == DetachedZombies
    IN  /\ IsLowest(t, {q \in Pid : IsFree(q)} \cup R)
        /\ state' = Reset(Reset(state, R, "Terminated"), {t}, "Ready")
        /\ EndCalls(R) /\ Unblock(R) /\ Clean(R)
        /\ pc' = Reset(pc, R, "user")
        /\ parent' = [parent EXCEPT ![t] = p]
        /\ leader' = [leader EXCEPT ![t] = group]
        /\ detached' = Reset(Reset(detached, R, FALSE), {t}, det)
        /\ tables' = TablesAfter(c, R) \cup (IF group = 0 THEN {t} ELSE {})
        /\ UNCHANGED coreVars

SpawnUserProcess(c, p) ==
    /\ "spawn" \in Calls
    /\ RunsOn(c, p)
    /\ IF p = 0 THEN c = BSP ELSE pc[p] = "user"
    /\ Cardinality(UserProcesses) < MaxUser
    /\ \E t \in Pid : Occupy(c, p, 0, FALSE, t)

SpawnUserThread(c, p, det) ==
    /\ "thread" \in Calls /\ (det => "detach" \in Calls)
    /\ RunsOn(c, p) /\ pc[p] = "user"
    /\ \E t \in Pid : Occupy(c, p, LeaderOf(p), det, t)

----------------------------------------------------------------------------
(* Waiting. *)

(* What a wait by p for i (0: any child) may still collect. *)
Waitable(p, i) ==
    {t \in Pid : (i = 0 \/ t = i) /\ ~IsFree(t) /\ CanReap(p, t)}

Collect(c, p, t) ==
    /\ Reapable(t)
    /\ state' = [state EXCEPT ![t] = "Terminated"]
    /\ EndCalls({p, t}) /\ Unblock({t} \cup IfUnblocked(p)) /\ Clean({t})
    /\ pc' = Reset(pc, {p, t}, "user")
    /\ detached' = Reset(detached, {t}, FALSE)
    /\ tables' = TablesAfter(c, {t})
    /\ UNCHANGED <<coreVars, parent, leader>>

(* ECHILD or ESRCH *)
NoChild(p) ==
    /\ pc' = [pc EXCEPT ![p] = "user"]
    /\ EndCalls({p}) /\ Unblock(IfUnblocked(p))
    /\ UNCHANGED <<state, coreVars, kinVars, status, pending, tables>>

ParkInWait(p, i) ==
    /\ state' = [state EXCEPT ![p] = "Blocked"]
    /\ why' = [why EXCEPT ![p] = "WaitChild"]
    /\ id' = [id EXCEPT ![p] = i]
    /\ arg' = [arg EXCEPT ![p] = i]
    /\ pc' = [pc EXCEPT ![p] = "hlt"]
    /\ UNCHANGED <<coreVars, kinVars, status, pending, tables>>

(* The zombie found is still on a core: halt without blocking, look again. *)
HaltInWait(p, i) ==
    /\ arg' = [arg EXCEPT ![p] = i]
    /\ pc' = [pc EXCEPT ![p] = "hlt"]
    /\ UNCHANGED <<state, why, id, coreVars, kinVars, status, pending, tables>>

(* Variant: a zombie still on a core is waited for like a live child. *)
WaitTurnParkOnBusy(c, p, i) ==
    LET zombies == {t \in Waitable(p, i) : state[t] = "Zombie"}
    IN  \/ Waitable(p, i) = {} /\ NoChild(p)
        \/ Waitable(p, i) # {} /\ zombies = {} /\ ParkInWait(p, i)
        \/ \E t \in Pid : /\ IsLowest(t, zombies)
                          /\ IF Reapable(t) THEN Collect(c, p, t) ELSE ParkInWait(p, i)

(* One turn of the loop of do_wait and wait_for_child. *)
WaitTurn(c, p, i) ==
    LET zombies == {t \in Waitable(p, i) : state[t] = "Zombie"}
    IN  \/ Waitable(p, i) = {} /\ NoChild(p)
        \/ Waitable(p, i) # {} /\ zombies = {} /\ ParkInWait(p, i)
        \/ \E t \in Pid : /\ IsLowest(t, zombies)
                          /\ IF Reapable(t) THEN Collect(c, p, t) ELSE HaltInWait(p, i)

Wait(c, p, i) ==
    /\ "wait" \in Calls
    /\ RunsOn(c, p) /\ pc[p] = "user"
    /\ WaitTurn(c, p, i)

WaitAgain(c, p) == RunsOn(c, p) /\ pc[p] = "loop" /\ WaitTurn(c, p, arg[p])

(* try_wait_child, and SYS_WAIT with WNOHANG *)
TryWait(c, p, t) ==
    /\ "trywait" \in Calls
    /\ RunsOn(c, p) /\ pc[p] = "user"
    /\ t \in Waitable(p, t)
    /\ Collect(c, p, t)

ThreadDetach(c, p, t) ==
    /\ "detach" \in Calls
    /\ RunsOn(c, p) /\ pc[p] = "user"
    /\ ~IsFree(t)
    /\ LeaderOf(p) \in {leader[t], parent[t]}
    /\ detached' = [detached EXCEPT ![t] = TRUE]
    /\ UNCHANGED <<state, why, id, arg, pc, coreVars, parent, leader, status, pending, tables>>

Live(p) == p = 0 \/ state[p] \in Alive

(* Hand-off by the parent, or adoption of an orphan by the new parent. *)
Reparent(c, p, t, n) ==
    /\ "reparent" \in Calls
    /\ RunsOn(c, p) /\ pc[p] = "user"
    /\ Live(n) /\ ~IsFree(t)
    /\ p = parent[t] \/ (p = n /\ ~Live(parent[t]))
    /\ parent' = [parent EXCEPT ![t] = n]
    /\ UNCHANGED <<state, why, id, arg, pc, coreVars, leader, detached, status, pending, tables>>

----------------------------------------------------------------------------
(* Exit and signals. *)

(* exit_process from the zombifying on; the task then halts for good. *)
ExitProcess(c, p) ==
    /\ "exit" \in Calls
    /\ RunsOn(c, p) /\ pc[p] = "user"
    /\ state' = AfterExit(state, p)
    /\ status' = [status EXCEPT ![p] = "exited"]
    /\ pc' = [pc EXCEPT ![p] = "dead"]
    /\ UNCHANGED <<why, id, arg, coreVars, kinVars, pending, tables>>

Raise(p, sig) ==
    /\ pending' = [pending EXCEPT ![p] = @ \cup {sig}]
    /\ UNCHANGED <<state, why, id, arg, pc, coreVars, kinVars, status, tables>>

(* send_signal_inner: only a free slot is refused. *)
SendKill(p) ==
    /\ "SIGKILL" \in Signal /\ ~IsFree(p)
    /\ IF running_on[p] # NoCore
       THEN Raise(p, "SIGKILL")
       ELSE /\ state' = AfterExit(state, p)
            /\ status' = [status EXCEPT ![p] = "signaled"]
            /\ UNCHANGED <<why, id, arg, pc, coreVars, kinVars, pending, tables>>

SendTerm(p) == "SIGTERM" \in Signal /\ ~IsFree(p) /\ Raise(p, "SIGTERM")

SendStop(p) ==
    /\ "SIGSTOP" \in Signal /\ ~IsFree(p)
    /\ IF running_on[p] # NoCore
       THEN Raise(p, "SIGSTOP")
       ELSE /\ state' = [state EXCEPT ![p] = "Blocked"]
            /\ why' = [why EXCEPT ![p] = "Io"]
            /\ UNCHANGED <<id, arg, pc, coreVars, kinVars, status, pending, tables>>

SendCont(p) ==
    /\ "SIGCONT" \in Signal /\ state[p] = "Blocked"
    /\ state' = [state EXCEPT ![p] = "Ready"]
    /\ UNCHANGED <<why, id, arg, pc, coreVars, kinVars, status, pending, tables>>

----------------------------------------------------------------------------
(* The timer tick. *)

(* Off the core: a Running task is Ready again, any other stays as it is. *)
Preempted(st, p) == [st EXCEPT ![p] = IF @ = "Running" THEN "Ready" ELSE @]

(* take_next and default_action: the signal delivered to p, lowest first. *)
Delivered(p) ==
    IF pending[p] \cap {"SIGKILL", "SIGTERM"} # {}
    THEN IF "SIGKILL" \in pending[p] THEN "SIGKILL" ELSE "SIGTERM"
    ELSE IF "SIGSTOP" \in pending[p] THEN "SIGSTOP" ELSE "none"

(* deliver_pending_signals to p, from the states st *)
AfterSignal(st, p, sig) ==
    IF sig \in {"SIGKILL", "SIGTERM"} THEN AfterExit(st, p)
    ELSE IF sig = "SIGSTOP" THEN [st EXCEPT ![p] = "Blocked"] ELSE st

(* Variant: a task that is on another core may be picked too. *)
PickableAnywhere(st, on, p) == st[p] = "Ready"

(* What pick_next may return. *)
Pickable(st, on, p) == st[p] = "Ready" /\ on[p] = NoCore

(* Dispatch of next on core c, from the states st and places on. *)
Dispatch(c, next, st, on) ==
    /\ next # 0 => Pickable(st, on, next)
    /\ state' = Reset(st, {next}, "Running")
    /\ running_on' = Reset(on, {next}, c)
    /\ cur' = [cur EXCEPT ![c] = next]

(* scheduler_tick on core c.  sweep: core 0 every so many ticks.  deliver:  *)
(* FALSE inside a signal handler, which this module leaves open.            *)
TickEffect(c, next, R, sig) ==
    LET p == cur[c]
        swept == Reset(state, R, "Terminated")
        killed == IF sig \in {"SIGKILL", "SIGTERM"} THEN {p} ELSE {}
        stopped == IF sig = "SIGSTOP" THEN {p} ELSE {}
    IN  /\ Dispatch(c, next,
                    IF p = 0 THEN swept ELSE AfterSignal(Preempted(swept, p), p, sig),
                    Reset(running_on, {p}, NoCore))
        /\ why' = Reset(why, R \cup stopped, "Io")
        /\ id' = Reset(id, R, 0) /\ EndCalls(R)
        /\ pc' = [q \in Pid |-> IF q = next /\ pc[q] = "hlt" THEN "loop"
                                ELSE IF q \in R THEN "user" ELSE pc[q]]
        /\ detached' = Reset(detached, R, FALSE)
        /\ status' = Reset(Reset(status, R, "none"), killed, "signaled")
        /\ pending' = [q \in Pid |-> IF q = p THEN pending[q] \ {sig}
                                     ELSE IF q \in R THEN {} ELSE pending[q]]
        /\ tables' = TablesAfter(c, R)
        /\ UNCHANGED <<parent, leader, loaded>>

TickTo(c, next) ==
    /\ loaded[c] = Cr3(cur[c])
    /\ cur[c] # 0 => pc[cur[c]] \in {"user", "hlt", "dead"}
    /\ \E sweep, deliver \in BOOLEAN :
          TickEffect(c, next, IF sweep /\ c = BSP THEN DetachedZombies ELSE {},
                     IF cur[c] # 0 /\ deliver THEN Delivered(cur[c]) ELSE "none")

Tick(c) == \E next \in Pid0 : TickTo(c, next)

(* The end of irq_timer_isr: mov cr3, then iretq. *)
SwitchCr3(c) ==
    /\ loaded[c] # Cr3(cur[c])
    /\ loaded' = [loaded EXCEPT ![c] = Cr3(cur[c])]
    /\ UNCHANGED <<state, why, id, arg, pc, running_on, cur, kinVars, status, pending, tables>>

(* Another interrupt ends the halt of the wait loop, whatever the state. *)
DeviceIrq(c) ==
    /\ c \in MsiCore /\ cur[c] # 0 /\ pc[cur[c]] = "hlt"
    /\ loaded[c] = Cr3(cur[c])
    /\ pc' = [pc EXCEPT ![cur[c]] = "loop"]
    /\ UNCHANGED <<state, why, id, arg, coreVars, kinVars, status, pending, tables>>

----------------------------------------------------------------------------
TaskStep(c, p) ==
    \/ SpawnUserProcess(c, p)
    \/ \E det \in BOOLEAN : SpawnUserThread(c, p, det)
    \/ \E i \in Pid0 : Wait(c, p, i)
    \/ \E t \in Pid : \/ TryWait(c, p, t)
                      \/ ThreadDetach(c, p, t)
                      \/ \E n \in Pid : Reparent(c, p, t, n)
    \/ ExitProcess(c, p)

SendSignal(p) == SendKill(p) \/ SendTerm(p) \/ SendStop(p) \/ SendCont(p)

Next ==
    \/ \E c \in Core : \/ SpawnUserProcess(c, 0)
                       \/ \E p \in Pid : TaskStep(c, p) \/ WaitAgain(c, p)
                       \/ Tick(c) \/ SwitchCr3(c) \/ DeviceIrq(c)
    \/ \E p \in Pid : SendSignal(p)

Spec == Init /\ [][Next]_vars

(* Cores keep taking ticks and finish the interrupts and the kernel code    *)
(* they are in; pick_next leaves no ready task out for ever, which is the   *)
(* subject of PickNext.                                                     *)
FairSpec ==
    /\ Spec
    /\ \A c \in Core : WF_vars(Tick(c)) /\ WF_vars(SwitchCr3(c))
    /\ \A c \in Core, p \in Pid : WF_vars(WaitAgain(c, p))
    /\ \A p \in Pid : SF_vars(\E c \in Core : TickTo(c, p))

----------------------------------------------------------------------------
(* Properties. *)

(* A task is on at most one core, and a core and the process table agree    *)
(* on who runs where; a Running task is on a core.  No two cores ever pick  *)
(* the same task, however wakes, signals and ticks fall.                    *)
OnOneCore ==
    /\ \A p \in Pid, c \in Core : cur[c] = p <=> running_on[p] = c
    /\ \A p \in Pid : state[p] = "Running" => running_on[p] # NoCore

(* A slot is reaped, and its kernel stack freed, only once no core has it   *)
(* as its current task.                                                     *)
FreedOffCore == \A c \in Core : cur[c] # 0 => ~IsFree(cur[c])

(* A wait that names a task sleeps only while that task is alive: its end   *)
(* wakes every waiter, parent or sibling thread, before it can be reaped.   *)
WaitTargetLive ==
    \A p \in Pid : state[p] = "Blocked" /\ why[p] = "WaitChild" /\ id[p] # 0
                   => state[id[p]] \in Alive

(* A child of p itself, or a thread of its group.                           *)
OwnKin(p, t) == parent[t] = p \/ (leader[t] # 0 /\ leader[t] = LeaderOf(p))

(* A wait for any child does not sleep while a child of its caller or a     *)
(* thread of its group is a zombie.  can_reap offers it more: the children  *)
(* of whoever had the slot of a sibling thread before, without a wake when  *)
(* the slot changes hands.  sys_reparent gives no wake either, so this is   *)
(* for programs without it.                                                 *)
AnyWaitCovered ==
    \A p \in Pid : state[p] = "Blocked" /\ why[p] = "WaitChild" /\ id[p] = 0
                   => \A t \in Pid : OwnKin(p, t) => state[t] # "Zombie"

(* A wait for a task that has ended returns (or its caller ends too).       *)
WaitEnds ==
    \A p, t \in Pid :
        (state[t] = "Zombie" /\ arg[p] = t /\ pc[p] \in {"hlt", "loop"})
        ~> (pc[p] = "user" \/ state[p] \notin Alive)

=============================================================================
