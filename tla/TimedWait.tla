------------------------------ MODULE TimedWait ------------------------------
(***************************************************************************)
(* The kernel's blocking primitives and the ways out of them: SYS_SLEEP,   *)
(* FUTEX_WAIT / FUTEX_WAKE, the readiness park used by epoll and blocking  *)
(* sockets, the deadline scan of the timer tick, signals, and exit with    *)
(* CLONE_CHILD_CLEARTID.                                                   *)
(*                                                                         *)
(*   morpheus-kernel/src/schedular/{wait,wake,tick,lifecycle,state}.rs     *)
(*   morpheus-kernel/src/syscall/handler/sync.rs                           *)
(*   morpheus-kernel/src/io/readiness.rs                                   *)
(*                                                                         *)
(* Everything done under PROCESS_TABLE_LOCK is one step.  A syscall runs   *)
(* with interrupts off, so its core takes no tick until it halts or        *)
(* returns; the other cores do interleave.  Ready and Running are one      *)
(* state here, "Runnable": which runnable task a tick picks is Scheduler's *)
(* subject.  TSC_MAX stands for u64::MAX and ends the model's clock;       *)
(* MaxCount caps the timed-block counter, which code paths that forget to  *)
(* decrement it could otherwise push up for ever.                          *)
(***************************************************************************)
EXTENDS Integers, FiniteSets

CONSTANTS
    Pid,          \* task slots other than pid 0
    Core,
    NoTask,       \* what a core runs when it runs no task of Pid: pid 0 or idle
    Space,        \* address spaces
    space,        \* [Pid -> Space]: address space of the occupant of a slot
    Addr,         \* futex words, as virtual addresses
    NoAddr,
    Val, Zero,    \* futex word values; CLEARTID stores Zero
    Bucket, futex_bucket,   \* [Addr -> Bucket]: (addr >> 2) & 0xFF
    ctid_ptr,     \* [Pid -> Addr \cup {NoAddr}]
    Token,        \* readiness tokens
    Backend, NoToken,  \* actors that publish readiness, and "publishing nothing"
    SleepFor, Timeout, \* durations asked of SYS_SLEEP and of timed waits
    Signal,       \* signals the environment sends
    MsiCore,      \* cores that also take the xHCI interrupt
    TSC_MAX, MaxCount

ASSUME ConstantsAssumption ==
    /\ IsFiniteSet(Pid) /\ NoTask \notin Pid
    /\ space \in [Pid -> Space]
    /\ NoAddr \notin Addr \cup Token /\ NoToken \notin Token
    /\ Addr \cap Token = {}
    /\ Zero \in Val
    /\ futex_bucket \in [Addr -> Bucket]
    /\ ctid_ptr \in [Pid -> Addr \cup {NoAddr}]
    /\ SleepFor \cup Timeout \subseteq Nat
    /\ Signal \subseteq {"SIGKILL", "SIGSTOP", "SIGCONT"}
    /\ MsiCore \subseteq Core
    /\ TSC_MAX \in Nat \ {0} /\ MaxCount \in Nat

VARIABLES
    now,               \* the TSC
    cur,               \* per-core current_pid
    state, why,        \* ProcessState; BlockReason of a Blocked task
    arg,               \* the address or token the wait names (NoAddr: a sleep)
    dl,                \* the deadline the wait was asked for (0: forever)
    futex_deadline, futex_timed_out,
    pc,                \* where the task is inside the kernel
    pending,           \* pending_signals, restricted to SIGKILL and SIGSTOP
    FUTEX_WAITERS,     \* per-bucket pid bitsets
    TIMED_BLOCK_COUNT, EARLIEST_DEADLINE,
    mem, expect,       \* futex words; value a waiter was enqueued with
    owed,              \* per word: tasks that stored to it and still owe a wake-all
    mask, publishing   \* readiness level per token; token whose wake scan is due

vars == <<now, cur, state, why, arg, dl, futex_deadline, futex_timed_out, pc,
          pending, FUTEX_WAITERS, TIMED_BLOCK_COUNT, EARLIEST_DEADLINE, mem,
          expect, owed, mask, publishing>>

(* What a park, a wake and a signal leave alone. *)
userVars  == <<mem, expect, owed>>
ioVars    == <<mask, publishing>>
timerVars == <<TIMED_BLOCK_COUNT, EARLIEST_DEADLINE>>

Word == Space \X Addr

TypeOK ==
    /\ now \in 1..TSC_MAX
    /\ cur \in [Core -> Pid \cup {NoTask}]
    /\ state \in [Pid -> {"Free", "Runnable", "Blocked", "Zombie"}]
    /\ why \in [Pid -> {"Io", "Sleep", "FutexWait", "IoReady"}]
    /\ arg \in [Pid -> Addr \cup Token \cup {NoAddr}]
    /\ dl \in [Pid -> 0..TSC_MAX]
    /\ futex_deadline \in [Pid -> 0..TSC_MAX]
    /\ futex_timed_out \in [Pid -> BOOLEAN]
    /\ pc \in [Pid -> {"user", "hlt", "ret", "exitWake", "exitTerm", "dead"}]
    /\ pending \in [Pid -> SUBSET {"SIGKILL", "SIGSTOP"}]
    /\ FUTEX_WAITERS \in [Bucket -> SUBSET Pid]
    /\ TIMED_BLOCK_COUNT \in Int
    /\ EARLIEST_DEADLINE \in 1..TSC_MAX
    /\ mem \in [Word -> Val]
    /\ expect \in [Pid -> Val]
    /\ owed \in [Word -> SUBSET Pid]
    /\ mask \in [Token -> BOOLEAN]
    /\ publishing \in [Backend -> Token \cup {NoToken}]

Init ==
    /\ now = 1
    /\ cur = [c \in Core |-> NoTask]
    /\ state = [p \in Pid |-> "Free"]
    /\ why = [p \in Pid |-> "Io"]
    /\ arg = [p \in Pid |-> NoAddr]
    /\ dl = [p \in Pid |-> 0]
    /\ futex_deadline = [p \in Pid |-> 0]
    /\ futex_timed_out = [p \in Pid |-> FALSE]
    /\ pc = [p \in Pid |-> "user"]
    /\ pending = [p \in Pid |-> {}]
    /\ FUTEX_WAITERS = [b \in Bucket |-> {}]
    /\ TIMED_BLOCK_COUNT = 0
    /\ EARLIEST_DEADLINE = TSC_MAX
    /\ mem \in [Word -> Val]
    /\ expect = [p \in Pid |-> Zero]
    /\ owed = [w \in Word |-> {}]
    /\ mask = [t \in Token |-> FALSE]
    /\ publishing = [b \in Backend |-> NoToken]

----------------------------------------------------------------------------
(* running_on[p] # u32::MAX *)
OnCore(p) == \E c \in Core : cur[c] = p

(* p executes instructions: on a core and not inside hlt. *)
Executing(p, at) == OnCore(p) /\ pc[p] = at

BlockedOn(p, reason) == state[p] = "Blocked" /\ why[p] = reason

WordOf(p, a) == <<space[p], a>>

Saturating(t) == IF t > TSC_MAX THEN TSC_MAX ELSE t

(* clear_waiter_all, as far as this module's bitsets go *)
ClearWaiterAll(p) == [b \in Bucket |-> FUTEX_WAITERS[b] \ {p}]

----------------------------------------------------------------------------
(* Entering a wait. *)

(* Variant: the deadline is stored without the minimum. *)
ArmDeadlineNoMin(d) ==
    /\ TIMED_BLOCK_COUNT < MaxCount
    /\ TIMED_BLOCK_COUNT' = TIMED_BLOCK_COUNT + 1
    /\ EARLIEST_DEADLINE' = d

(* TIMED_BLOCK_COUNT.fetch_add and the compare_exchange minimum loop *)
ArmDeadline(d) ==
    /\ TIMED_BLOCK_COUNT < MaxCount
    /\ TIMED_BLOCK_COUNT' = TIMED_BLOCK_COUNT + 1
    /\ EARLIEST_DEADLINE' = IF d < EARLIEST_DEADLINE THEN d ELSE EARLIEST_DEADLINE

Park(p, reason, a, d) ==
    /\ state' = [state EXCEPT ![p] = "Blocked"]
    /\ why' = [why EXCEPT ![p] = reason]
    /\ arg' = [arg EXCEPT ![p] = a]
    /\ dl' = [dl EXCEPT ![p] = d]
    /\ pc' = [pc EXCEPT ![p] = "hlt"]

BlockSleep(p, millis) ==
    /\ Executing(p, "user")
    /\ millis # 0
    /\ Park(p, "Sleep", NoAddr, Saturating(now + millis))
    /\ ArmDeadline(Saturating(now + millis))
    /\ UNCHANGED <<now, cur, futex_deadline, futex_timed_out, pending,
                   FUTEX_WAITERS, userVars, ioVars>>

(* Variant: the deadline is stored but never counted. *)
ArmFutexDeadlineUncounted(p, d) ==
    /\ futex_deadline' = [futex_deadline EXCEPT ![p] = IF d # 0 THEN d ELSE @]
    /\ UNCHANGED timerVars

(* The tail futex and readiness waits share: d = 0 leaves futex_deadline as *)
(* the previous wait left it.                                              *)
ArmFutexDeadline(p, d) ==
    IF d # 0
    THEN /\ futex_deadline' = [futex_deadline EXCEPT ![p] = d]
         /\ ArmDeadline(d)
    ELSE UNCHANGED <<futex_deadline, timerVars>>

(* Variant: the word is not read again under the lock. *)
FutexParkNoRecheck(p, a, v, d) ==
    /\ Executing(p, "user")
    /\ futex_timed_out' = [futex_timed_out EXCEPT ![p] = FALSE]
    /\ FUTEX_WAITERS' = [FUTEX_WAITERS EXCEPT ![futex_bucket[a]] = @ \cup {p}]
    /\ expect' = [expect EXCEPT ![p] = v]
    /\ Park(p, "FutexWait", a, d)
    /\ ArmFutexDeadline(p, d)
    /\ UNCHANGED <<now, cur, pending, mem, owed, ioVars>>

FutexPark(p, a, v, d) ==
    /\ Executing(p, "user")
    /\ mem[WordOf(p, a)] = v
    /\ futex_timed_out' = [futex_timed_out EXCEPT ![p] = FALSE]
    /\ FUTEX_WAITERS' = [FUTEX_WAITERS EXCEPT ![futex_bucket[a]] = @ \cup {p}]
    /\ expect' = [expect EXCEPT ![p] = v]
    /\ Park(p, "FutexWait", a, d)
    /\ ArmFutexDeadline(p, d)
    /\ UNCHANGED <<now, cur, pending, mem, owed, ioVars>>

(* A mismatch returns EAGAIN and changes nothing, hence no action for it. *)
FutexWait(p, a, v) ==
    \/ FutexPark(p, a, v, 0)
    \/ \E delay \in Timeout : FutexPark(p, a, v, Saturating(now + delay))

(* Variant: the level is not read again under the lock. *)
ReadyParkNoRecheck(p, t, d) ==
    /\ futex_timed_out' = [futex_timed_out EXCEPT ![p] = FALSE]
    /\ Park(p, "IoReady", t, d)
    /\ ArmFutexDeadline(p, d)
    /\ UNCHANGED <<now, cur, pending, FUTEX_WAITERS, userVars, ioVars>>

(* One turn of the wait_ready loop: re-read the mask under the lock, park. *)
ReadyPark(p, t, d) ==
    /\ ~mask[t]
    /\ futex_timed_out' = [futex_timed_out EXCEPT ![p] = FALSE]
    /\ Park(p, "IoReady", t, d)
    /\ ArmFutexDeadline(p, d)
    /\ UNCHANGED <<now, cur, pending, FUTEX_WAITERS, userVars, ioVars>>

WaitReady(p, t) ==
    /\ Executing(p, "user")
    /\ \/ ReadyPark(p, t, 0)
       \/ \E delay \in Timeout : ReadyPark(p, t, Saturating(now + delay))

----------------------------------------------------------------------------
(* Leaving a wait: wakers. *)

Runnable(W) == [p \in Pid |-> IF p \in W THEN "Runnable" ELSE state[p]]

(* Variant: the counter is decremented for untimed waits too. *)
CancelDeadlinesAll(W) ==
    /\ futex_deadline' = [p \in Pid |-> IF p \in W THEN 0 ELSE futex_deadline[p]]
    /\ TIMED_BLOCK_COUNT' = TIMED_BLOCK_COUNT - Cardinality(W)
    /\ UNCHANGED EARLIEST_DEADLINE

(* What FUTEX_WAKE and wake_token do to the tasks W they wake: a pending   *)
(* deadline is cancelled and the counter gives one back for it.            *)
CancelDeadlines(W) ==
    /\ futex_deadline' = [p \in Pid |-> IF p \in W THEN 0 ELSE futex_deadline[p]]
    /\ TIMED_BLOCK_COUNT' = TIMED_BLOCK_COUNT
                            - Cardinality({p \in W : futex_deadline[p] # 0})
    /\ UNCHANGED EARLIEST_DEADLINE

FutexMatching(a) ==
    {p \in FUTEX_WAITERS[futex_bucket[a]] : BlockedOn(p, "FutexWait") /\ arg[p] = a}

(* Variant: the wake empties the bucket instead of taking out whom it woke. *)
WakeFutexWaitersClearBucket(a, W) ==
    /\ state' = Runnable(W)
    /\ CancelDeadlines(W)
    /\ FUTEX_WAITERS' = [FUTEX_WAITERS EXCEPT ![futex_bucket[a]] = {}]

(* The bitset is walked in pid order; slots are unordered here, so a wake  *)
(* of one may reach any one of the matching waiters.                       *)
WakeFutexWaiters(a, W) ==
    /\ state' = Runnable(W)
    /\ CancelDeadlines(W)
    /\ FUTEX_WAITERS' = [FUTEX_WAITERS EXCEPT ![futex_bucket[a]] = @ \ W]

FutexWakeAll(p, a) ==
    /\ Executing(p, "user")
    /\ WakeFutexWaiters(a, FutexMatching(a))
    /\ owed' = [owed EXCEPT ![WordOf(p, a)] = @ \ {p}]
    /\ UNCHANGED <<now, cur, why, arg, dl, futex_timed_out, pc, pending, mem,
                   expect, ioVars>>

FutexWakeOne(p, a) ==
    /\ Executing(p, "user")
    /\ \E q \in FutexMatching(a) : WakeFutexWaiters(a, {q})
    /\ UNCHANGED <<now, cur, why, arg, dl, futex_timed_out, pc, pending,
                   userVars, ioVars>>

(* A user-mode store to a futex word; the storer then owes a wake. *)
Store(p, a, v) ==
    /\ Executing(p, "user")
    /\ mem[WordOf(p, a)] # v
    /\ mem' = [mem EXCEPT ![WordOf(p, a)] = v]
    /\ owed' = [owed EXCEPT ![WordOf(p, a)] = @ \cup {p}]
    /\ UNCHANGED <<now, cur, state, why, arg, dl, futex_deadline, futex_timed_out,
                   pc, pending, FUTEX_WAITERS, timerVars, expect, ioVars>>

(* set_ready, up to its wake scan: the lock-free OR of the mask. *)
SetReady(b, t) ==
    /\ publishing[b] = NoToken
    /\ mask' = [mask EXCEPT ![t] = TRUE]
    /\ publishing' = [publishing EXCEPT ![b] = t]
    /\ UNCHANGED <<now, cur, state, why, arg, dl, futex_deadline, futex_timed_out,
                   pc, pending, FUTEX_WAITERS, timerVars, userVars>>

(* replace_ready with the level low; with the level high it is SetReady. *)
ReplaceReady(b, t) ==
    /\ publishing[b] = NoToken
    /\ mask' = [mask EXCEPT ![t] = FALSE]
    /\ publishing' = [publishing EXCEPT ![b] = t]
    /\ UNCHANGED <<now, cur, state, why, arg, dl, futex_deadline, futex_timed_out,
                   pc, pending, FUTEX_WAITERS, timerVars, userVars>>

(* clear_ready: no wake, no lock. *)
ClearReady(t) ==
    /\ mask' = [mask EXCEPT ![t] = FALSE]
    /\ UNCHANGED <<now, cur, state, why, arg, dl, futex_deadline, futex_timed_out,
                   pc, pending, FUTEX_WAITERS, timerVars, userVars, publishing>>

WakeToken(b) ==
    /\ publishing[b] # NoToken
    /\ LET W == {p \in Pid : BlockedOn(p, "IoReady") /\ arg[p] = publishing[b]}
       IN  state' = Runnable(W) /\ CancelDeadlines(W)
    /\ publishing' = [publishing EXCEPT ![b] = NoToken]
    /\ UNCHANGED <<now, cur, why, arg, dl, futex_timed_out, pc, pending,
                   FUTEX_WAITERS, userVars, mask>>

----------------------------------------------------------------------------
(* Returning from a wait: the code after halt_wait_irq. *)

ReturnTo(p, at) == pc' = [pc EXCEPT ![p] = at]

(* Back in user mode.  The locals of the call are dead unless the process  *)
(* table still has the task Blocked, when they are its BlockReason.        *)
EndCall(p) ==
    /\ ReturnTo(p, "user")
    /\ IF state[p] = "Blocked"
       THEN UNCHANGED <<why, arg, dl, expect>>
       ELSE /\ why' = [why EXCEPT ![p] = "Io"]
            /\ arg' = [arg EXCEPT ![p] = NoAddr]
            /\ dl' = [dl EXCEPT ![p] = 0]
            /\ expect' = [expect EXCEPT ![p] = Zero]

ReturnSleep(p) ==
    /\ Executing(p, "ret") /\ arg[p] = NoAddr
    /\ EndCall(p)
    /\ UNCHANGED <<now, cur, state, futex_deadline, futex_timed_out, pending,
                   FUTEX_WAITERS, timerVars, mem, owed, ioVars>>

(* 0 when woken, -ETIMEDOUT when the flag says so; either way the call ends. *)
ReturnFutex(p) ==
    /\ Executing(p, "ret") /\ arg[p] \in Addr
    /\ futex_timed_out' = [futex_timed_out EXCEPT ![p] = FALSE]
    /\ EndCall(p)
    /\ UNCHANGED <<now, cur, state, futex_deadline, pending, FUTEX_WAITERS,
                   timerVars, mem, owed, ioVars>>

(* wait_ready is the one that loops: it re-checks the level and re-parks. *)
ReturnReady(p) ==
    /\ Executing(p, "ret") /\ arg[p] \in Token
    /\ \/ /\ futex_timed_out[p] \/ mask[arg[p]]
          /\ futex_timed_out' = [futex_timed_out EXCEPT ![p] = FALSE]
          /\ EndCall(p)
          /\ UNCHANGED <<now, cur, state, futex_deadline, pending, FUTEX_WAITERS,
                         timerVars, mem, owed, ioVars>>
       \/ ~futex_timed_out[p] /\ ReadyPark(p, arg[p], dl[p])

----------------------------------------------------------------------------
(* The timer tick. *)

(* The deadline wake_expired_sleepers compares with the clock; 0: none. *)
DeadlineOf(p) ==
    IF state[p] # "Blocked" THEN 0
    ELSE IF why[p] = "Sleep" THEN dl[p]
    ELSE IF why[p] \in {"FutexWait", "IoReady"} THEN futex_deadline[p]
    ELSE 0

ScanDue == TIMED_BLOCK_COUNT # 0 /\ now >= EARLIEST_DEADLINE

(* The deadline scan over the tasks of P (the others were just stopped or  *)
(* killed by this tick), and what it does to the set Woken it wakes.       *)
Expired(P) == {p \in P : ScanDue /\ DeadlineOf(p) # 0 /\ now >= DeadlineOf(p)}

StillTimed(P) == {p \in P : DeadlineOf(p) > now}

WakeExpiredSleepers(P, Woken) ==
    LET Flagged == {p \in Woken : why[p] # "Sleep"}
        ahead == {DeadlineOf(p) : p \in StillTimed(P)} \cup {TSC_MAX}
    IN  /\ futex_deadline' = [p \in Pid |-> IF p \in Flagged THEN 0 ELSE futex_deadline[p]]
        /\ futex_timed_out' = [p \in Pid |-> p \in Flagged \/ futex_timed_out[p]]
        /\ TIMED_BLOCK_COUNT' = TIMED_BLOCK_COUNT - Cardinality(Woken)
        /\ \E d \in ahead :
              /\ \A e \in ahead : d <= e
              /\ EARLIEST_DEADLINE' = IF ScanDue THEN d ELSE EARLIEST_DEADLINE

(* cleanup_stale_waiters, run by core 0 every STALE_WAITER_CLEANUP_INTERVAL *)
Stale == {p \in Pid : ~BlockedOn(p, "FutexWait")}

(* The bits one tick clears: stale ones when the sweep runs, everything of  *)
(* a stopped or killed task, and the bit of an expired futex wait.          *)
TickWaiters(sweep, Gone, Woken) ==
    [b \in Bucket |->
        {p \in FUTEX_WAITERS[b] :
            /\ ~(sweep /\ p \in Stale)
            /\ p \notin Gone
            /\ ~(p \in Woken /\ why[p] = "FutexWait" /\ futex_bucket[arg[p]] = b)}]

(* What a tick that dispatches next on core c does, once it has delivered   *)
(* the pending signal of the task it takes off (Killed, Stopped).           *)
TickEffect(c, sweep, next, Killed, Stopped) ==
    LET Rest  == Pid \ (Killed \cup Stopped)
        Woken == Expired(Rest)
    IN  /\ WakeExpiredSleepers(Rest, Woken)
        /\ state' = [p \in Pid |-> IF p \in Killed THEN "Zombie"
                                   ELSE IF p \in Stopped THEN "Blocked"
                                   ELSE IF p \in Woken THEN "Runnable"
                                   ELSE state[p]]
        /\ why' = [p \in Pid |-> IF p \in Stopped THEN "Io" ELSE why[p]]
        /\ pending' = [p \in Pid |-> IF p \in Killed THEN pending[p] \ {"SIGKILL"}
                                     ELSE IF p \in Stopped THEN pending[p] \ {"SIGSTOP"}
                                     ELSE pending[p]]
        /\ FUTEX_WAITERS' = TickWaiters(sweep, Killed \cup Stopped, Woken)
        /\ next # NoTask => /\ state'[next] = "Runnable"
                            /\ \A d \in Core \ {c} : cur[d] # next
        /\ cur' = [cur EXCEPT ![c] = next]
        /\ pc' = [p \in Pid |-> IF p = next /\ pc[p] = "hlt" THEN "ret" ELSE pc[p]]
        /\ UNCHANGED <<now, arg, dl, userVars, ioVars>>

(* scheduler_tick on core c, which a syscall keeps out until it halts.     *)
(* deliver_pending_signals is skipped while the task is inside a signal    *)
(* handler, which this module leaves open: Taken is the task whose pending *)
(* signals are delivered, or nobody.                                       *)
Tick(c) ==
    /\ cur[c] # NoTask => pc[cur[c]] \in {"user", "hlt", "dead"}
    /\ \E sweep \in BOOLEAN, next \in Pid \cup {NoTask},
          Taken \in {{}, {p \in Pid : p = cur[c] /\ pending[p] # {}}} :
          LET Raised(sig) == {p \in Taken : sig \in pending[p]}
          IN  TickEffect(c, sweep, next, Raised("SIGKILL"),
                         Raised("SIGSTOP") \ Raised("SIGKILL"))

(* An xHCI interrupt ends the hlt of the task parked on its core, whatever *)
(* that task's state: the handler does not enter the scheduler.            *)
DeviceIrq(c) ==
    /\ c \in MsiCore
    /\ cur[c] # NoTask
    /\ pc[cur[c]] = "hlt"
    /\ pc' = [pc EXCEPT ![cur[c]] = "ret"]
    /\ UNCHANGED <<now, cur, state, why, arg, dl, futex_deadline, futex_timed_out,
                   pending, FUTEX_WAITERS, timerVars, userVars, ioVars>>

Clock ==
    /\ now < TSC_MAX
    /\ now' = now + 1
    /\ UNCHANGED <<cur, state, why, arg, dl, futex_deadline, futex_timed_out, pc,
                   pending, FUTEX_WAITERS, timerVars, userVars, ioVars>>

----------------------------------------------------------------------------
(* Signals, exit, and the life of a slot. *)

(* terminate_process_inner, as far as this module's state goes: the timed  *)
(* bookkeeping of a task that dies while blocked is left as it was.        *)
Terminate(p) ==
    /\ state' = [state EXCEPT ![p] = "Zombie"]
    /\ FUTEX_WAITERS' = ClearWaiterAll(p)
    /\ UNCHANGED <<now, cur, why, arg, dl, futex_deadline, futex_timed_out,
                   pending, timerVars, userVars, ioVars>>

RaisePending(p, sig) ==
    /\ pending' = [pending EXCEPT ![p] = @ \cup {sig}]
    /\ UNCHANGED <<now, cur, state, why, arg, dl, futex_deadline, futex_timed_out,
                   pc, FUTEX_WAITERS, timerVars, userVars, ioVars>>

SendKill(p) ==
    /\ "SIGKILL" \in Signal /\ state[p] # "Free"
    /\ IF OnCore(p) THEN RaisePending(p, "SIGKILL") ELSE Terminate(p) /\ UNCHANGED pc

SendStop(p) ==
    /\ "SIGSTOP" \in Signal /\ state[p] # "Free"
    /\ IF OnCore(p)
       THEN RaisePending(p, "SIGSTOP")
       ELSE /\ state' = [state EXCEPT ![p] = "Blocked"]
            /\ why' = [why EXCEPT ![p] = "Io"]
            /\ FUTEX_WAITERS' = ClearWaiterAll(p)
            /\ UNCHANGED <<now, cur, arg, dl, futex_deadline, futex_timed_out, pc,
                           pending, timerVars, userVars, ioVars>>

(* SIGCONT resumes a task from any wait, deadline or not. *)
SendCont(p) ==
    /\ "SIGCONT" \in Signal /\ state[p] = "Blocked"
    /\ state' = [state EXCEPT ![p] = "Runnable"]
    /\ FUTEX_WAITERS' = ClearWaiterAll(p)
    /\ UNCHANGED <<now, cur, why, arg, dl, futex_deadline, futex_timed_out, pc,
                   pending, timerVars, userVars, ioVars>>

(* exit_process: the CLEARTID store, its wake, the transition to Zombie. *)
ExitStart(p) ==
    /\ Executing(p, "user")
    /\ IF ctid_ptr[p] = NoAddr
       THEN ReturnTo(p, "exitTerm") /\ UNCHANGED <<mem, owed>>
       ELSE /\ mem' = [mem EXCEPT ![WordOf(p, ctid_ptr[p])] = Zero]
            /\ owed' = [owed EXCEPT ![WordOf(p, ctid_ptr[p])] = @ \cup {p}]
            /\ ReturnTo(p, "exitWake")
    /\ UNCHANGED <<now, cur, state, why, arg, dl, futex_deadline, futex_timed_out,
                   pending, FUTEX_WAITERS, timerVars, expect, ioVars>>

ExitWake(p) ==
    /\ Executing(p, "exitWake")
    /\ WakeFutexWaiters(ctid_ptr[p], FutexMatching(ctid_ptr[p]))
    /\ owed' = [owed EXCEPT ![WordOf(p, ctid_ptr[p])] = @ \ {p}]
    /\ ReturnTo(p, "exitTerm")
    /\ UNCHANGED <<now, cur, why, arg, dl, futex_timed_out, pending, mem, expect,
                   ioVars>>

(* After it the task only halts, in a loop it never leaves. *)
ExitTerm(p) == Executing(p, "exitTerm") /\ Terminate(p) /\ ReturnTo(p, "dead")

(* Reaping needs the task off its core.  Nothing reads the fields of a free *)
(* slot before Process::empty() overwrites them for the next occupant, so   *)
(* the reset is placed here.                                                *)
Reap(p) ==
    /\ state[p] = "Zombie" /\ ~OnCore(p)
    /\ state' = [state EXCEPT ![p] = "Free"]
    /\ why' = [why EXCEPT ![p] = "Io"]
    /\ arg' = [arg EXCEPT ![p] = NoAddr]
    /\ dl' = [dl EXCEPT ![p] = 0]
    /\ futex_deadline' = [futex_deadline EXCEPT ![p] = 0]
    /\ futex_timed_out' = [futex_timed_out EXCEPT ![p] = FALSE]
    /\ pending' = [pending EXCEPT ![p] = {}]
    /\ pc' = [pc EXCEPT ![p] = "user"]
    /\ expect' = [expect EXCEPT ![p] = Zero]
    /\ UNCHANGED <<now, cur, FUTEX_WAITERS, timerVars, mem, owed, ioVars>>

Spawn(p) ==
    /\ state[p] = "Free"
    /\ state' = [state EXCEPT ![p] = "Runnable"]
    /\ UNCHANGED <<now, cur, why, arg, dl, futex_deadline, futex_timed_out, pc,
                   pending, FUTEX_WAITERS, timerVars, userVars, ioVars>>

----------------------------------------------------------------------------
TaskStep(p) ==
    \/ \E d \in SleepFor : BlockSleep(p, d)
    \/ \E a \in Addr : \/ \E v \in Val : FutexWait(p, a, v) \/ Store(p, a, v)
                       \/ FutexWakeAll(p, a)
                       \/ FutexWakeOne(p, a)
    \/ \E t \in Token : WaitReady(p, t)
    \/ ExitStart(p)

(* Kernel code that runs on by itself once its core has left hlt. *)
KernelStep(p) ==
    ReturnSleep(p) \/ ReturnFutex(p) \/ ReturnReady(p) \/ ExitWake(p) \/ ExitTerm(p)

Next ==
    \/ \E p \in Pid : TaskStep(p) \/ KernelStep(p) \/ SendKill(p) \/ SendStop(p)
                      \/ SendCont(p) \/ Reap(p) \/ Spawn(p)
    \/ \E b \in Backend : \/ \E t \in Token : SetReady(b, t) \/ ReplaceReady(b, t)
                          \/ WakeToken(b)
    \/ \E t \in Token : ClearReady(t)
    \/ \E c \in Core : Tick(c) \/ DeviceIrq(c)
    \/ Clock

Spec == Init /\ [][Next]_vars

(* A core keeps taking ticks and keeps executing kernel code it has begun; *)
(* the clock runs.  Nothing is assumed of user code, signals or backends.  *)
FairSpec ==
    /\ Spec
    /\ WF_vars(Clock)
    /\ \A c \in Core : WF_vars(Tick(c))
    /\ \A p \in Pid : WF_vars(KernelStep(p))
----------------------------------------------------------------------------
(* Properties. *)

Sleepers == {p \in Pid : BlockedOn(p, "Sleep")}
Armed    == {p \in Pid : futex_deadline[p] # 0}

(* p is in a wait that was given a deadline. *)
Timed(p) == /\ state[p] = "Blocked"
            /\ why[p] \in {"Sleep", "FutexWait", "IoReady"}
            /\ dl[p] # 0

(* TIMED_BLOCK_COUNT never falls below the number of armed deadlines, so   *)
(* its u32 fetch_sub never wraps, whatever mix of timeouts, wakes, signals *)
(* and exits ends the waits.                                               *)
CountCovers ==
    TIMED_BLOCK_COUNT >= Cardinality(Sleepers) + Cardinality(Armed)

(* The two early returns of wake_expired_sleepers never hide a deadline:   *)
(* while some wait has one, the count is not 0, EARLIEST_DEADLINE is not   *)
(* past it, and the deadline the scan reads is the one asked for.          *)
DeadlineCovered ==
    \A p \in Pid : Timed(p) => /\ TIMED_BLOCK_COUNT > 0
                               /\ EARLIEST_DEADLINE <= dl[p]
                               /\ DeadlineOf(p) = dl[p]

(* A task parked on a futex word is in the bitset FUTEX_WAKE walks, through *)
(* every clear_waiter_all, sweep of stale bits and partial wake.            *)
WaiterFindable ==
    \A p \in Pid : BlockedOn(p, "FutexWait") =>
        arg[p] \in Addr /\ p \in FUTEX_WAITERS[futex_bucket[arg[p]]]

(* The futex lost-wakeup claim of sys_futex: a task still parked on a word *)
(* that no longer holds the value it waited on has a wake coming, from a   *)
(* task that changed the word and has not made its wake-all call yet.      *)
NoLostFutexWake ==
    \A p \in Pid : BlockedOn(p, "FutexWait") =>
        \/ mem[WordOf(p, arg[p])] = expect[p]
        \/ owed[WordOf(p, arg[p])] # {}

(* The readiness lost-wakeup claim of io/readiness.rs: a task parked on a  *)
(* token whose level is high has a wake scan coming.                       *)
NoLostReadiness ==
    \A p \in Pid : BlockedOn(p, "IoReady") =>
        /\ arg[p] \in Token
        /\ mask[arg[p]] => \E b \in Backend : publishing[b] = arg[p]

(* Every wait with a deadline ends: the tick and the clock get it out.     *)
TimedWaitEnds == \A p \in Pid : Timed(p) ~> ~Timed(p)

=============================================================================
