--------------------------- MODULE TimedWaitProofs ---------------------------
(* Safety of the blocking waits for every number of tasks, cores, words,   *)
(* tokens and backends.  The properties of TimedWait are conjuncts of one  *)
(* inductive invariant.  Every step keeps the types; the steps are then     *)
(* sorted into a few kinds, from which the other conjuncts are argued.     *)
EXTENDS TimedWait, TLAPS

(* Only a task created with a CLEARTID word reaches the CLEARTID wake. *)
ExitHasCtid == \A p \in Pid : pc[p] = "exitWake" => ctid_ptr[p] # NoAddr

IInv ==
    /\ TypeOK
    /\ ExitHasCtid
    /\ CountCovers
    /\ DeadlineCovered
    /\ WaiterFindable
    /\ NoLostFutexWake
    /\ NoLostReadiness

(* Every set of tasks has a size. *)
Sized == \A S \in SUBSET Pid : Cardinality(S) \in Nat

(* A park in a timed wait keeps the types. *)
LEMMA ArmType ==
    ASSUME TypeOK, NEW p \in Pid, NEW d \in 0..TSC_MAX,
           ArmFutexDeadline(p, d)
    PROVE  /\ futex_deadline' \in [Pid -> 0..TSC_MAX]
           /\ TIMED_BLOCK_COUNT' \in Int
           /\ EARLIEST_DEADLINE' \in 1..TSC_MAX
BY ConstantsAssumption DEF TypeOK, ArmFutexDeadline, ArmDeadline, timerVars

(* Cancelling deadlines keeps the types. *)
LEMMA CancelType ==
    ASSUME Sized, TypeOK, NEW W \in SUBSET Pid, CancelDeadlines(W)
    PROVE  /\ futex_deadline' \in [Pid -> 0..TSC_MAX]
           /\ TIMED_BLOCK_COUNT' \in Int
           /\ EARLIEST_DEADLINE' \in 1..TSC_MAX
<1>1. Cardinality({p \in W : futex_deadline[p] # 0}) \in Nat
    BY DEF Sized
<1>2. QED
    BY <1>1, ConstantsAssumption DEF TypeOK, CancelDeadlines

(* The deadline of a wait fits the clock. *)
LEMMA SaturatingType ==
    ASSUME TypeOK, NEW d \in Nat
    PROVE  Saturating(now + d) \in 1..TSC_MAX
BY ConstantsAssumption DEF TypeOK, Saturating

(* A tick, with the sets of tasks it killed and stopped named. *)
LEMMA TickCases ==
    ASSUME NEW c \in Core, Tick(c)
    PROVE  \E sweep \in BOOLEAN, next \in Pid \cup {NoTask}, K, S \in SUBSET Pid :
              TickEffect(c, sweep, next, K, S)
<1>1. PICK sweep \in BOOLEAN, next \in Pid \cup {NoTask},
           Taken \in {{}, {p \in Pid : p = cur[c] /\ pending[p] # {}}} :
        LET Raised(sig) == {p \in Taken : sig \in pending[p]}
        IN  TickEffect(c, sweep, next, Raised("SIGKILL"),
                       Raised("SIGSTOP") \ Raised("SIGKILL"))
    BY Zenon DEF Tick
<1> DEFINE K == {p \in Taken : "SIGKILL" \in pending[p]}
           S == {p \in Taken : "SIGSTOP" \in pending[p]} \ K
<1>2. TickEffect(c, sweep, next, K, S)
    BY <1>1
<1>3. K \in SUBSET Pid /\ S \in SUBSET Pid
    OBVIOUS
<1>4. QED
    BY <1>2, <1>3

(* The deadlines the scan reads are clock values. *)
LEMMA DeadlineType == TypeOK => \A p \in Pid : DeadlineOf(p) \in 0..TSC_MAX
BY ConstantsAssumption DEF TypeOK, DeadlineOf

(* A tick keeps the types. *)
LEMMA TickType == ASSUME Sized, TypeOK, NEW c \in Core, Tick(c) PROVE TypeOK'
<1> USE ConstantsAssumption
<1>1. PICK sweep \in BOOLEAN, next \in Pid \cup {NoTask}, K, S \in SUBSET Pid :
        TickEffect(c, sweep, next, K, S)
    BY TickCases
<1> DEFINE Rest == Pid \ (K \cup S)
           Woken == Expired(Rest)
<1>2. WakeExpiredSleepers(Rest, Woken)
    BY <1>1 DEF TickEffect
<1>3. Cardinality(Woken) \in Nat
    BY DEF Sized, Expired
<1>4. /\ futex_deadline' \in [Pid -> 0..TSC_MAX]
      /\ futex_timed_out' \in [Pid -> BOOLEAN]
      /\ TIMED_BLOCK_COUNT' \in Int
    <2> HIDE DEF Rest, Woken
    <2> QED
        BY <1>2, <1>3 DEF TypeOK, WakeExpiredSleepers
<1>5. EARLIEST_DEADLINE' \in 1..TSC_MAX
    BY <1>2, DeadlineType DEF TypeOK, WakeExpiredSleepers, StillTimed
<1>6. FUTEX_WAITERS' \in [Bucket -> SUBSET Pid]
    BY <1>1 DEF TypeOK, TickEffect, TickWaiters
<1>7. /\ state' \in [Pid -> {"Free", "Runnable", "Blocked", "Zombie"}]
      /\ why' \in [Pid -> {"Io", "Sleep", "FutexWait", "IoReady"}]
      /\ pending' \in [Pid -> SUBSET {"SIGKILL", "SIGSTOP"}]
      /\ cur' \in [Core -> Pid \cup {NoTask}]
      /\ pc' \in [Pid -> {"user", "hlt", "ret", "exitWake", "exitTerm", "dead"}]
    BY <1>1, Zenon DEF TypeOK, TickEffect
<1>8. QED
    BY <1>1, <1>4, <1>5, <1>6, <1>7, Zenon DEF TypeOK, TickEffect, userVars, ioVars

(* Every step keeps the types. *)
LEMMA TypeStep == Sized /\ TypeOK /\ ExitHasCtid /\ [Next]_vars => TypeOK'
<1> SUFFICES ASSUME Sized, TypeOK, ExitHasCtid, [Next]_vars PROVE TypeOK'
    OBVIOUS
<1> USE ConstantsAssumption
<1>1. ASSUME NEW p \in Pid, NEW d \in SleepFor, BlockSleep(p, d) PROVE TypeOK'
    <2>1. Saturating(now + d) \in 1..TSC_MAX
        BY SaturatingType, Zenon
    <2>2. QED
        BY <1>1, <2>1 DEF TypeOK, BlockSleep, Park, ArmDeadline, userVars, ioVars
<1>2. ASSUME NEW p \in Pid, NEW a \in Addr, NEW v \in Val, FutexWait(p, a, v)
      PROVE TypeOK'
    <2>1. PICK d \in 0..TSC_MAX : FutexPark(p, a, v, d)
        BY <1>2, SaturatingType DEF FutexWait
    <2>2. ArmFutexDeadline(p, d)
        BY <2>1 DEF FutexPark
    <2>3. QED
        BY <2>1, <2>2, ArmType DEF TypeOK, FutexPark, Park, ioVars
<1>3. ASSUME NEW p \in Pid, NEW t \in Token, NEW d \in 0..TSC_MAX, ReadyPark(p, t, d)
      PROVE TypeOK'
    <2>1. ArmFutexDeadline(p, d)
        BY <1>3 DEF ReadyPark
    <2>2. QED
        BY <1>3, <2>1, ArmType DEF TypeOK, ReadyPark, Park, userVars, ioVars
<1>4. ASSUME NEW p \in Pid, NEW t \in Token, WaitReady(p, t) PROVE TypeOK'
    BY <1>3, <1>4, SaturatingType DEF WaitReady
<1>5. ASSUME NEW p \in Pid, NEW a \in Addr, NEW W \in SUBSET Pid,
             WakeFutexWaiters(a, W)
      PROVE  /\ state' \in [Pid -> {"Free", "Runnable", "Blocked", "Zombie"}]
             /\ futex_deadline' \in [Pid -> 0..TSC_MAX]
             /\ TIMED_BLOCK_COUNT' \in Int
             /\ EARLIEST_DEADLINE' \in 1..TSC_MAX
             /\ FUTEX_WAITERS' \in [Bucket -> SUBSET Pid]
    <2>1. CancelDeadlines(W)
        BY <1>5 DEF WakeFutexWaiters
    <2>2. QED
        BY <1>5, <2>1, CancelType DEF TypeOK, WakeFutexWaiters, Runnable
<1>6. \A a \in Addr : FutexMatching(a) \in SUBSET Pid
    BY DEF TypeOK, FutexMatching
<1>7. ASSUME NEW p \in Pid, NEW a \in Addr, FutexWakeAll(p, a) PROVE TypeOK'
    BY <1>5, <1>6, <1>7 DEF TypeOK, FutexWakeAll, ioVars, WordOf, Word
<1>8. ASSUME NEW p \in Pid, NEW a \in Addr, FutexWakeOne(p, a) PROVE TypeOK'
    <2>1. PICK q \in FutexMatching(a) : WakeFutexWaiters(a, {q})
        BY <1>8, Zenon DEF FutexWakeOne
    <2>2. {q} \in SUBSET Pid
        BY <1>6, Zenon
    <2>3. QED
        BY <1>5, <1>8, <2>1, <2>2 DEF TypeOK, FutexWakeOne, userVars, ioVars
<1>9. ASSUME NEW p \in Pid, NEW a \in Addr, NEW v \in Val, Store(p, a, v) PROVE TypeOK'
    BY <1>9 DEF TypeOK, Store, timerVars, ioVars, WordOf, Word
<1>10. ASSUME NEW p \in Pid, ExitStart(p) PROVE TypeOK'
    <2>1. CASE ctid_ptr[p] = NoAddr
        BY <1>10, <2>1 DEF TypeOK, ExitStart, ReturnTo, timerVars, ioVars
    <2>2. CASE ctid_ptr[p] # NoAddr
        <3>1. WordOf(p, ctid_ptr[p]) \in Word
            BY <2>2 DEF WordOf, Word
        <3>2. mem' \in [Word -> Val]
            BY <1>10, <2>2, <3>1 DEF TypeOK, ExitStart
        <3>3. owed' \in [Word -> SUBSET Pid]
            BY <1>10, <2>2, <3>1 DEF TypeOK, ExitStart
        <3>4. pc' \in [Pid -> {"user", "hlt", "ret", "exitWake", "exitTerm", "dead"}]
            BY <1>10, <2>2 DEF TypeOK, ExitStart, ReturnTo
        <3>5. QED
            BY <1>10, <3>2, <3>3, <3>4 DEF TypeOK, ExitStart, timerVars, ioVars
    <2>3. QED
        BY <2>1, <2>2
<1>11. ASSUME NEW p \in Pid, EndCall(p)
       PROVE  /\ pc' \in [Pid -> {"user", "hlt", "ret", "exitWake", "exitTerm", "dead"}]
              /\ why' \in [Pid -> {"Io", "Sleep", "FutexWait", "IoReady"}]
              /\ arg' \in [Pid -> Addr \cup Token \cup {NoAddr}]
              /\ dl' \in [Pid -> 0..TSC_MAX]
              /\ expect' \in [Pid -> Val]
    <2>1. CASE state[p] = "Blocked"
        BY <1>11, <2>1 DEF TypeOK, EndCall, ReturnTo
    <2>2. CASE state[p] # "Blocked"
        <3>1. pc' \in [Pid -> {"user", "hlt", "ret", "exitWake", "exitTerm", "dead"}]
            BY <1>11 DEF TypeOK, EndCall, ReturnTo
        <3>2. why' \in [Pid -> {"Io", "Sleep", "FutexWait", "IoReady"}]
            BY <1>11, <2>2, Zenon DEF TypeOK, EndCall
        <3>3. arg' \in [Pid -> Addr \cup Token \cup {NoAddr}]
            BY <1>11, <2>2 DEF TypeOK, EndCall
        <3>4. dl' \in [Pid -> 0..TSC_MAX]
            BY <1>11, <2>2 DEF TypeOK, EndCall
        <3>5. expect' \in [Pid -> Val]
            BY <1>11, <2>2 DEF TypeOK, EndCall
        <3>6. QED
            BY <3>1, <3>2, <3>3, <3>4, <3>5
    <2>3. QED
        BY <2>1, <2>2
<1>12. ASSUME NEW p \in Pid, ReturnSleep(p) PROVE TypeOK'
    BY <1>11, <1>12 DEF TypeOK, ReturnSleep, timerVars, ioVars
<1>13. ASSUME NEW p \in Pid, ReturnFutex(p) PROVE TypeOK'
    BY <1>11, <1>13 DEF TypeOK, ReturnFutex, timerVars, ioVars
<1>14. ASSUME NEW p \in Pid, ReturnReady(p) PROVE TypeOK'
    <2>1. CASE ReadyPark(p, arg[p], dl[p])
        BY <1>3, <1>14, <2>1 DEF ReturnReady, TypeOK
    <2>2. CASE EndCall(p) /\ ~ReadyPark(p, arg[p], dl[p])
        BY <1>11, <1>14, <2>2, Zenon DEF TypeOK, ReturnReady, timerVars, ioVars
    <2>3. QED
        BY <1>14, <2>1, <2>2 DEF ReturnReady
<1>15. ASSUME NEW p \in Pid, Terminate(p)
       PROVE  /\ state' \in [Pid -> {"Free", "Runnable", "Blocked", "Zombie"}]
              /\ FUTEX_WAITERS' \in [Bucket -> SUBSET Pid]
              /\ UNCHANGED <<now, cur, why, arg, dl, futex_deadline, futex_timed_out,
                             pending, TIMED_BLOCK_COUNT, EARLIEST_DEADLINE, mem, expect,
                             owed, mask, publishing>>
    BY <1>15 DEF TypeOK, Terminate, ClearWaiterAll, timerVars, userVars, ioVars
<1>16. ASSUME NEW p \in Pid, ExitWake(p) PROVE TypeOK'
    <2>1. ctid_ptr[p] \in Addr
        BY <1>16 DEF ExitHasCtid, ExitWake, Executing
    <2>2. QED
        BY <1>5, <1>6, <1>16, <2>1 DEF TypeOK, ExitWake, ReturnTo, ioVars, WordOf, Word
<1>17. ASSUME NEW p \in Pid, ExitTerm(p) PROVE TypeOK'
    BY <1>15, <1>17 DEF TypeOK, ExitTerm, ReturnTo
<1>18. ASSUME NEW p \in Pid, NEW sig \in {"SIGKILL", "SIGSTOP"}, RaisePending(p, sig)
       PROVE TypeOK'
    BY <1>18 DEF TypeOK, RaisePending, timerVars, userVars, ioVars
<1>19. ASSUME NEW p \in Pid, SendKill(p) PROVE TypeOK'
    <2>1. CASE OnCore(p)
        BY <1>18, <1>19, <2>1 DEF SendKill
    <2>2. CASE ~OnCore(p)
        BY <1>15, <1>19, <2>2 DEF TypeOK, SendKill
    <2>3. QED
        BY <2>1, <2>2
<1>20. ASSUME NEW p \in Pid, SendStop(p) PROVE TypeOK'
    <2>1. CASE OnCore(p)
        BY <1>18, <1>20, <2>1 DEF SendStop
    <2>2. CASE ~OnCore(p)
        <3>1. state' \in [Pid -> {"Free", "Runnable", "Blocked", "Zombie"}]
            BY <1>20, <2>2 DEF TypeOK, SendStop
        <3>2. why' \in [Pid -> {"Io", "Sleep", "FutexWait", "IoReady"}]
            BY <1>20, <2>2 DEF TypeOK, SendStop
        <3>3. FUTEX_WAITERS' \in [Bucket -> SUBSET Pid]
            BY <1>20, <2>2 DEF TypeOK, SendStop, ClearWaiterAll
        <3>4. QED
            BY <1>20, <2>2, <3>1, <3>2, <3>3 DEF TypeOK, SendStop, timerVars, userVars, ioVars
    <2>3. QED
        BY <2>1, <2>2
<1>21. ASSUME NEW p \in Pid, SendCont(p) PROVE TypeOK'
    BY <1>21 DEF TypeOK, SendCont, ClearWaiterAll, timerVars, userVars, ioVars
<1>22. ASSUME NEW p \in Pid, Reap(p) PROVE TypeOK'
    BY <1>22 DEF TypeOK, Reap, timerVars, ioVars
<1>23. ASSUME NEW p \in Pid, Spawn(p) PROVE TypeOK'
    BY <1>23 DEF TypeOK, Spawn, timerVars, userVars, ioVars
<1>24. ASSUME NEW b \in Backend, NEW t \in Token, SetReady(b, t) \/ ReplaceReady(b, t)
       PROVE TypeOK'
    <2>1. CASE SetReady(b, t)
        BY <2>1 DEF TypeOK, SetReady, timerVars, userVars
    <2>2. CASE ReplaceReady(b, t)
        BY <2>2, Zenon DEF TypeOK, ReplaceReady, timerVars, userVars
    <2>3. QED
        BY <1>24, <2>1, <2>2
<1>25. ASSUME NEW b \in Backend, WakeToken(b) PROVE TypeOK'
    <2>1. PICK W \in SUBSET Pid : state' = Runnable(W) /\ CancelDeadlines(W)
        BY <1>25, Zenon DEF WakeToken
    <2>2. QED
        BY <1>25, <2>1, CancelType DEF TypeOK, WakeToken, Runnable, userVars
<1>26. ASSUME NEW t \in Token, ClearReady(t) PROVE TypeOK'
    BY <1>26 DEF TypeOK, ClearReady, timerVars, userVars
<1>27. ASSUME NEW c \in Core, Tick(c) PROVE TypeOK'
    BY <1>27, TickType
<1>28. ASSUME NEW c \in Core, DeviceIrq(c) PROVE TypeOK'
    BY <1>28 DEF TypeOK, DeviceIrq, timerVars, userVars, ioVars
<1>29. CASE Clock
    BY <1>29 DEF TypeOK, Clock, timerVars, userVars, ioVars
<1>30. CASE UNCHANGED vars
    BY <1>30 DEF TypeOK, vars
<1>31. QED
    BY <1>1, <1>2, <1>4, <1>7, <1>8, <1>9, <1>10, <1>12, <1>13, <1>14, <1>16, <1>17,
       <1>19, <1>20, <1>21, <1>22, <1>23, <1>24, <1>25, <1>26, <1>27, <1>28, <1>29, <1>30
       DEF Next, TaskStep, KernelStep

----------------------------------------------------------------------------

(* The kinds of step.  All but the parks, the wakes and the tick are Calm:  *)
(* each task either keeps its wait as it is or is in no wait afterwards.    *)

Waits == {"Sleep", "FutexWait", "IoReady"}

Keeps(q) ==
    /\ state'[q] = state[q]
    /\ futex_deadline'[q] = futex_deadline[q]
    /\ state[q] = "Blocked" => /\ why'[q] = why[q] /\ arg'[q] = arg[q]
                               /\ dl'[q] = dl[q] /\ expect'[q] = expect[q]
    /\ \A b \in Bucket : q \in FUTEX_WAITERS[b] => q \in FUTEX_WAITERS'[b]

Leaves(q) ==
    /\ state'[q] # "Blocked" \/ why'[q] \notin Waits
    /\ futex_deadline'[q] \in {0, futex_deadline[q]}

(* A word changes only together with a debt, and no debt is paid. *)
WordsCovered ==
    \A w \in Word : owed'[w] # {} \/ (mem'[w] = mem[w] /\ owed[w] = {})

(* A level rises only together with a wake scan, and none is dropped. *)
LevelsCovered ==
    \A t \in Token : mask'[t] => \/ \E b \in Backend : publishing'[b] = t
                                 \/ mask[t] /\ \A b \in Backend : publishing[b] # t

Calm ==
    /\ \A q \in Pid : Keeps(q) \/ Leaves(q)
    /\ UNCHANGED timerVars
    /\ WordsCovered /\ LevelsCovered

(* A wake of W, with its effect on everything but the bits and the debts. *)
Wake(W) ==
    /\ state' = Runnable(W) /\ CancelDeadlines(W)
    /\ UNCHANGED <<why, arg, dl, mem, expect>>

(* What returning to user mode does is calm. *)
LEMMA EndCallCalm ==
    ASSUME TypeOK, NEW p \in Pid, EndCall(p),
           UNCHANGED <<state, futex_deadline, FUTEX_WAITERS, timerVars, mem, owed, ioVars>>
    PROVE  Calm
<1>1. \A q \in Pid : Keeps(q)
    <2> SUFFICES ASSUME NEW q \in Pid PROVE Keeps(q)
        OBVIOUS
    <2>1. state[q] = "Blocked" => /\ why'[q] = why[q] /\ arg'[q] = arg[q]
                                  /\ dl'[q] = dl[q] /\ expect'[q] = expect[q]
        BY DEF TypeOK, EndCall
    <2>2. QED
        BY <2>1, Zenon DEF Keeps
<1>2. WordsCovered /\ LevelsCovered
    BY Zenon DEF WordsCovered, LevelsCovered, ioVars
<1>3. QED
    BY <1>1, <1>2, Zenon DEF Calm

(* Killing, stopping, continuing, reaping and spawning a task are calm. *)
LEMMA SlotCalm ==
    ASSUME TypeOK, NEW p \in Pid,
           state' \in [Pid -> {"Free", "Runnable", "Blocked", "Zombie"}],
           \A q \in Pid \ {p} :
              /\ state'[q] = state[q] /\ futex_deadline'[q] = futex_deadline[q]
              /\ why'[q] = why[q] /\ arg'[q] = arg[q]
              /\ dl'[q] = dl[q] /\ expect'[q] = expect[q]
              /\ \A b \in Bucket : q \in FUTEX_WAITERS[b] => q \in FUTEX_WAITERS'[b],
           Leaves(p),
           UNCHANGED <<timerVars, mem, owed, ioVars>>
    PROVE  Calm
<1>1. \A q \in Pid : Keeps(q) \/ Leaves(q)
    BY Zenon DEF Keeps
<1>2. WordsCovered /\ LevelsCovered
    BY Zenon DEF WordsCovered, LevelsCovered, ioVars
<1>3. QED
    BY <1>1, <1>2, Zenon DEF Calm

(* A step that touches none of the wait state is calm if it leaves words    *)
(* and levels covered.                                                      *)
LEMMA QuietCalm ==
    ASSUME UNCHANGED <<state, why, arg, dl, expect, futex_deadline, FUTEX_WAITERS, timerVars>>,
           WordsCovered, LevelsCovered
    PROVE  Calm
BY Zenon DEF Calm, Keeps

ParksForSleep == \E p \in Pid, d \in SleepFor : BlockSleep(p, d)

ParksOnWord ==
    \E p \in Pid, a \in Addr, v \in Val, d \in 0..TSC_MAX : FutexPark(p, a, v, d)

ParksOnToken == \E p \in Pid, t \in Token, d \in 0..TSC_MAX : ReadyPark(p, t, d)

WakesAll(p, a) ==
    /\ Wake(FutexMatching(a)) /\ UNCHANGED ioVars
    /\ FUTEX_WAITERS' = [FUTEX_WAITERS EXCEPT ![futex_bucket[a]] = @ \ FutexMatching(a)]
    /\ owed' = [owed EXCEPT ![WordOf(p, a)] = @ \ {p}]

WakesOne(a, q) ==
    /\ Wake({q}) /\ UNCHANGED <<owed, ioVars>>
    /\ FUTEX_WAITERS' = [FUTEX_WAITERS EXCEPT ![futex_bucket[a]] = @ \ {q}]

WakesWord ==
    \/ \E p \in Pid, a \in Addr : WakesAll(p, a)
    \/ \E a \in Addr : \E q \in FutexMatching(a) : WakesOne(a, q)

WakesToken == \E b \in Backend : WakeToken(b)

Ticks == \E c \in Core : Tick(c)

(* Every step is of one of these kinds. *)
LEMMA StepKinds ==
    TypeOK /\ ExitHasCtid /\ [Next]_vars
    => \/ Calm \/ ParksForSleep \/ ParksOnWord \/ ParksOnToken
       \/ WakesWord \/ WakesToken \/ Ticks
<1> SUFFICES ASSUME TypeOK, ExitHasCtid, [Next]_vars
             PROVE  \/ Calm \/ ParksForSleep \/ ParksOnWord \/ ParksOnToken
                    \/ WakesWord \/ WakesToken \/ Ticks
    OBVIOUS
<1> USE ConstantsAssumption
<1>1. ASSUME NEW p \in Pid, NEW a \in Addr, NEW v \in Val, FutexWait(p, a, v)
      PROVE  ParksOnWord
    BY <1>1, SaturatingType DEF FutexWait, ParksOnWord
<1>2. ASSUME NEW p \in Pid, NEW t \in Token, WaitReady(p, t) PROVE ParksOnToken
    BY <1>2, SaturatingType DEF WaitReady, ParksOnToken
<1>3. ASSUME NEW p \in Pid, NEW a \in Addr, FutexWakeAll(p, a) PROVE WakesWord
    <2>1. WakesAll(p, a)
        BY <1>3 DEF FutexWakeAll, WakeFutexWaiters, Wake, WakesAll
    <2>2. QED
        BY <2>1 DEF WakesWord
<1>4. ASSUME NEW p \in Pid, NEW a \in Addr, FutexWakeOne(p, a) PROVE WakesWord
    <2>1. PICK q \in FutexMatching(a) : WakeFutexWaiters(a, {q})
        BY <1>4, Zenon DEF FutexWakeOne
    <2>2. WakesOne(a, q)
        BY <1>4, <2>1, Zenon DEF FutexWakeOne, WakeFutexWaiters, Wake, WakesOne, userVars
    <2>3. QED
        BY <2>2 DEF WakesWord
<1>5. ASSUME NEW p \in Pid, ExitWake(p) PROVE WakesWord
    <2>1. ctid_ptr[p] \in Addr
        BY <1>5 DEF ExitHasCtid, ExitWake, Executing
    <2>2. WakesAll(p, ctid_ptr[p])
        BY <1>5 DEF ExitWake, WakeFutexWaiters, Wake, WakesAll
    <2>3. QED
        BY <2>1, <2>2 DEF WakesWord
<1>6. ASSUME NEW p \in Pid, ReturnSleep(p) \/ ReturnFutex(p) PROVE Calm
    BY <1>6, EndCallCalm, Zenon DEF ReturnSleep, ReturnFutex, ioVars, timerVars
<1>7. ASSUME NEW p \in Pid, ReturnReady(p) PROVE Calm \/ ParksOnToken
    <2>1. CASE ReadyPark(p, arg[p], dl[p])
        <3>1. arg[p] \in Token /\ dl[p] \in 0..TSC_MAX
            BY <1>7, Zenon DEF ReturnReady, TypeOK
        <3>2. QED
            BY <2>1, <3>1 DEF ParksOnToken
    <2>2. CASE ~ReadyPark(p, arg[p], dl[p])
        BY <1>7, <2>2, EndCallCalm DEF ReturnReady, ioVars, timerVars
    <2>3. QED
        BY <2>1, <2>2
<1>8. ASSUME NEW p \in Pid, NEW w \in Word, NEW v \in Val,
             mem' = [mem EXCEPT ![w] = v], owed' = [owed EXCEPT ![w] = @ \cup {p}],
             UNCHANGED ioVars
      PROVE  WordsCovered /\ LevelsCovered
    BY <1>8, Zenon DEF TypeOK, WordsCovered, LevelsCovered, ioVars
<1>9. ASSUME UNCHANGED <<mem, owed, ioVars>> PROVE WordsCovered /\ LevelsCovered
    BY <1>9 DEF WordsCovered, LevelsCovered, ioVars
<1>10. ASSUME NEW p \in Pid, NEW a \in Addr, NEW v \in Val, Store(p, a, v) PROVE Calm
    <2>1. WordOf(p, a) \in Word
        BY DEF WordOf, Word
    <2>2. WordsCovered /\ LevelsCovered
        BY <1>8, <1>10, <2>1, Zenon DEF Store
    <2>3. QED
        BY <1>10, <2>2, QuietCalm DEF Store
<1>11. ASSUME NEW p \in Pid, ExitStart(p) PROVE Calm
    <2>1. WordsCovered /\ LevelsCovered
        <3>1. CASE ctid_ptr[p] = NoAddr
            BY <1>9, <1>11, <3>1, Zenon DEF ExitStart
        <3>2. CASE ctid_ptr[p] # NoAddr
            <4>1. WordOf(p, ctid_ptr[p]) \in Word
                BY <3>2, Zenon DEF WordOf, Word
            <4>2. QED
                BY <1>8, <1>11, <3>2, <4>1 DEF ExitStart
        <3>3. QED
            BY <3>1, <3>2, Zenon
    <2>2. QED
        BY <1>11, <2>1, QuietCalm, Zenon DEF ExitStart
<1>12. ASSUME NEW p \in Pid, Terminate(p) PROVE Calm
    BY <1>12, SlotCalm DEF TypeOK, Terminate, ClearWaiterAll, Leaves, userVars
<1>13. ASSUME NEW p \in Pid, NEW sig, RaisePending(p, sig) PROVE Calm
    BY <1>9, <1>13, QuietCalm DEF RaisePending, userVars
<1>14. ASSUME NEW p \in Pid, SendKill(p) \/ ExitTerm(p) PROVE Calm
    BY <1>12, <1>13, <1>14 DEF SendKill, ExitTerm
<1>15. ASSUME NEW p \in Pid, SendStop(p) PROVE Calm
    <2>1. CASE OnCore(p)
        BY <1>13, <1>15, <2>1, Zenon DEF SendStop
    <2>2. CASE ~OnCore(p)
        BY <1>15, <2>2, SlotCalm DEF TypeOK, SendStop, ClearWaiterAll, Leaves, Waits, userVars
    <2>3. QED
        BY <2>1, <2>2
<1>16. ASSUME NEW p \in Pid, SendCont(p) PROVE Calm
    BY <1>16, SlotCalm, Zenon DEF TypeOK, SendCont, ClearWaiterAll, Leaves, userVars
<1>17. ASSUME NEW p \in Pid, Reap(p) PROVE Calm
    BY <1>17, SlotCalm, Zenon DEF TypeOK, Reap, Leaves
<1>18. ASSUME NEW p \in Pid, Spawn(p) PROVE Calm
    BY <1>18, SlotCalm DEF TypeOK, Spawn, Leaves, userVars
<1>19. ASSUME NEW b \in Backend, NEW t \in Token, SetReady(b, t) PROVE Calm
    <2>1. LevelsCovered
        BY <1>19 DEF TypeOK, LevelsCovered, SetReady
    <2>2. WordsCovered
        BY <1>19, Zenon DEF WordsCovered, SetReady, userVars
    <2>3. QED
        BY <1>19, <2>1, <2>2, QuietCalm DEF SetReady, userVars
<1>20. ASSUME NEW b \in Backend, NEW t \in Token, ReplaceReady(b, t) PROVE Calm
    <2>1. LevelsCovered
        BY <1>20 DEF TypeOK, LevelsCovered, ReplaceReady
    <2>2. WordsCovered
        BY <1>20, Zenon DEF WordsCovered, ReplaceReady, userVars
    <2>3. QED
        BY <1>20, <2>1, <2>2, QuietCalm DEF ReplaceReady, userVars
<1>21. ASSUME NEW t \in Token, ClearReady(t) PROVE Calm
    <2>1. LevelsCovered
        BY <1>21, Zenon DEF TypeOK, LevelsCovered, ClearReady
    <2>2. WordsCovered
        BY <1>21 DEF WordsCovered, ClearReady, userVars
    <2>3. QED
        BY <1>21, <2>1, <2>2, QuietCalm DEF ClearReady, userVars
<1>22. ASSUME NEW c \in Core, DeviceIrq(c) PROVE Calm
    BY <1>9, <1>22, QuietCalm DEF DeviceIrq, userVars
<1>23. CASE Clock
    BY <1>9, <1>23, QuietCalm DEF Clock, userVars
<1>24. CASE UNCHANGED vars
    BY <1>9, <1>24, QuietCalm, Zenon DEF vars, timerVars, ioVars
<1>25. QED
    BY <1>1, <1>2, <1>3, <1>4, <1>5, <1>6, <1>7, <1>10, <1>11, <1>14, <1>15, <1>16,
       <1>17, <1>18, <1>19, <1>20, <1>21, <1>22, <1>23, <1>24
       DEF Next, TaskStep, KernelStep, ParksForSleep, WakesToken, Ticks

----------------------------------------------------------------------------
(* Each conjunct of the invariant is kept by each kind of step. *)

(* No step reaches the CLEARTID wake of a task without a CLEARTID word. *)
LEMMA ExitHasCtidStep == TypeOK /\ ExitHasCtid /\ [Next]_vars => ExitHasCtid'
<1> SUFFICES ASSUME TypeOK, ExitHasCtid, [Next]_vars,
                    NEW q \in Pid, pc'[q] = "exitWake"
             PROVE  ctid_ptr[q] # NoAddr
    BY DEF ExitHasCtid
<1>a. pc \in [Pid -> {"user", "hlt", "ret", "exitWake", "exitTerm", "dead"}]
    BY Zenon DEF TypeOK
<1> USE <1>a DEF ExitHasCtid
<1>1. ASSUME NEW p \in Pid, TaskStep(p) PROVE ctid_ptr[q] # NoAddr
    <2>1. CASE \E d \in SleepFor : BlockSleep(p, d)
        BY <2>1 DEF BlockSleep, Park
    <2>2. CASE \E a \in Addr : \E v \in Val : FutexWait(p, a, v)
        <3>1. PICK a, v, d : FutexPark(p, a, v, d)
            BY <2>2 DEF FutexWait
        <3>2. QED
            BY <3>1, Zenon DEF FutexPark, Park
    <2>3. CASE \E a \in Addr : (\E v \in Val : Store(p, a, v)) \/ FutexWakeAll(p, a)
                               \/ FutexWakeOne(p, a)
        BY <2>3 DEF Store, FutexWakeAll, FutexWakeOne
    <2>4. CASE \E t \in Token : WaitReady(p, t)
        <3>1. PICK t, d : ReadyPark(p, t, d)
            BY <2>4, Zenon DEF WaitReady
        <3>2. QED
            BY <3>1 DEF ReadyPark, Park
    <2>5. CASE ExitStart(p)
        BY <2>5, Zenon DEF ExitStart, ReturnTo
    <2>6. QED
        BY <1>1, <2>1, <2>2, <2>3, <2>4, <2>5, Zenon DEF TaskStep
<1>2. ASSUME NEW p \in Pid, KernelStep(p) PROVE ctid_ptr[q] # NoAddr
    <2>1. CASE ReturnSleep(p) \/ ReturnFutex(p)
        BY <2>1 DEF ReturnSleep, ReturnFutex, EndCall, ReturnTo
    <2>2. CASE ReturnReady(p)
        BY <2>2 DEF ReturnReady, ReadyPark, Park, EndCall, ReturnTo
    <2>3. CASE ExitWake(p) \/ ExitTerm(p)
        BY <2>3, Zenon DEF ExitWake, ExitTerm, ReturnTo
    <2>4. QED
        BY <1>2, <2>1, <2>2, <2>3, Zenon DEF KernelStep
<1>3. ASSUME NEW p \in Pid, SendKill(p) \/ SendStop(p) \/ SendCont(p) \/ Reap(p) \/ Spawn(p)
      PROVE  ctid_ptr[q] # NoAddr
    <2>1. CASE SendKill(p) \/ SendStop(p)
        BY <2>1 DEF SendKill, SendStop, RaisePending
    <2>2. CASE SendCont(p) \/ Reap(p) \/ Spawn(p)
        BY <2>2 DEF SendCont, Reap, Spawn
    <2>3. QED
        BY <1>3, <2>1, <2>2
<1>4. ASSUME NEW b \in Backend, NEW t \in Token, SetReady(b, t) \/ ReplaceReady(b, t)
      PROVE  ctid_ptr[q] # NoAddr
    BY <1>4, Zenon DEF SetReady, ReplaceReady
<1>5. ASSUME NEW c \in Core, Tick(c) PROVE ctid_ptr[q] # NoAddr
    <2>1. PICK sweep \in BOOLEAN, next \in Pid \cup {NoTask}, K, S \in SUBSET Pid :
            TickEffect(c, sweep, next, K, S)
        BY <1>5, TickCases, Zenon
    <2>2. QED
        BY <2>1 DEF TickEffect
<1>6. ASSUME NEW c \in Core, DeviceIrq(c) PROVE ctid_ptr[q] # NoAddr
    BY <1>6 DEF DeviceIrq
<1>7. CASE Clock \/ UNCHANGED vars
    BY <1>7, Zenon DEF Clock, vars
<1>8. ASSUME NEW b \in Backend, WakeToken(b) PROVE ctid_ptr[q] # NoAddr
    BY <1>8 DEF WakeToken
<1>9. ASSUME NEW t \in Token, ClearReady(t) PROVE ctid_ptr[q] # NoAddr
    BY <1>9 DEF ClearReady
<1> HIDE <1>a DEF ExitHasCtid
<1>10. QED
    BY <1>1, <1>2, <1>3, <1>4, <1>5, <1>6, <1>7, <1>8, <1>9, Zenon DEF Next

----------------------------------------------------------------------------
(* The waiters and their wakes. *)

(* A futex wait that is still there after a step was there before it, the   *)
(* same, unless the step is the park that began it.                         *)
LEMMA FutexWaitKept ==
    ASSUME TypeOK, ExitHasCtid, [Next]_vars, NEW q \in Pid, BlockedOn(q, "FutexWait")'
    PROVE  \/ \E a \in Addr, v \in Val, d \in 0..TSC_MAX : FutexPark(q, a, v, d)
           \/ BlockedOn(q, "FutexWait") /\ arg'[q] = arg[q] /\ expect'[q] = expect[q]
<1>1. CASE Calm
    BY <1>1, Zenon DEF Calm, Keeps, Leaves, Waits, BlockedOn
<1>2. CASE ParksForSleep
    BY <1>2 DEF TypeOK, ParksForSleep, BlockSleep, Park, BlockedOn, userVars
<1>3. CASE ParksOnWord
    <2>1. PICK p \in Pid, a \in Addr, v \in Val, d \in 0..TSC_MAX : FutexPark(p, a, v, d)
        BY <1>3, Zenon DEF ParksOnWord
    <2>2. CASE p = q
        BY <2>1, <2>2, Zenon
    <2>3. CASE p # q
        BY <2>1, <2>3, Zenon DEF TypeOK, FutexPark, Park, BlockedOn
    <2>4. QED
        BY <2>2, <2>3, Zenon
<1>4. CASE ParksOnToken
    BY <1>4 DEF TypeOK, ParksOnToken, ReadyPark, Park, BlockedOn, userVars
<1>5. CASE WakesWord
    BY <1>5, Zenon DEF WakesWord, WakesAll, WakesOne, Wake, Runnable, BlockedOn
<1>6. CASE WakesToken
    BY <1>6, Zenon DEF WakesToken, WakeToken, Runnable, BlockedOn, userVars
<1>7. CASE Ticks
    <2>1. PICK c \in Core, sweep \in BOOLEAN, next \in Pid \cup {NoTask}, K, S \in SUBSET Pid :
            TickEffect(c, sweep, next, K, S)
        BY <1>7, TickCases, Zenon DEF Ticks
    <2>2. QED
        BY <2>1 DEF TypeOK, TickEffect, BlockedOn, userVars
<1>8. QED
    BY <1>1, <1>2, <1>3, <1>4, <1>5, <1>6, <1>7, StepKinds, Zenon

(* No step takes the bit of a parked task out of its bucket. *)
LEMMA WaiterStep ==
    TypeOK /\ ExitHasCtid /\ WaiterFindable /\ [Next]_vars => WaiterFindable'
<1> SUFFICES ASSUME TypeOK, ExitHasCtid, WaiterFindable, [Next]_vars,
                    NEW q \in Pid, BlockedOn(q, "FutexWait")'
             PROVE  arg'[q] \in Addr /\ q \in FUTEX_WAITERS'[futex_bucket[arg'[q]]]
    BY Zenon DEF WaiterFindable
<1> USE ConstantsAssumption
<1>1. CASE \E a \in Addr, v \in Val, d \in 0..TSC_MAX : FutexPark(q, a, v, d)
    <2>1. PICK a \in Addr, v \in Val, d \in 0..TSC_MAX : FutexPark(q, a, v, d)
        BY <1>1, Zenon
    <2>2. arg'[q] = a
        BY <2>1, Zenon DEF TypeOK, FutexPark, Park
    <2>3. q \in FUTEX_WAITERS'[futex_bucket[a]]
        BY <2>1, Zenon DEF TypeOK, FutexPark
    <2>4. QED
        BY <2>2, <2>3, Zenon
<1>2. CASE BlockedOn(q, "FutexWait") /\ arg'[q] = arg[q]
    <2> DEFINE b == futex_bucket[arg[q]]
    <2>1. arg[q] \in Addr /\ q \in FUTEX_WAITERS[b] /\ b \in Bucket
        BY <1>2, Zenon DEF WaiterFindable
    <2> HIDE DEF b
    <2>2. q \in FUTEX_WAITERS'[b]
        <3>1. CASE Calm
            BY <2>1, <3>1, Zenon DEF Calm, Keeps, Leaves, Waits, BlockedOn
        <3>2. CASE ParksForSleep
            BY <2>1, <3>2, Zenon DEF ParksForSleep, BlockSleep
        <3>3. CASE ParksOnWord
            BY <2>1, <3>3 DEF TypeOK, ParksOnWord, FutexPark
        <3>4. CASE ParksOnToken
            BY <2>1, <3>4, Zenon DEF ParksOnToken, ReadyPark
        <3>5. CASE WakesWord
            <4>1. CASE \E p \in Pid, a \in Addr : WakesAll(p, a)
                BY <2>1, <4>1 DEF TypeOK, WakesAll, Wake, Runnable, BlockedOn
            <4>2. CASE \E a \in Addr : \E r \in FutexMatching(a) : WakesOne(a, r)
                BY <2>1, <4>2 DEF TypeOK, WakesOne, Wake, Runnable, BlockedOn
            <4>3. QED
                BY <3>5, <4>1, <4>2, Zenon DEF WakesWord
        <3>6. CASE WakesToken
            BY <2>1, <3>6, Zenon DEF WakesToken, WakeToken
        <3>7. CASE Ticks
            <4>1. PICK c \in Core, sweep \in BOOLEAN, next \in Pid \cup {NoTask},
                       K, S \in SUBSET Pid : TickEffect(c, sweep, next, K, S)
                BY <3>7, TickCases, Zenon DEF Ticks
            <4> DEFINE Woken == Expired(Pid \ (K \cup S))
            <4>2. q \notin Woken /\ q \notin K \cup S
                BY <4>1, Zenon DEF TypeOK, TickEffect, BlockedOn
            <4>3. q \notin Stale
                BY <1>2, Zenon DEF Stale
            <4>4. FUTEX_WAITERS' = TickWaiters(sweep, K \cup S, Woken)
                BY <4>1, Zenon DEF TickEffect
            <4> HIDE DEF Woken
            <4>5. QED
                BY <2>1, <4>2, <4>3, <4>4, Zenon DEF TickWaiters
        <3>8. QED
            BY <3>1, <3>2, <3>3, <3>4, <3>5, <3>6, <3>7, StepKinds, Zenon
    <2>3. QED
        BY <1>2, <2>1, <2>2, Zenon DEF b
<1>3. QED
    BY <1>1, <1>2, FutexWaitKept, Zenon

(* No step leaves a task parked on a changed word with no wake coming. *)
LEMMA FutexWakeStep ==
    TypeOK /\ ExitHasCtid /\ WaiterFindable /\ NoLostFutexWake /\ [Next]_vars
    => NoLostFutexWake'
<1> SUFFICES ASSUME TypeOK, ExitHasCtid, WaiterFindable, NoLostFutexWake, [Next]_vars,
                    NEW q \in Pid, BlockedOn(q, "FutexWait")'
             PROVE  \/ mem'[WordOf(q, arg'[q])] = expect'[q]
                    \/ owed'[WordOf(q, arg'[q])] # {}
    BY Zenon DEF NoLostFutexWake, WordOf
<1> USE ConstantsAssumption
<1>1. CASE \E a \in Addr, v \in Val, d \in 0..TSC_MAX : FutexPark(q, a, v, d)
    <2>1. PICK a, v, d : FutexPark(q, a, v, d)
        BY <1>1
    <2>2. arg'[q] = a /\ expect'[q] = v
        BY <2>1, Zenon DEF TypeOK, FutexPark, Park
    <2>3. QED
        BY <2>1, <2>2, Zenon DEF FutexPark
<1>2. CASE BlockedOn(q, "FutexWait") /\ arg'[q] = arg[q] /\ expect'[q] = expect[q]
    <2> DEFINE w == WordOf(q, arg[q])
    <2>1. arg[q] \in Addr /\ q \in FUTEX_WAITERS[futex_bucket[arg[q]]]
        BY <1>2 DEF WaiterFindable
    <2>2. w \in Word
        BY <2>1, Zenon DEF WordOf, Word
    <2>3. mem[w] = expect[q] \/ owed[w] # {}
        BY <1>2, Zenon DEF NoLostFutexWake
    <2>4. (mem'[w] = mem[w] /\ owed'[w] = owed[w]) \/ owed'[w] # {}
        <3> HIDE DEF w
        <3>1. CASE Calm
            BY <2>2, <3>1, Zenon DEF Calm, WordsCovered
        <3>2. CASE ParksForSleep
            BY <3>2, Zenon DEF ParksForSleep, BlockSleep, userVars
        <3>3. CASE ParksOnWord
            BY <3>3, Zenon DEF ParksOnWord, FutexPark
        <3>4. CASE ParksOnToken
            BY <3>4, Zenon DEF ParksOnToken, ReadyPark, userVars
        <3>5. CASE WakesWord
            <4>1. CASE \E p \in Pid, a \in Addr : WakesAll(p, a)
                <5>1. PICK p \in Pid, a \in Addr : WakesAll(p, a)
                    BY <4>1, Zenon
                <5>2. q \notin FutexMatching(a)
                    BY <5>1, Zenon DEF WakesAll, Wake, Runnable, BlockedOn
                <5>3. arg[q] # a
                    BY <1>2, <2>1, <5>2, Zenon DEF FutexMatching
                <5>4. w # WordOf(p, a)
                    BY <5>3 DEF w, WordOf
                <5>5. QED
                    BY <2>2, <5>1, <5>4 DEF TypeOK, WakesAll, Wake
            <4>2. CASE \E a \in Addr : \E r \in FutexMatching(a) : WakesOne(a, r)
                BY <4>2, Zenon DEF WakesOne, Wake
            <4>3. QED
                BY <3>5, <4>1, <4>2, Zenon DEF WakesWord
        <3>6. CASE WakesToken
            BY <3>6, Zenon DEF WakesToken, WakeToken, userVars
        <3>7. CASE Ticks
            <4>1. UNCHANGED <<mem, owed>>
                BY <3>7, TickCases, Zenon DEF Ticks, TickEffect, userVars
            <4>2. QED
                BY <4>1
        <3>8. QED
            BY <3>1, <3>2, <3>3, <3>4, <3>5, <3>6, <3>7, StepKinds
    <2>5. QED
        BY <1>2, <2>3, <2>4, Zenon
<1>3. QED
    BY <1>1, <1>2, FutexWaitKept, Zenon

(* No step leaves a task parked on a high level with no wake scan coming. *)
LEMMA ReadinessStep ==
    TypeOK /\ ExitHasCtid /\ NoLostReadiness /\ [Next]_vars => NoLostReadiness'
<1> SUFFICES ASSUME TypeOK, ExitHasCtid, NoLostReadiness, [Next]_vars,
                    NEW q \in Pid, BlockedOn(q, "IoReady")'
             PROVE  /\ arg'[q] \in Token
                    /\ mask'[arg'[q]] => \E b \in Backend : publishing'[b] = arg'[q]
    BY Zenon DEF NoLostReadiness
<1> USE ConstantsAssumption
<1>a. ASSUME BlockedOn(q, "IoReady"), arg'[q] = arg[q], UNCHANGED ioVars
      PROVE  /\ arg'[q] \in Token
             /\ mask'[arg'[q]] => \E b \in Backend : publishing'[b] = arg'[q]
    BY <1>a, Zenon DEF NoLostReadiness, ioVars
<1>1. CASE Calm
    <2>1. BlockedOn(q, "IoReady") /\ arg'[q] = arg[q]
        BY <1>1, Zenon DEF Calm, Keeps, Leaves, Waits, BlockedOn
    <2>2. arg[q] \in Token /\ (mask[arg[q]] => \E b \in Backend : publishing[b] = arg[q])
        BY <2>1 DEF NoLostReadiness
    <2>3. QED
        BY <1>1, <2>1, <2>2, Zenon DEF Calm, LevelsCovered
<1>b. ASSUME NEW p \in Pid, NEW reason \in {"Sleep", "FutexWait"}, NEW a, NEW d,
             Park(p, reason, a, d)
      PROVE  BlockedOn(q, "IoReady") /\ arg'[q] = arg[q]
    BY <1>b, Zenon DEF TypeOK, Park, BlockedOn
<1>2. CASE ParksForSleep
    BY <1>2, <1>a, <1>b, Zenon DEF ParksForSleep, BlockSleep
<1>3. CASE ParksOnWord
    BY <1>3, <1>a, <1>b, Zenon DEF ParksOnWord, FutexPark
<1>4. CASE ParksOnToken
    <2>1. PICK p \in Pid, t \in Token, d \in 0..TSC_MAX : ReadyPark(p, t, d)
        BY <1>4 DEF ParksOnToken
    <2>2. CASE p = q
        BY <2>1, <2>2, Zenon DEF TypeOK, ReadyPark, Park, ioVars
    <2>3. CASE p # q
        BY <2>1, <2>3, <1>a, Zenon DEF TypeOK, ReadyPark, Park, BlockedOn
    <2>4. QED
        BY <2>2, <2>3
<1>5. CASE WakesWord
    <2>1. PICK W : Wake(W) /\ UNCHANGED ioVars
        BY <1>5, Zenon DEF WakesWord, WakesAll, WakesOne
    <2>2. BlockedOn(q, "IoReady") /\ arg'[q] = arg[q]
        BY <2>1, Zenon DEF Wake, Runnable, BlockedOn
    <2>3. QED
        BY <1>a, <2>1, <2>2
<1>6. CASE WakesToken
    <2>1. PICK c \in Backend : WakeToken(c)
        BY <1>6 DEF WakesToken
    <2>2. /\ BlockedOn(q, "IoReady") /\ arg'[q] = arg[q] /\ arg[q] # publishing[c]
          /\ UNCHANGED mask /\ publishing' = [publishing EXCEPT ![c] = NoToken]
        BY <2>1, Zenon DEF WakeToken, Runnable, BlockedOn
    <2>3. QED
        BY <2>2, Zenon DEF TypeOK, NoLostReadiness
<1>7. CASE Ticks
    <2>1. PICK c \in Core, sweep \in BOOLEAN, next \in Pid \cup {NoTask}, K, S \in SUBSET Pid :
            TickEffect(c, sweep, next, K, S)
        BY <1>7, TickCases, Zenon DEF Ticks
    <2>2. BlockedOn(q, "IoReady") /\ arg'[q] = arg[q] /\ UNCHANGED ioVars
        BY <2>1, Zenon DEF TypeOK, TickEffect, BlockedOn
    <2>3. QED
        BY <1>a, <2>2
<1>8. QED
    BY <1>1, <1>2, <1>3, <1>4, <1>5, <1>6, <1>7, StepKinds

----------------------------------------------------------------------------
(* Every step keeps the bookkeeping of the deadlines: the cached minimum is *)
(* past none of them, the counter covers those that are armed.             *)

(* A scan leaves EARLIEST_DEADLINE no later than any deadline still ahead. *)
LEMMA ScanMinimum ==
    ASSUME NEW P, NEW W, WakeExpiredSleepers(P, W), ScanDue, NEW q \in StillTimed(P)
    PROVE  EARLIEST_DEADLINE' <= DeadlineOf(q)
BY Zenon DEF WakeExpiredSleepers

(* The cached minimum and the per-task deadline are right for a wait. *)
DeadlineKnown(p) == EARLIEST_DEADLINE <= dl[p] /\ DeadlineOf(p) = dl[p]

(* Both stay right for each wait that is still timed after a step. *)
LEMMA DeadlineKnownStep ==
    ASSUME TypeOK, TypeOK', ExitHasCtid, DeadlineCovered, [Next]_vars,
           NEW q \in Pid, Timed(q)'
    PROVE  DeadlineKnown(q)'
<1> USE ConstantsAssumption
<1>a. /\ now \in 1..TSC_MAX
      /\ EARLIEST_DEADLINE \in 1..TSC_MAX /\ EARLIEST_DEADLINE' \in 1..TSC_MAX
      /\ dl \in [Pid -> 0..TSC_MAX] /\ dl' \in [Pid -> 0..TSC_MAX]
      /\ futex_deadline \in [Pid -> 0..TSC_MAX]
    BY Zenon DEF TypeOK
<1>b. ASSUME Timed(q) PROVE DeadlineKnown(q)
    BY <1>b, Zenon DEF DeadlineCovered, DeadlineKnown
<1>c. ASSUME Keeps(q) PROVE Timed(q) /\ DeadlineOf(q)' = DeadlineOf(q) /\ dl'[q] = dl[q]
    BY <1>c, Zenon DEF Timed, Keeps, DeadlineOf
<1>d. ASSUME Keeps(q), EARLIEST_DEADLINE' <= EARLIEST_DEADLINE PROVE DeadlineKnown(q)'
    <2>1. DeadlineKnown(q) /\ DeadlineOf(q)' = DeadlineOf(q) /\ dl'[q] = dl[q]
        BY <1>b, <1>c, <1>d, Zenon
    <2>2. dl[q] \in Int /\ EARLIEST_DEADLINE \in Int /\ EARLIEST_DEADLINE' \in Int
        BY ONLY <1>a, q \in Pid
    <2>3. QED
        BY ONLY <1>d, <2>1, <2>2 DEF DeadlineKnown
<1>1. CASE Calm
    <2>1. ~Leaves(q)
        BY Zenon DEF Leaves, Timed, Waits
    <2>2. Keeps(q)
        BY <1>1, <2>1, Zenon DEF Calm
    <2>3. EARLIEST_DEADLINE' = EARLIEST_DEADLINE
        BY <1>1, Zenon DEF Calm, timerVars
    <2>4. EARLIEST_DEADLINE' <= EARLIEST_DEADLINE
        BY ONLY <1>a, <2>3
    <2>5. QED
        BY <1>d, <2>2, <2>4, Zenon
<1>2. CASE ParksForSleep
    <2>1. PICK p \in Pid, d \in SleepFor : BlockSleep(p, d)
        BY <1>2 DEF ParksForSleep
    <2> DEFINE at == Saturating(now + d)
    <2>2. at \in 1..TSC_MAX
        BY SaturatingType
    <2>3. Park(p, "Sleep", NoAddr, at) /\ ArmDeadline(at)
          /\ UNCHANGED <<futex_deadline, FUTEX_WAITERS, expect>>
        BY <2>1, Zenon DEF BlockSleep, userVars
    <2> HIDE DEF at
    <2>4. EARLIEST_DEADLINE' <= EARLIEST_DEADLINE /\ EARLIEST_DEADLINE' <= at
        BY ONLY <1>a, <2>2, <2>3 DEF ArmDeadline
    <2>b. state \in [Pid -> {"Free", "Runnable", "Blocked", "Zombie"}]
          /\ why \in [Pid -> {"Io", "Sleep", "FutexWait", "IoReady"}]
          /\ arg \in [Pid -> Addr \cup Token \cup {NoAddr}]
        BY Zenon DEF TypeOK
    <2>5. CASE q = p
        <3>1. state'[q] = "Blocked" /\ why'[q] = "Sleep" /\ dl'[q] = at
            BY <1>a, <2>3, <2>5, <2>b, Zenon DEF Park
        <3>2. QED
            BY <2>4, <3>1, Zenon DEF DeadlineKnown, DeadlineOf
    <2>6. CASE q # p
        <3>1. state'[q] = state[q] /\ why'[q] = why[q] /\ arg'[q] = arg[q] /\ dl'[q] = dl[q]
            BY <1>a, <2>3, <2>6, <2>b, Zenon DEF Park
        <3>2. Keeps(q)
            BY <2>3, <3>1, Zenon DEF Keeps
        <3>3. QED
            BY <1>d, <2>4, <3>2, Zenon
    <2>7. QED
        BY <2>5, <2>6, Zenon
<1>3. ASSUME NEW p \in Pid, NEW reason \in {"FutexWait", "IoReady"}, NEW a,
             NEW d \in 0..TSC_MAX, Park(p, reason, a, d), ArmFutexDeadline(p, d),
             \A r \in Pid \ {p} : expect'[r] = expect[r],
             \A b \in Bucket : FUTEX_WAITERS[b] \subseteq FUTEX_WAITERS'[b]
      PROVE  DeadlineKnown(q)'
    <2>b. state \in [Pid -> {"Free", "Runnable", "Blocked", "Zombie"}]
          /\ why \in [Pid -> {"Io", "Sleep", "FutexWait", "IoReady"}]
          /\ dl \in [Pid -> 0..TSC_MAX]
          /\ arg \in [Pid -> Addr \cup Token \cup {NoAddr}]
        BY Zenon DEF TypeOK
    <2>1. EARLIEST_DEADLINE' <= EARLIEST_DEADLINE
        BY ONLY <1>3, <1>a DEF ArmFutexDeadline, ArmDeadline, timerVars
    <2>2. CASE q = p
        <3>1. dl'[q] = d
            BY <1>3, <2>2, <2>b, Zenon DEF Park
        <3>2. d # 0
            BY <3>1, Zenon DEF Timed
        <3>3. EARLIEST_DEADLINE' <= d /\ futex_deadline'[q] = d
            BY ONLY <1>3, <1>a, <2>2, <3>2 DEF ArmFutexDeadline, ArmDeadline
        <3>4. state'[q] = "Blocked" /\ why'[q] = reason
            BY <1>3, <2>2, <2>b, Zenon DEF Park
        <3>5. QED
            BY <3>1, <3>3, <3>4, Zenon DEF DeadlineKnown, DeadlineOf
    <2>3. CASE q # p
        <3>1. futex_deadline'[q] = futex_deadline[q]
            BY <1>3, <2>3, <1>a, Zenon DEF ArmFutexDeadline
        <3>2. state'[q] = state[q] /\ why'[q] = why[q] /\ arg'[q] = arg[q] /\ dl'[q] = dl[q]
            BY <1>3, <2>3, <2>b, Zenon DEF Park
        <3>3. Keeps(q)
            BY <1>3, <2>3, <3>1, <3>2, Zenon DEF Keeps
        <3>4. QED
            BY <1>d, <2>1, <3>3
    <2>4. QED
        BY <2>2, <2>3, Zenon
<1>4. CASE ParksOnWord
    <2>1. PICK p \in Pid, a \in Addr, v \in Val, d \in 0..TSC_MAX : FutexPark(p, a, v, d)
        BY <1>4 DEF ParksOnWord
    <2>2. Park(p, "FutexWait", a, d) /\ ArmFutexDeadline(p, d)
        BY <2>1, Zenon DEF FutexPark
    <2>3. /\ \A r \in Pid \ {p} : expect'[r] = expect[r]
          /\ \A b \in Bucket : FUTEX_WAITERS[b] \subseteq FUTEX_WAITERS'[b]
        BY <2>1 DEF TypeOK, FutexPark
    <2>4. QED
        BY <1>3, <2>2, <2>3, Zenon
<1>5. CASE ParksOnToken
    <2>1. PICK p \in Pid, t \in Token, d \in 0..TSC_MAX : ReadyPark(p, t, d)
        BY <1>5, Zenon DEF ParksOnToken
    <2>2. Park(p, "IoReady", t, d) /\ ArmFutexDeadline(p, d)
        BY <2>1, Zenon DEF ReadyPark
    <2>3. /\ \A r \in Pid \ {p} : expect'[r] = expect[r]
          /\ \A b \in Bucket : FUTEX_WAITERS[b] \subseteq FUTEX_WAITERS'[b]
        BY <2>1, Zenon DEF TypeOK, ReadyPark, userVars
    <2>4. QED
        BY <1>3, <2>2, <2>3, Zenon
<1>6. ASSUME NEW W, state' = Runnable(W), CancelDeadlines(W), UNCHANGED <<why, dl>>
      PROVE  DeadlineKnown(q)'
    <2>1. q \notin W /\ state[q] = "Blocked"
        BY <1>6, Zenon DEF Runnable, Timed
    <2>2. futex_deadline'[q] = futex_deadline[q]
        BY <1>6, <2>1, Zenon DEF CancelDeadlines
    <2>3. Timed(q) /\ DeadlineOf(q)' = DeadlineOf(q)
        BY <1>6, <2>1, <2>2, Zenon DEF Timed, DeadlineOf, Runnable
    <2>4. QED
        BY <1>6, <1>b, <2>3, Zenon DEF DeadlineKnown, CancelDeadlines
<1>7. CASE WakesWord
    BY <1>6, <1>7, Zenon DEF WakesWord, WakesAll, WakesOne, Wake
<1>8. CASE WakesToken
    BY <1>6, <1>8 DEF WakesToken, WakeToken
<1>9. CASE Ticks
    <2>1. PICK c \in Core, sweep \in BOOLEAN, next \in Pid \cup {NoTask}, K, S \in SUBSET Pid :
            TickEffect(c, sweep, next, K, S)
        BY <1>9, TickCases, Zenon DEF Ticks
    <2> DEFINE Rest == Pid \ (K \cup S)
               Woken == Expired(Rest)
    <2>2. q \in Rest /\ q \notin Woken /\ state[q] = "Blocked" /\ state'[q] = "Blocked"
          /\ why'[q] = why[q] /\ dl'[q] = dl[q]
        BY <2>1, Zenon DEF TypeOK, TickEffect, Timed
    <2>3. WakeExpiredSleepers(Rest, Woken)
        BY <2>1, Zenon DEF TickEffect
    <2>4. futex_deadline'[q] = futex_deadline[q]
        BY <2>2, <2>3, Zenon DEF TypeOK, WakeExpiredSleepers
    <2>5. Timed(q) /\ DeadlineOf(q)' = DeadlineOf(q)
        BY <2>2, <2>4, Zenon DEF Timed, DeadlineOf
    <2>6. DeadlineKnown(q)
        BY <1>b, <2>5, Zenon
    <2>7. CASE ~ScanDue
        <3>1. EARLIEST_DEADLINE' = EARLIEST_DEADLINE
            BY <2>3, <2>7, Zenon DEF WakeExpiredSleepers
        <3>2. QED
            BY <2>2, <2>5, <2>6, <3>1, Zenon DEF DeadlineKnown
    <2>8. CASE ScanDue
        <3>0. DeadlineOf(q) \in 0..TSC_MAX /\ DeadlineOf(q) # 0
            BY <2>5, <2>6, DeadlineType, Zenon DEF DeadlineKnown, Timed
        <3>1. DeadlineOf(q) \in 1..TSC_MAX /\ now \in Nat
            BY ONLY <1>a, <3>0, ConstantsAssumption
        <3>2. DeadlineOf(q) > now
            <4>1. ~(DeadlineOf(q) # 0 /\ now >= DeadlineOf(q))
                <5> HIDE DEF Rest
                <5> QED
                    BY <2>2, <2>8, Zenon DEF Expired
            <4>2. QED
                BY ONLY <3>1, <4>1
        <3>3. q \in StillTimed(Rest)
            BY <2>2, <3>2, Zenon DEF StillTimed
        <3>4. EARLIEST_DEADLINE' <= DeadlineOf(q)
            BY <2>3, <2>8, <3>3, ScanMinimum, Zenon
        <3>5. QED
            BY <2>2, <2>5, <2>6, <3>4, Zenon DEF DeadlineKnown
    <2>9. QED
        BY <2>7, <2>8
<1>10. QED
    BY <1>1, <1>2, <1>4, <1>5, <1>7, <1>8, <1>9, StepKinds

----------------------------------------------------------------------------
(* Counting the tasks that wait. *)
INSTANCE FiniteSetTheorems

(* A set of tasks is finite and has a cardinality. *)
LEMMA TaskSets ==
    ASSUME NEW S \in SUBSET Pid
    PROVE  IsFiniteSet(S) /\ Cardinality(S) \in Nat
BY ConstantsAssumption, FS_Subset, FS_CardinalityType

(* The size of a set of tasks is a number. *)
LEMMA SizedHolds == Sized
BY TaskSets DEF Sized

(* A subset is no larger. *)
LEMMA SizeMono ==
    ASSUME NEW B \in SUBSET Pid, NEW A \in SUBSET B
    PROVE  Cardinality(A) <= Cardinality(B)
BY TaskSets, FS_Subset

(* One more task adds at most one. *)
LEMMA SizeAdd ==
    ASSUME NEW B \in SUBSET Pid, NEW p \in Pid, NEW A \in SUBSET (B \cup {p})
    PROVE  Cardinality(A) <= Cardinality(B) + 1
<1>1. B \cup {p} \in SUBSET Pid
    OBVIOUS
<1>2. Cardinality(A) <= Cardinality(B \cup {p})
    BY <1>1, SizeMono
<1>3. Cardinality(B \cup {p}) <= Cardinality(B) + 1
    BY TaskSets, FS_AddElement
<1>4. QED
    BY <1>1, <1>2, <1>3, TaskSets

(* Taking a subset out takes its size off. *)
LEMMA SizeRemove ==
    ASSUME NEW B \in SUBSET Pid, NEW C \in SUBSET B, NEW A \in SUBSET (B \ C)
    PROVE  Cardinality(A) <= Cardinality(B) - Cardinality(C)
<1>1. IsFiniteSet(B) /\ IsFiniteSet(C)
    BY TaskSets
<1>2. B \cap C = C
    OBVIOUS
<1>3. Cardinality(B \ C) = Cardinality(B) - Cardinality(C)
    BY <1>1, <1>2, FS_Difference, Zenon
<1>4. Cardinality(A) <= Cardinality(B \ C)
    BY SizeMono
<1>5. QED
    BY <1>3, <1>4

(* Whatever ends a wait, the counter keeps covering the armed deadlines. *)
LEMMA CountStep ==
    TypeOK /\ ExitHasCtid /\ CountCovers /\ [Next]_vars => CountCovers'
<1> SUFFICES ASSUME TypeOK, ExitHasCtid, CountCovers, [Next]_vars PROVE CountCovers'
    OBVIOUS
<1> USE ConstantsAssumption
<1>a. TypeOK'
    BY TypeStep, SizedHolds, Zenon
<1>b. /\ Sleepers \in SUBSET Pid /\ Armed \in SUBSET Pid
      /\ Sleepers' \in SUBSET Pid /\ Armed' \in SUBSET Pid
    BY Zenon DEF Sleepers, Armed
<1>c. /\ Cardinality(Sleepers) \in Nat /\ Cardinality(Armed) \in Nat
      /\ Cardinality(Sleepers') \in Nat /\ Cardinality(Armed') \in Nat
      /\ TIMED_BLOCK_COUNT \in Int /\ TIMED_BLOCK_COUNT' \in Int
    BY <1>a, <1>b, TaskSets, Zenon DEF TypeOK
<1>1. CASE Calm
    <2>1. Sleepers' \subseteq Sleepers
        BY <1>1, Zenon DEF Calm, Keeps, Leaves, Waits, Sleepers, BlockedOn
    <2>2. Armed' \subseteq Armed
        BY <1>1, Zenon DEF Calm, Keeps, Leaves, Armed
    <2>3. /\ Cardinality(Sleepers') <= Cardinality(Sleepers)
          /\ Cardinality(Armed') <= Cardinality(Armed)
        BY <1>b, <2>1, <2>2, SizeMono, Zenon
    <2>4. QED
        BY <1>1, <1>c, <2>3 DEF Calm, timerVars, CountCovers
<1>2. CASE ParksForSleep
    <2>1. PICK p \in Pid, d \in SleepFor : BlockSleep(p, d)
        BY <1>2, Zenon DEF ParksForSleep
    <2>2. Sleepers' \subseteq Sleepers \cup {p}
        BY <2>1, Zenon DEF TypeOK, BlockSleep, Park, Sleepers, BlockedOn
    <2>3. Armed' = Armed
        BY <2>1 DEF BlockSleep, Armed
    <2>4. Cardinality(Sleepers') <= Cardinality(Sleepers) + 1
        BY <1>b, <2>2, SizeAdd, Zenon
    <2>5. TIMED_BLOCK_COUNT' = TIMED_BLOCK_COUNT + 1
        BY <2>1 DEF BlockSleep, ArmDeadline
    <2>6. QED
        BY ONLY <1>c, <2>3, <2>4, <2>5, CountCovers DEF CountCovers
<1>3. ASSUME NEW p \in Pid, NEW reason \in {"FutexWait", "IoReady"}, NEW a,
             NEW d \in 0..TSC_MAX, Park(p, reason, a, d), ArmFutexDeadline(p, d)
      PROVE  CountCovers'
    <2>1. Sleepers' \subseteq Sleepers
        BY <1>3, Zenon DEF TypeOK, Park, Sleepers, BlockedOn
    <2>2. Cardinality(Sleepers') <= Cardinality(Sleepers)
        BY <1>b, <2>1, SizeMono, Zenon
    <2>3. CASE d = 0
        <3>1. Armed' = Armed /\ TIMED_BLOCK_COUNT' = TIMED_BLOCK_COUNT
            BY <1>3, <2>3, Zenon DEF ArmFutexDeadline, Armed, timerVars
        <3>2. QED
            BY ONLY <1>c, <2>2, <3>1, CountCovers DEF CountCovers
    <2>4. CASE d # 0
        <3>1. Armed' \subseteq Armed \cup {p}
            BY <1>3, <2>4, Zenon DEF TypeOK, ArmFutexDeadline, Armed
        <3>2. TIMED_BLOCK_COUNT' = TIMED_BLOCK_COUNT + 1
            BY <1>3, <2>4 DEF ArmFutexDeadline, ArmDeadline
        <3>3. Cardinality(Armed') <= Cardinality(Armed) + 1
            BY <1>b, <3>1, SizeAdd, Zenon
        <3>4. QED
            BY ONLY <1>c, <2>2, <3>2, <3>3, CountCovers DEF CountCovers
    <2>5. QED
        BY <2>3, <2>4, Zenon
<1>4. CASE ParksOnWord
    BY <1>3, <1>4, Zenon DEF ParksOnWord, FutexPark
<1>5. CASE ParksOnToken
    BY <1>3, <1>5, Zenon DEF ParksOnToken, ReadyPark
<1>6. ASSUME NEW W \in SUBSET Pid, \A q \in W : ~BlockedOn(q, "Sleep"),
             state' = Runnable(W), CancelDeadlines(W), UNCHANGED why
      PROVE  CountCovers'
    <2> DEFINE C == {p \in W : futex_deadline[p] # 0}
    <2>1. Sleepers' \subseteq Sleepers
        BY <1>6, Zenon DEF TypeOK, Runnable, Sleepers, BlockedOn
    <2>2. C \subseteq Armed /\ Armed' \subseteq Armed \ C
        BY <1>6, Zenon DEF TypeOK, CancelDeadlines, Armed
    <2>3. TIMED_BLOCK_COUNT' = TIMED_BLOCK_COUNT - Cardinality(C)
        BY <1>6, Zenon DEF CancelDeadlines
    <2>4. Cardinality(C) \in Nat
        BY TaskSets
    <2> HIDE DEF C
    <2>5. /\ Cardinality(Sleepers') <= Cardinality(Sleepers)
          /\ Cardinality(Armed') <= Cardinality(Armed) - Cardinality(C)
        BY <1>b, <2>1, <2>2, SizeMono, SizeRemove, Zenon
    <2>6. QED
        BY ONLY <1>c, <2>3, <2>4, <2>5, CountCovers DEF CountCovers
<1>7. CASE WakesWord
    <2>1. PICK W \in SUBSET Pid : Wake(W) /\ \A q \in W : BlockedOn(q, "FutexWait")
        <3>1. \A a \in Addr : FutexMatching(a) \in SUBSET Pid
                              /\ \A q \in FutexMatching(a) : BlockedOn(q, "FutexWait")
            BY DEF TypeOK, FutexMatching
        <3>2. \A a \in Addr : \A q \in FutexMatching(a) : {q} \in SUBSET Pid
            BY <3>1, Zenon
        <3>3. CASE \E p \in Pid, a \in Addr : WakesAll(p, a)
            BY <3>1, <3>3, Zenon DEF WakesAll
        <3>4. CASE \E a \in Addr : \E q \in FutexMatching(a) : WakesOne(a, q)
            <4>0. PICK a \in Addr : \E q \in FutexMatching(a) : WakesOne(a, q)
                BY <3>4, Zenon
            <4>1. PICK q \in FutexMatching(a) : WakesOne(a, q)
                BY <4>0
            <4>2. Wake({q}) /\ {q} \in SUBSET Pid /\ BlockedOn(q, "FutexWait")
                BY <3>1, <4>1, Zenon DEF WakesOne
            <4>3. QED
                BY <4>2, Zenon
        <3>5. QED
            BY <1>7, <3>3, <3>4, Zenon DEF WakesWord
    <2>2. QED
        BY <1>6, <2>1, Zenon DEF Wake, BlockedOn
<1>8. CASE WakesToken
    <2>1. PICK b \in Backend : WakeToken(b)
        BY <1>8, Zenon DEF WakesToken
    <2>2. QED
        BY <1>6, <2>1, Zenon DEF WakeToken, BlockedOn
<1>9. CASE Ticks
    <2>1. PICK c \in Core, sweep \in BOOLEAN, next \in Pid \cup {NoTask}, K, S \in SUBSET Pid :
            TickEffect(c, sweep, next, K, S)
        BY <1>9, TickCases, Zenon DEF Ticks
    <2> DEFINE Rest == Pid \ (K \cup S)
               Woken == Expired(Rest)
               WS == {p \in Woken : why[p] = "Sleep"}
               WF == {p \in Woken : why[p] # "Sleep"}
    <2>2. WakeExpiredSleepers(Rest, Woken)
        BY <2>1, Zenon DEF TickEffect
    <2>3. WS \subseteq Sleepers /\ Sleepers' \subseteq Sleepers \ WS
        BY <2>1, Zenon DEF TypeOK, TickEffect, Expired, DeadlineOf, Sleepers, BlockedOn
    <2>4. WF \subseteq Armed /\ Armed' \subseteq Armed \ WF
        BY <2>2, Zenon DEF TypeOK, WakeExpiredSleepers, Expired, DeadlineOf, Armed
    <2>5. /\ WS \in SUBSET Pid /\ WF \in SUBSET Pid
          /\ Woken = WS \cup WF /\ WS \cap WF = {}
        BY Zenon DEF Expired
    <2>6. TIMED_BLOCK_COUNT' = TIMED_BLOCK_COUNT - Cardinality(Woken)
        BY <2>2, Zenon DEF WakeExpiredSleepers
    <2> HIDE DEF Rest, Woken, WS, WF
    <2>7. Cardinality(Woken) = Cardinality(WS) + Cardinality(WF)
        <3>1. IsFiniteSet(WS) /\ IsFiniteSet(WF) /\ Cardinality(WS) \in Nat
              /\ Cardinality(WF) \in Nat
            BY <2>5, TaskSets, Zenon
        <3>2. Cardinality(WS \cup WF)
              = Cardinality(WS) + Cardinality(WF) - Cardinality(WS \cap WF)
            BY <3>1, FS_Union, Zenon
        <3>3. Cardinality(WS \cap WF) = 0
            BY <2>5, FS_EmptySet, Zenon
        <3>4. Cardinality(Woken) = Cardinality(WS \cup WF)
            BY <2>5, Zenon
        <3>5. QED
            BY ONLY <3>1, <3>2, <3>3, <3>4
    <2>8. /\ Cardinality(Sleepers') <= Cardinality(Sleepers) - Cardinality(WS)
          /\ Cardinality(Armed') <= Cardinality(Armed) - Cardinality(WF)
        BY <1>b, <2>3, <2>4, SizeRemove
    <2>9. Cardinality(WS) \in Nat /\ Cardinality(WF) \in Nat
        BY <2>5, TaskSets, Zenon
    <2>10. QED
        BY ONLY <1>c, <2>6, <2>7, <2>8, <2>9, CountCovers DEF CountCovers
<1>10. QED
    BY <1>1, <1>2, <1>4, <1>5, <1>7, <1>8, <1>9, StepKinds, Zenon

(* A timed wait is counted: it is a sleep or its deadline is armed. *)
LEMMA TimedIsCounted ==
    ASSUME TypeOK', CountCovers', NEW p \in Pid, Timed(p)', (DeadlineOf(p) = dl[p])'
    PROVE  (TIMED_BLOCK_COUNT > 0)'
<1>1. Sleepers' \in SUBSET Pid /\ Armed' \in SUBSET Pid
    BY Zenon DEF Sleepers, Armed
<1>2. p \in Sleepers' \/ p \in Armed'
    BY DEF Timed, DeadlineOf, Sleepers, Armed, BlockedOn
<1>3. IsFiniteSet(Sleepers') /\ IsFiniteSet(Armed')
      /\ Cardinality(Sleepers') \in Nat /\ Cardinality(Armed') \in Nat
    BY <1>1, TaskSets, Zenon
<1>4. Cardinality(Sleepers') # 0 \/ Cardinality(Armed') # 0
    BY <1>2, <1>3, FS_EmptySet
<1>5. TIMED_BLOCK_COUNT' \in Int
      /\ TIMED_BLOCK_COUNT' >= Cardinality(Sleepers') + Cardinality(Armed')
    BY Zenon DEF TypeOK, CountCovers
<1>6. QED
    BY ONLY <1>3, <1>4, <1>5

(* So the early returns of the scan never hide a deadline. *)
LEMMA DeadlineStep ==
    TypeOK /\ ExitHasCtid /\ CountCovers /\ DeadlineCovered /\ [Next]_vars
    => DeadlineCovered'
<1> SUFFICES ASSUME TypeOK, ExitHasCtid, CountCovers, DeadlineCovered, [Next]_vars,
                    NEW q \in Pid, Timed(q)'
             PROVE  (TIMED_BLOCK_COUNT > 0)' /\ DeadlineKnown(q)'
    BY DEF DeadlineCovered, DeadlineKnown
<1>1. TypeOK' /\ CountCovers'
    BY TypeStep, SizedHolds, CountStep
<1>2. DeadlineKnown(q)'
    BY <1>1, DeadlineKnownStep
<1>3. (TIMED_BLOCK_COUNT > 0)'
    BY <1>1, <1>2, TimedIsCounted, Zenon DEF DeadlineKnown
<1>4. QED
    BY <1>2, <1>3, Zenon

(* The initial state satisfies the inductive invariant. *)
LEMMA InitIInv == Init => IInv
<1> SUFFICES ASSUME Init PROVE IInv
    BY Zenon
<1>1. TypeOK
    BY ConstantsAssumption DEF Init, TypeOK, Word
<1>2. Sleepers = {} /\ Armed = {}
    BY Zenon DEF Init, Sleepers, Armed, BlockedOn
<1>3. CountCovers
    BY <1>2, FS_EmptySet DEF Init, CountCovers
<1>4. QED
    BY <1>1, <1>3, Zenon DEF Init, IInv, ExitHasCtid, DeadlineCovered, Timed,
       WaiterFindable, NoLostFutexWake, NoLostReadiness, BlockedOn

----------------------------------------------------------------------------
(* The invariant is inductive. *)
THEOREM Inductive == Spec => []IInv
<1>1. IInv /\ [Next]_vars => IInv'
    BY SizedHolds, TypeStep, ExitHasCtidStep, CountStep, DeadlineStep, WaiterStep, FutexWakeStep,
       ReadinessStep, Zenon DEF IInv
<1>2. QED
    BY InitIInv, <1>1, PTL DEF Spec

(* The variables of the waits keep their types. *)
THEOREM TypesOK == Spec => []TypeOK
BY Inductive, PTL DEF IInv

(* TIMED_BLOCK_COUNT covers the armed deadlines in every reachable state,  *)
(* so none of its fetch_sub calls wraps.                                   *)
THEOREM CountSound == Spec => []CountCovers
BY Inductive, PTL DEF IInv

(* The early returns of wake_expired_sleepers never skip a pending wait. *)
THEOREM DeadlinesSound == Spec => []DeadlineCovered
BY Inductive, PTL DEF IInv

(* A parked futex waiter can be found by the wake that looks for it. *)
THEOREM WaitersFindable == Spec => []WaiterFindable
BY Inductive, PTL DEF IInv

(* The futex lost-wakeup argument of sys_futex. *)
THEOREM FutexWakeSound == Spec => []NoLostFutexWake
BY Inductive, PTL DEF IInv

(* The lost-wakeup argument of io/readiness.rs. *)
THEOREM ReadinessSound == Spec => []NoLostReadiness
BY Inductive, PTL DEF IInv
==============================================================================
