------------------------------ MODULE UserSync ------------------------------
(***************************************************************************)
(* The locks of user programs (libmorpheus/src/sync.rs): Mutex, Condvar,   *)
(* OnceLock, RwLock and the mpsc channel built from the first two.  Each   *)
(* is a word of memory that threads change with atomic instructions and    *)
(* sleep on with FUTEX_WAIT; a step of the model is one such instruction   *)
(* or system call.  A thread is asleep on a word when its pc says so.      *)
(***************************************************************************)
EXTENDS Integers, FiniteSets

CONSTANTS Thread,
          Receiver,  \* the thread that owns the receiving end of the channel
          Scenes,    \* the primitives exercised, one in each behaviour
          MaxQueue,  \* bound on the messages waiting in the channel
          MaxHandles \* bound on the Sender handles of a thread

ASSUME SyncAssumption == /\ Receiver \in Thread /\ IsFiniteSet(Thread)
                         /\ MaxQueue \in Nat /\ MaxHandles \in Nat \ {0}

VARIABLES scene,   \* which primitive the threads use
          pc, ret, \* where a thread is, and where lock or unlock returns to
          loc,     \* the value a thread has read from a word
          mutex, once, rw, \* the words of the locks
          seq,     \* Condvar: incremented since the receiver read it
          data,    \* OnceLock: how often the initialiser has stored a value
          queue,   \* messages in the channel
          handles, \* Sender handles of a thread
          none     \* recv has returned None

vars == <<scene, pc, ret, loc, mutex, seq, once, rw, data, queue, handles, none>>
locks == <<scene, loc, once, rw, data>>
channel == <<seq, queue, handles, none>>
others == <<once, rw, data, channel>>

WRITER == -1   \* 0xFFFF_FFFF

\* Total of the Sender handles: the field `senders`.
NoSenders == \A t \in Thread : handles[t] = 0

Init == /\ scene \in Scenes
        /\ pc = [t \in Thread |-> "idle"] /\ ret = [t \in Thread |-> "idle"]
        /\ loc = [t \in Thread |-> 0]
        /\ mutex = 0 /\ seq = FALSE /\ once = 0 /\ rw = 0
        /\ data = 0 /\ queue = 0 /\ none = FALSE
        /\ handles = [t \in Thread |-> IF t = Receiver THEN 0 ELSE 1]

At(t, l) == pc[t] = l
Go(t, l) == pc' = [pc EXCEPT ![t] = l]
Call(t, l, back) == Go(t, l) /\ ret' = [ret EXCEPT ![t] = back]
Return(t) == Go(t, ret[t]) /\ UNCHANGED ret

\* FUTEX_WAKE of one thread, if any is asleep, or of all of them.  Asleep gives
\* for each label at which a thread sleeps on the word the label it wakes up at.
WakeOne(t, Asleep, next) ==
  \/ /\ \A u \in Thread : pc[u] \notin DOMAIN Asleep
     /\ Go(t, next)
  \/ \E u \in Thread : /\ pc[u] \in DOMAIN Asleep
                       /\ pc' = [pc EXCEPT ![u] = Asleep[pc[u]], ![t] = next]

WakeAll(t, Asleep, next) ==
  pc' = [u \in Thread |-> IF u = t THEN next
                          ELSE IF pc[u] \in DOMAIN Asleep THEN Asleep[pc[u]] ELSE pc[u]]

(***************************************************************************)
(* Mutex.                                                                  *)
(***************************************************************************)
LockCas(t) ==
  /\ At(t, "lock")
  /\ IF mutex = 0 THEN mutex' = 1 /\ Return(t) ELSE Go(t, "swap") /\ UNCHANGED <<mutex, ret>>
  /\ UNCHANGED <<scene, loc, others>>

\* Mutant: the slow path takes a lock that another thread holds uncontended.
LockSwapTakes(t) ==
  /\ At(t, "swap")
  /\ mutex' = 2
  /\ IF mutex # 2 THEN Return(t) ELSE Go(t, "park") /\ UNCHANGED ret
  /\ UNCHANGED <<scene, loc, others>>

\* Mutant: a thread that was woken takes the lock as uncontended.
LockSwapPlain(t) ==
  /\ At(t, "swap")
  /\ mutex' = IF mutex = 0 THEN 1 ELSE 2
  /\ IF mutex = 0 THEN Return(t) ELSE Go(t, "park") /\ UNCHANGED ret
  /\ UNCHANGED <<scene, loc, others>>

LockSwap(t) ==
  /\ At(t, "swap")
  /\ mutex' = 2
  /\ IF mutex = 0 THEN Return(t) ELSE Go(t, "park") /\ UNCHANGED ret
  /\ UNCHANGED <<scene, loc, others>>

LockPark(t) ==
  /\ At(t, "park")
  /\ Go(t, IF mutex = 2 THEN "parked" ELSE "swap")
  /\ UNCHANGED <<scene, ret, loc, mutex, others>>

Unlock(t) ==
  /\ At(t, "unlock")
  /\ mutex' = 0
  /\ IF mutex = 2 THEN Go(t, "unlockwake") /\ UNCHANGED ret ELSE Return(t)
  /\ UNCHANGED <<scene, loc, others>>

UnlockWake(t) ==
  /\ At(t, "unlockwake")
  /\ WakeOne(t, [parked |-> "swap"], ret[t])
  /\ UNCHANGED <<scene, ret, loc, mutex, others>>

UseLock(t) ==
  /\ At(t, "idle") /\ scene = "mutex"
  /\ Call(t, "lock", "crit") /\ UNCHANGED <<scene, loc, mutex, others>>

TryLock(t) ==
  /\ At(t, "idle") /\ scene = "mutex" /\ mutex = 0
  /\ mutex' = 1 /\ Go(t, "crit") /\ UNCHANGED <<scene, ret, loc, others>>

DropGuard(t) ==
  /\ At(t, "crit")
  /\ Call(t, "unlock", "idle") /\ UNCHANGED <<scene, loc, mutex, others>>

(***************************************************************************)
(* The channel.  The queue and its emptiness are read and changed while    *)
(* the thread holds the mutex; `senders' is an atomic of its own.          *)
(***************************************************************************)
Send(t) ==
  /\ At(t, "idle") /\ scene = "channel" /\ handles[t] > 0 /\ queue < MaxQueue
  /\ Call(t, "lock", "push") /\ UNCHANGED <<mutex, locks, channel>>

Push(t) ==
  /\ At(t, "push")
  /\ queue' = queue + 1
  /\ Call(t, "unlock", "notify") /\ UNCHANGED <<mutex, locks, seq, handles, none>>

\* Mutant: the waiter is woken before the sequence number moves.
NotifyOneStill(t) ==
  /\ At(t, "notify")
  /\ Go(t, "notifywake") /\ UNCHANGED <<mutex, locks, ret, channel>>

NotifyOne(t) ==
  /\ At(t, "notify")
  /\ seq' = TRUE
  /\ Go(t, "notifywake") /\ UNCHANGED <<mutex, locks, ret, queue, handles, none>>

NotifyWake(t) ==
  /\ At(t, "notifywake")
  /\ WakeOne(t, [waiting |-> "relock"], "idle")
  /\ UNCHANGED <<mutex, locks, ret, channel>>

CloneSender(t) ==
  /\ At(t, "idle") /\ scene = "channel" /\ handles[t] \in 1 .. MaxHandles - 1
  /\ handles' = [handles EXCEPT ![t] = @ + 1]
  /\ UNCHANGED <<pc, ret, mutex, locks, seq, queue, none>>

DropSender(t) ==
  /\ At(t, "idle") /\ scene = "channel" /\ handles[t] > 0
  /\ handles' = [handles EXCEPT ![t] = @ - 1]
  /\ Go(t, IF \A u \in Thread : handles'[u] = 0 THEN "notify" ELSE "idle")
  /\ UNCHANGED <<ret, mutex, locks, seq, queue, none>>

\* Where the receiver takes the mutex, and what it does when it has it: recv,
\* try_recv, the second look of recv, the end of Condvar::wait, recv's loop.
Enters == [idle |-> {"pop", "trypop"}, recheck |-> {"empty"}, relock |-> {"woken"},
           again |-> {"pop"}]

Recv(t) ==
  /\ scene = "channel" /\ t = Receiver /\ pc[t] \in DOMAIN Enters
  /\ \E back \in Enters[pc[t]] : Call(t, "lock", back)
  /\ UNCHANGED <<mutex, locks, channel>>

TryPop(t) ==
  /\ At(t, "trypop")
  /\ queue' = IF queue > 0 THEN queue - 1 ELSE 0
  /\ Call(t, "unlock", "idle") /\ UNCHANGED <<mutex, locks, seq, handles, none>>

\* Mutant: recv looks at the senders before it looks at the queue.
PopSendersFirst(t) ==
  /\ At(t, "pop")
  /\ IF NoSenders
     THEN none' = TRUE /\ UNCHANGED queue /\ Call(t, "unlock", "idle")
     ELSE /\ UNCHANGED none
          /\ IF queue > 0 THEN queue' = queue - 1 /\ Call(t, "unlock", "idle")
             ELSE UNCHANGED queue /\ Call(t, "unlock", "recheck")
  /\ UNCHANGED <<mutex, locks, seq, handles>>

Pop(t) ==
  /\ At(t, "pop")
  /\ IF queue > 0 THEN queue' = queue - 1 /\ Call(t, "unlock", "idle")
     ELSE UNCHANGED queue /\ Go(t, "senders") /\ UNCHANGED ret
  /\ UNCHANGED <<mutex, locks, seq, handles, none>>

LoadSenders(t) ==
  /\ At(t, "senders")
  /\ none' = NoSenders
  /\ Call(t, "unlock", IF NoSenders THEN "idle" ELSE "recheck")
  /\ UNCHANGED <<mutex, locks, seq, queue, handles>>

StillEmpty(t) ==
  /\ At(t, "empty")
  /\ IF queue = 0 /\ ~NoSenders THEN Go(t, "wait") /\ UNCHANGED ret
     ELSE Call(t, "unlock", "again")
  /\ UNCHANGED <<mutex, locks, channel>>

ReadSeq(t) ==
  /\ At(t, "wait")
  /\ seq' = FALSE
  /\ Call(t, "unlock", "sleep") /\ UNCHANGED <<mutex, locks, queue, handles, none>>

\* Condvar::wait sleeps unless the sequence number has moved.
CondPark(t) ==
  /\ At(t, "sleep")
  /\ Go(t, IF seq THEN "relock" ELSE "waiting")
  /\ UNCHANGED <<mutex, locks, ret, channel>>

DropWoken(t) ==
  /\ At(t, "woken")
  /\ Call(t, "unlock", "again") /\ UNCHANGED <<mutex, locks, channel>>

SendOp(t) == \/ Send(t) \/ Push(t) \/ NotifyOne(t) \/ NotifyWake(t) \/ CloneSender(t)
             \/ DropSender(t)

RecvOp(t) == \/ Recv(t) \/ TryPop(t) \/ Pop(t) \/ LoadSenders(t) \/ StillEmpty(t)
             \/ ReadSeq(t) \/ CondPark(t) \/ DropWoken(t)

MutexOp(t) == \/ UseLock(t) \/ TryLock(t) \/ LockCas(t) \/ LockSwap(t) \/ LockPark(t)
              \/ DropGuard(t) \/ Unlock(t) \/ UnlockWake(t)

(***************************************************************************)
(* OnceLock::get_or_init.  0 is empty, 1 initialising, 2 ready.            *)
(***************************************************************************)
plain == <<scene, ret, loc, mutex, rw, channel>>

OnceLoad(t) ==
  /\ At(t, "idle") /\ scene = "once"
  /\ Go(t, IF once = 2 THEN "have" ELSE "oncecas")
  /\ UNCHANGED <<plain, once, data>>

\* Mutant: whoever finds the cell not ready initialises it.
OnceCasAny(t) ==
  /\ At(t, "oncecas")
  /\ IF once # 2 THEN once' = 1 /\ Go(t, "init") ELSE Go(t, "onceloop") /\ UNCHANGED once
  /\ UNCHANGED <<plain, data>>

OnceCas(t) ==
  /\ At(t, "oncecas")
  /\ IF once = 0 THEN once' = 1 /\ Go(t, "init") ELSE Go(t, "onceloop") /\ UNCHANGED once
  /\ UNCHANGED <<plain, data>>

OnceInit(t) ==
  /\ At(t, "init")
  /\ data' = data + 1
  /\ Go(t, "ready") /\ UNCHANGED <<plain, once>>

OnceReady(t) ==
  /\ At(t, "ready")
  /\ once' = 2
  /\ Go(t, "oncewake") /\ UNCHANGED <<plain, data>>

\* Mutant: one of the threads that wait is woken.
OnceWakeOne(t) ==
  /\ At(t, "oncewake")
  /\ WakeOne(t, [onceasleep |-> "onceloop"], "have")
  /\ UNCHANGED <<plain, once, data>>

OnceWake(t) ==
  /\ At(t, "oncewake")
  /\ WakeAll(t, [onceasleep |-> "onceloop"], "have")
  /\ UNCHANGED <<plain, once, data>>

OnceLoop(t) ==
  /\ At(t, "onceloop")
  /\ Go(t, IF once = 2 THEN "have" ELSE "oncepark")
  /\ UNCHANGED <<plain, once, data>>

OncePark(t) ==
  /\ At(t, "oncepark")
  /\ Go(t, IF once = 1 THEN "onceasleep" ELSE "onceloop")
  /\ UNCHANGED <<plain, once, data>>

UseData(t) ==
  /\ At(t, "have")
  /\ Go(t, "idle") /\ UNCHANGED <<plain, once, data>>

OnceOp(t) == \/ OnceLoad(t) \/ OnceCas(t) \/ OnceInit(t) \/ OnceReady(t) \/ OnceWake(t)
             \/ OnceLoop(t) \/ OncePark(t) \/ UseData(t)

(***************************************************************************)
(* RwLock: the number of readers, or WRITER.                               *)
(***************************************************************************)
rest == <<scene, ret, mutex, once, data, channel>>

\* `read' and, with the exits it adds, `try_read'.
ReadLoad(t) ==
  /\ At(t, "idle") \/ At(t, "read")
  /\ scene = "rw"
  /\ loc' = [loc EXCEPT ![t] = rw]
  /\ \/ Go(t, IF rw = WRITER THEN "readpark" ELSE "readcas")
     \/ At(t, "idle") /\ rw # WRITER /\ Go(t, "tryreadcas")
  /\ UNCHANGED <<rest, rw>>

\* Mutant: the count is stored without checking that it is still the one read.
ReadCasBlind(t) ==
  /\ At(t, "readcas") \/ At(t, "tryreadcas")
  /\ rw' = loc[t] + 1 /\ Go(t, "reading")
  /\ UNCHANGED <<rest, loc>>

\* compare_exchange_weak may fail for no reason.
ReadCas(t) ==
  /\ At(t, "readcas") \/ At(t, "tryreadcas")
  /\ \/ rw = loc[t] /\ rw' = rw + 1 /\ Go(t, "reading")
     \/ rw # loc[t] /\ At(t, "tryreadcas") /\ Go(t, "idle") /\ UNCHANGED rw
     \/ At(t, "readcas") /\ Go(t, "read") /\ UNCHANGED rw
  /\ UNCHANGED <<rest, loc>>

ReadPark(t) ==
  /\ At(t, "readpark")
  /\ Go(t, IF rw = WRITER THEN "readasleep" ELSE "read")
  /\ UNCHANGED <<rest, loc, rw>>

\* `write' and `try_write'.
WriteCas(t) ==
  /\ At(t, "idle") \/ At(t, "write")
  /\ scene = "rw"
  /\ IF rw = 0 THEN rw' = WRITER /\ Go(t, "writing") ELSE Go(t, "writeload") /\ UNCHANGED rw
  /\ UNCHANGED <<rest, loc>>

WriteLoad(t) ==
  /\ At(t, "writeload")
  /\ loc' = [loc EXCEPT ![t] = rw] /\ Go(t, "writepark")
  /\ UNCHANGED <<rest, rw>>

WritePark(t) ==
  /\ At(t, "writepark")
  /\ Go(t, IF rw = loc[t] THEN "writeasleep" ELSE "write")
  /\ UNCHANGED <<rest, loc, rw>>

DropRead(t) ==
  /\ At(t, "reading")
  /\ rw' = rw - 1
  /\ Go(t, IF rw = 1 THEN "readwake" ELSE "idle")
  /\ UNCHANGED <<rest, loc>>

ReadWake(t) ==
  /\ At(t, "readwake")
  /\ WakeOne(t, [readasleep |-> "read", writeasleep |-> "write"], "idle")
  /\ UNCHANGED <<rest, loc, rw>>

DropWrite(t) ==
  /\ At(t, "writing")
  /\ rw' = 0
  /\ Go(t, "writewake") /\ UNCHANGED <<rest, loc>>

WriteWake(t) ==
  /\ At(t, "writewake")
  /\ WakeAll(t, [readasleep |-> "read", writeasleep |-> "write"], "idle")
  /\ UNCHANGED <<rest, loc, rw>>

RwOp(t) == \/ ReadLoad(t) \/ ReadCas(t) \/ ReadPark(t) \/ WriteCas(t) \/ WriteLoad(t)
           \/ WritePark(t) \/ DropRead(t) \/ ReadWake(t) \/ DropWrite(t) \/ WriteWake(t)

(***************************************************************************)
(* FUTEX_WAIT may return although nobody woke the thread: SIGCONT makes a  *)
(* blocked thread ready.                                                   *)
(***************************************************************************)
Resumes == [parked |-> "swap", waiting |-> "relock", onceasleep |-> "onceloop",
            readasleep |-> "read", writeasleep |-> "write"]

Unwoken(t) ==
  /\ pc[t] \in DOMAIN Resumes
  /\ Go(t, Resumes[pc[t]])
  /\ UNCHANGED <<scene, ret, loc, mutex, others>>

Step(t) == MutexOp(t) \/ SendOp(t) \/ RecvOp(t) \/ OnceOp(t) \/ RwOp(t)
Next == \E t \in Thread : Step(t) \/ Unwoken(t)

Spec == Init /\ [][Next]_vars

\* A fair scheduler runs every thread that is not asleep, and the critical
\* sections of this module end.  A thread need not begin another operation.
FairSpec == Spec /\ \A t \in Thread : WF_vars(~At(t, "idle") /\ Step(t))

-----------------------------------------------------------------------------
\* Where a thread owns the mutex.
Locked == {"crit", "push", "trypop", "pop", "senders", "empty", "wait", "woken", "unlock"}
MutexLabels == {"idle", "lock", "swap", "park", "parked", "unlockwake", "notify", "notifywake",
                "recheck", "sleep", "waiting", "relock", "again"} \cup Locked
OnceLabels == {"idle", "oncecas", "init", "ready", "oncewake", "onceloop", "oncepark",
               "onceasleep", "have"}
RwLabels == {"idle", "read", "readcas", "tryreadcas", "readpark", "readasleep", "reading",
             "readwake", "write", "writeload", "writepark", "writeasleep", "writing",
             "writewake"}
Labels == MutexLabels \cup OnceLabels \cup RwLabels

Holders == {t \in Thread : pc[t] \in Locked}

\* The words hold the values their comments list, and a thread knows where to
\* return to.
TypeOK ==
  /\ pc \in [Thread -> Labels] /\ ret \in [Thread -> Labels]
  /\ loc \in [Thread -> Int] /\ handles \in [Thread -> Nat]
  /\ mutex \in 0 .. 2 /\ once \in 0 .. 2 /\ seq \in BOOLEAN /\ none \in BOOLEAN
  /\ rw \in Nat \cup {WRITER} /\ data \in Nat /\ queue \in Nat

Lock == INSTANCE AbstractLock WITH holders <- Holders

\* The three-state Mutex, under Condvar and the channel too, implements a lock:
\* a thread gets it only when no thread has it, and its holder gives it up.
MutexIsLock == Lock!Spec

\* A thread asleep in Mutex::lock is not forgotten: the word says that there are
\* waiters, so that the holder will wake one, or a wake is on its way, or a thread
\* is about to write that there are.
MutexWaiterSeen ==
  (\E t \in Thread : At(t, "parked")) =>
    mutex = 2 \/ \E u \in Thread : At(u, "unlockwake") \/ At(u, "swap")

\* A message does not wait in the queue while the receiver sleeps, unless the
\* sender that put it there has still to wake the receiver.
MessageSeen ==
  (\E t \in Thread : At(t, "waiting")) /\ queue > 0 =>
    \E u \in Thread : At(u, "notifywake") \/ At(u, "notify")
                      \/ (ret[u] = "notify" /\ (At(u, "unlock") \/ At(u, "unlockwake")))

\* "Returns None when all senders dropped and queue empty": what recv returned
\* stays true.
NoneMeansDrained == none => NoSenders /\ queue = 0

\* OnceLock runs one initialiser, and no caller gets the value before it is
\* stored (get_or_init reads it with unwrap_unchecked).
OnceInitialised ==
  /\ data <= 1
  /\ \A t \in Thread : At(t, "have") => data = 1

Readers == {t \in Thread : At(t, "reading")}
Writers == {t \in Thread : At(t, "writing")}

\* RwLock: its word counts the readers, and a writer is alone.
RwExclusion ==
  IF Writers = {} THEN rw = Cardinality(Readers)
  ELSE rw = WRITER /\ Readers = {} /\ \E t \in Thread : Writers = {t}

\* A reader asleep in RwLock::read sleeps because of a writer, which wakes it.
RwReaderSeen ==
  (\E t \in Thread : At(t, "readasleep")) =>
    rw = WRITER \/ \E u \in Thread : At(u, "writewake")

\* RwLock excludes, and forgets no reader (both of the above).
RwSound == RwExclusion /\ RwReaderSeen

\* Every call of get_or_init returns.
OnceReturns == \A t \in Thread : At(t, "oncecas") ~> At(t, "have")
=============================================================================
