--------------------------- MODULE UserSyncProofs ---------------------------
(***************************************************************************)
(* Proofs about the locks of user programs, for any number of threads.     *)
(***************************************************************************)
EXTENDS UserSync, FiniteSetTheorems, TLAPS

-----------------------------------------------------------------------------
(***************************************************************************)
(* The inductive invariant.                                                *)
(***************************************************************************)
Locking == {"lock", "swap", "park", "parked"}
Unlocking == {"unlock", "unlockwake"}

\* lock returns to a place where the mutex is held, unlock to one where it is not.
RetInv ==
  \A t \in Thread :
    /\ pc[t] \in Locking => ret[t] \in {"crit", "push", "pop", "trypop", "empty", "woken"}
    /\ pc[t] \in Unlocking => ret[t] \in {"idle", "notify", "recheck", "sleep", "again"}

\* The word is 0 exactly when no thread holds the mutex; at most one does.
MutexInv ==
  /\ \A t, u \in Thread : pc[t] \in Locked /\ pc[u] \in Locked => t = u
  /\ mutex = 0 <=> \A t \in Thread : pc[t] \notin Locked

\* The initialiser is alone until it has stored the value and said so.
OnceInv ==
  /\ \A t, u \in Thread : pc[t] \in {"init", "ready"} /\ pc[u] \in {"init", "ready"} => t = u
  /\ \A t \in Thread : /\ pc[t] = "init" => once = 1 /\ data = 0
                       /\ pc[t] = "ready" => once = 1 /\ data = 1
                       /\ pc[t] \in {"oncewake", "have"} => once = 2
  /\ once = 0 => data = 0
  /\ once = 2 => data = 1
  /\ data \in {0, 1}

\* Where a thread is about to wake the receiver, and has not yet moved the
\* sequence number.
Notifying(u) == At(u, "notify") \/ (ret[u] = "notify" /\ (At(u, "unlock") \/ At(u, "unlockwake")))

\* Where only the receiver can be.
Receiving == {"trypop", "pop", "senders", "recheck", "empty", "wait", "sleep", "waiting",
              "relock", "woken", "again"}

\* A thread that is sending has a handle; the receiver that has found the queue
\* empty keeps it so while it holds the mutex, and afterwards a message that is
\* put there is announced by a sequence number that has moved or is going to.
ChannelInv ==
  /\ \A t \in Thread :
       /\ (pc[t] \in Receiving \/ (pc[t] \in Locking \cup Unlocking /\ ret[t] \in Receiving))
            => t = Receiver
       /\ (At(t, "push") \/ (pc[t] \in Locking /\ ret[t] = "push")) => handles[t] > 0
       /\ (pc[t] \in {"senders", "wait"} \/ (At(t, "unlock") /\ ret[t] = "sleep")) => queue = 0
       /\ (At(t, "sleep") \/ (At(t, "unlockwake") /\ ret[t] = "sleep")) /\ ~seq /\ queue > 0
            => \E u \in Thread : Notifying(u)

\* A reader that is about to count itself in has not seen a writer.
RwInv == \A t \in Thread : pc[t] \in {"readcas", "tryreadcas"} => loc[t] \in Nat

IInv == /\ TypeOK /\ RetInv /\ MutexInv /\ MutexWaiterSeen /\ OnceInv
        /\ ChannelInv /\ MessageSeen /\ NoneMeansDrained
        /\ RwInv /\ RwExclusion /\ RwReaderSeen

-----------------------------------------------------------------------------
(***************************************************************************)
(* The three kinds of step: of the mutex and the channel, of OnceLock, of  *)
(* RwLock.  A step of one kind moves threads among the labels of that kind *)
(* and leaves the words of the others alone.                               *)
(***************************************************************************)
MutexStep(t) == \/ MutexOp(t) \/ SendOp(t) \/ RecvOp(t)
                \/ Unwoken(t) /\ pc[t] \in {"parked", "waiting"}
OnceStep(t) == OnceOp(t) \/ (Unwoken(t) /\ pc[t] = "onceasleep")
RwStep(t) == RwOp(t) \/ (Unwoken(t) /\ pc[t] \in {"readasleep", "writeasleep"})

Moves(L) == \A u \in Thread : pc'[u] = pc[u] \/ (pc[u] \in L /\ pc'[u] \in L)

\* Where a thread goes on when it is woken.
LEMMA ResumesTo ==
  ASSUME NEW l \in DOMAIN Resumes
  PROVE  \/ l = "parked" /\ Resumes[l] = "swap"
         \/ l = "waiting" /\ Resumes[l] = "relock"
         \/ l = "onceasleep" /\ Resumes[l] = "onceloop"
         \/ l = "readasleep" /\ Resumes[l] = "read"
         \/ l = "writeasleep" /\ Resumes[l] = "write"
  BY DEF Resumes

\* Every step is of one of the kinds.
LEMMA Kinds == ASSUME NEW t \in Thread, Step(t) \/ Unwoken(t)
               PROVE  MutexStep(t) \/ OnceStep(t) \/ RwStep(t)
  <1>1. ASSUME Unwoken(t)
        PROVE  \/ pc[t] \in {"parked", "waiting"} \/ pc[t] = "onceasleep"
               \/ pc[t] \in {"readasleep", "writeasleep"}
    <2>1. pc[t] \in DOMAIN Resumes
      BY <1>1 DEF Unwoken
    <2> QED BY <2>1, ResumesTo
  <1> QED BY <1>1 DEF Step, MutexStep, OnceStep, RwStep

\* A step of the mutex or the channel.
LEMMA MutexMoves ==
  ASSUME TypeOK, RetInv, NEW t \in Thread, MutexStep(t)
  PROVE  pc' \in [Thread -> Labels] /\ Moves(MutexLabels) /\ UNCHANGED <<once, rw, data, loc>>
  <1>0. pc \in [Thread -> Labels] /\ ret \in [Thread -> Labels]
    BY DEF TypeOK
  <1> USE <1>0 DEF At, Go, Call, Return, WakeOne, others, channel, locks, RetInv, Locking,
    Unlocking, Labels, MutexLabels, Locked, Moves
  <1>1. CASE MutexOp(t)
    <2>1. CASE UseLock(t) \/ TryLock(t) \/ LockCas(t)
      BY <2>1 DEF UseLock, TryLock, LockCas
    <2>2. CASE LockSwap(t) \/ LockPark(t) \/ DropGuard(t)
      BY <2>2 DEF LockSwap, LockPark, DropGuard
    <2>3. CASE Unlock(t) \/ UnlockWake(t)
      BY <2>3 DEF Unlock, UnlockWake
    <2> QED BY <1>1, <2>1, <2>2, <2>3 DEF MutexOp
  <1>2. CASE SendOp(t)
    <2>1. CASE Send(t) \/ Push(t) \/ NotifyOne(t)
      BY <2>1 DEF Send, Push, NotifyOne
    <2>2. CASE NotifyWake(t) \/ CloneSender(t) \/ DropSender(t)
      BY <2>2 DEF NotifyWake, CloneSender, DropSender
    <2> QED BY <1>2, <2>1, <2>2 DEF SendOp
  <1>3. CASE RecvOp(t)
    <2>1. CASE Recv(t) \/ TryPop(t) \/ Pop(t)
      BY <2>1 DEF Recv, TryPop, Pop, Enters
    <2>2. CASE LoadSenders(t) \/ StillEmpty(t) \/ ReadSeq(t)
      BY <2>2 DEF LoadSenders, StillEmpty, ReadSeq
    <2>3. CASE CondPark(t) \/ DropWoken(t)
      BY <2>3 DEF CondPark, DropWoken
    <2> QED BY <1>3, <2>1, <2>2, <2>3 DEF RecvOp
  <1>4. CASE Unwoken(t) /\ pc[t] \in {"parked", "waiting"}
    BY <1>4, ResumesTo DEF Unwoken
  <1> QED BY <1>1, <1>2, <1>3, <1>4 DEF MutexStep

\* A step of OnceLock.
LEMMA OnceMoves ==
  ASSUME TypeOK, NEW t \in Thread, OnceStep(t)
  PROVE  pc' \in [Thread -> Labels] /\ Moves(OnceLabels) /\ UNCHANGED plain
  <1>0. pc \in [Thread -> Labels]
    BY DEF TypeOK
  <1> USE <1>0 DEF At, Go, WakeAll, plain, others, channel, Labels, OnceLabels, Moves
  <1>1. CASE OnceOp(t)
    <2>1. CASE OnceLoad(t) \/ OnceCas(t) \/ OnceInit(t)
      BY <2>1 DEF OnceLoad, OnceCas, OnceInit
    <2>2. CASE OnceReady(t) \/ OnceWake(t) \/ OnceLoop(t)
      BY <2>2 DEF OnceReady, OnceWake, OnceLoop
    <2>3. CASE OncePark(t) \/ UseData(t)
      BY <2>3 DEF OncePark, UseData
    <2> QED BY <1>1, <2>1, <2>2, <2>3 DEF OnceOp
  <1>2. CASE Unwoken(t) /\ pc[t] = "onceasleep"
    BY <1>2, ResumesTo DEF Unwoken
  <1> QED BY <1>1, <1>2 DEF OnceStep

\* A step of RwLock.
LEMMA RwMoves ==
  ASSUME TypeOK, NEW t \in Thread, RwStep(t)
  PROVE  pc' \in [Thread -> Labels] /\ Moves(RwLabels) /\ UNCHANGED rest
  <1>0. pc \in [Thread -> Labels]
    BY DEF TypeOK
  <1> USE <1>0 DEF At, Go, WakeOne, WakeAll, rest, others, channel, Labels, RwLabels, Moves
  <1>1. CASE RwOp(t)
    <2>1. CASE ReadLoad(t) \/ ReadCas(t) \/ ReadPark(t)
      BY <2>1 DEF ReadLoad, ReadCas, ReadPark
    <2>2. CASE WriteCas(t) \/ WriteLoad(t) \/ WritePark(t)
      BY <2>2 DEF WriteCas, WriteLoad, WritePark
    <2>3. CASE DropRead(t) \/ ReadWake(t) \/ DropWrite(t)
      BY <2>3 DEF DropRead, ReadWake, DropWrite
    <2>4. CASE WriteWake(t)
      BY <2>4 DEF WriteWake
    <2> QED BY <1>1, <2>1, <2>2, <2>3, <2>4, Zenon DEF RwOp
  <1>2. CASE Unwoken(t) /\ pc[t] \in {"readasleep", "writeasleep"}
    BY <1>2, ResumesTo DEF Unwoken
  <1> QED BY <1>1, <1>2 DEF RwStep

-----------------------------------------------------------------------------
(***************************************************************************)
(* The mutex and the channel.                                              *)
(***************************************************************************)
\* Steps of OnceLock and RwLock change nothing that the mutex depends on.
LEMMA MutexFrame ==
  ASSUME TypeOK, Moves(OnceLabels) \/ Moves(RwLabels), UNCHANGED <<mutex, ret, channel>>
  PROVE  /\ RetInv => RetInv'
         /\ MutexInv => MutexInv'
         /\ MutexWaiterSeen => MutexWaiterSeen'
         /\ ChannelInv => ChannelInv'
         /\ MessageSeen => MessageSeen'
         /\ NoneMeansDrained => NoneMeansDrained'
  <1>1. \A u \in Thread : \A l \in MutexLabels \ {"idle"} : pc'[u] = l <=> pc[u] = l
    BY DEF Moves, MutexLabels, OnceLabels, RwLabels, Locked
  <1> USE <1>1 DEF MutexLabels, Locked, channel, At
  <1>2. RetInv => RetInv'
    BY DEF RetInv, Locking, Unlocking
  <1>3. MutexInv => MutexInv'
    BY DEF MutexInv
  <1>4. MutexWaiterSeen => MutexWaiterSeen'
    BY DEF MutexWaiterSeen
  <1>5. ChannelInv => ChannelInv'
    BY DEF ChannelInv, Locking, Unlocking, Receiving, Notifying
  <1>6. MessageSeen => MessageSeen'
    BY DEF MessageSeen
  <1>7. NoneMeansDrained => NoneMeansDrained'
    BY DEF NoneMeansDrained, NoSenders
  <1> QED BY <1>2, <1>3, <1>4, <1>5, <1>6, <1>7

\* Lock and unlock know where to return to.
LEMMA RetKept == ASSUME IInv, NEW t \in Thread, MutexStep(t)
                 PROVE  RetInv'
  <1>0. /\ pc \in [Thread -> Labels] /\ ret \in [Thread -> Labels]
        /\ handles \in [Thread -> Nat] /\ queue \in Nat
    BY DEF IInv, TypeOK
  <1> USE <1>0 DEF At, Go, Call, Return, WakeOne, others, channel, locks, Locking,
    Unlocking, IInv, RetInv
  <1>1. CASE MutexOp(t)
    <2>1. CASE UseLock(t) \/ TryLock(t) \/ LockCas(t)
      BY <2>1 DEF UseLock, TryLock, LockCas
    <2>2. CASE LockSwap(t) \/ LockPark(t) \/ DropGuard(t)
      BY <2>2 DEF LockSwap, LockPark, DropGuard
    <2>3. CASE Unlock(t) \/ UnlockWake(t)
      BY <2>3 DEF Unlock, UnlockWake
    <2> QED BY <1>1, <2>1, <2>2, <2>3 DEF MutexOp
  <1>2. CASE SendOp(t)
    <2>1. CASE Send(t) \/ Push(t) \/ NotifyOne(t)
      BY <2>1 DEF Send, Push, NotifyOne
    <2>2. CASE NotifyWake(t) \/ CloneSender(t) \/ DropSender(t)
      BY <2>2 DEF NotifyWake, CloneSender, DropSender
    <2> QED BY <1>2, <2>1, <2>2 DEF SendOp
  <1>3. CASE RecvOp(t)
    <2>1. CASE Recv(t) \/ TryPop(t) \/ Pop(t)
      BY <2>1 DEF Recv, TryPop, Pop, Enters
    <2>2. CASE LoadSenders(t) \/ StillEmpty(t) \/ ReadSeq(t)
      BY <2>2 DEF LoadSenders, StillEmpty, ReadSeq
    <2>3. CASE CondPark(t) \/ DropWoken(t)
      BY <2>3 DEF CondPark, DropWoken
    <2> QED BY <1>3, <2>1, <2>2, <2>3 DEF RecvOp
  <1>4. CASE Unwoken(t) /\ pc[t] \in {"parked", "waiting"}
    BY <1>4, ResumesTo DEF Unwoken
  <1> QED BY <1>1, <1>2, <1>3, <1>4 DEF MutexStep

\* The word and the holder of the mutex stay in agreement.
LEMMA MutexKept == ASSUME IInv, NEW t \in Thread, MutexStep(t)
                   PROVE  MutexInv'
  <1>0. /\ pc \in [Thread -> Labels] /\ ret \in [Thread -> Labels]
        /\ handles \in [Thread -> Nat] /\ queue \in Nat
    BY DEF IInv, TypeOK
  <1> USE <1>0 DEF At, Go, Call, Return, WakeOne, others, channel, locks, Locking,
    Unlocking, IInv, RetInv, MutexInv, Locked
  <1>1. CASE MutexOp(t)
    <2>1. CASE UseLock(t) \/ TryLock(t) \/ LockCas(t)
      BY <2>1 DEF UseLock, TryLock, LockCas
    <2>2. CASE LockSwap(t) \/ LockPark(t) \/ DropGuard(t)
      BY <2>2 DEF LockSwap, LockPark, DropGuard
    <2>3. CASE Unlock(t) \/ UnlockWake(t)
      BY <2>3 DEF Unlock, UnlockWake
    <2> QED BY <1>1, <2>1, <2>2, <2>3 DEF MutexOp
  <1>2. CASE SendOp(t)
    <2>1. CASE Send(t) \/ Push(t) \/ NotifyOne(t)
      BY <2>1 DEF Send, Push, NotifyOne
    <2>2. CASE NotifyWake(t) \/ CloneSender(t) \/ DropSender(t)
      BY <2>2 DEF NotifyWake, CloneSender, DropSender
    <2> QED BY <1>2, <2>1, <2>2 DEF SendOp
  <1>3. CASE RecvOp(t)
    <2>1. CASE Recv(t) \/ TryPop(t) \/ Pop(t)
      BY <2>1 DEF Recv, TryPop, Pop, Enters
    <2>2. CASE LoadSenders(t) \/ StillEmpty(t) \/ ReadSeq(t)
      BY <2>2 DEF LoadSenders, StillEmpty, ReadSeq
    <2>3. CASE CondPark(t) \/ DropWoken(t)
      BY <2>3 DEF CondPark, DropWoken
    <2> QED BY <1>3, <2>1, <2>2, <2>3, Zenon DEF RecvOp
  <1>4. CASE Unwoken(t) /\ pc[t] \in {"parked", "waiting"}
    BY <1>4, ResumesTo DEF Unwoken
  <1> QED BY <1>1, <1>2, <1>3, <1>4 DEF MutexStep

\* The waiters of the mutex stay in sight.
LEMMA WaiterKept == ASSUME IInv, NEW t \in Thread, MutexStep(t)
                    PROVE  MutexWaiterSeen'
  <1>0. /\ pc \in [Thread -> Labels] /\ ret \in [Thread -> Labels]
        /\ handles \in [Thread -> Nat] /\ queue \in Nat
    BY DEF IInv, TypeOK
  <1> USE <1>0 DEF At, Go, Call, Return, WakeOne, others, channel, locks, Locking,
    Unlocking, IInv, RetInv, MutexInv, Locked, MutexWaiterSeen
  <1>1. CASE MutexOp(t)
    <2>1. CASE UseLock(t) \/ TryLock(t) \/ LockCas(t)
      BY <2>1 DEF UseLock, TryLock, LockCas
    <2>2. CASE LockSwap(t) \/ LockPark(t) \/ DropGuard(t)
      BY <2>2 DEF LockSwap, LockPark, DropGuard
    <2>3. CASE Unlock(t) \/ UnlockWake(t)
      BY <2>3 DEF Unlock, UnlockWake
    <2> QED BY <1>1, <2>1, <2>2, <2>3 DEF MutexOp
  <1>2. CASE SendOp(t)
    <2>1. CASE Send(t) \/ Push(t) \/ NotifyOne(t)
      BY <2>1 DEF Send, Push, NotifyOne
    <2>2. CASE NotifyWake(t) \/ CloneSender(t) \/ DropSender(t)
      BY <2>2 DEF NotifyWake, CloneSender, DropSender
    <2> QED BY <1>2, <2>1, <2>2 DEF SendOp
  <1>3. CASE RecvOp(t)
    <2>1. CASE Recv(t) \/ TryPop(t) \/ Pop(t)
      BY <2>1 DEF Recv, TryPop, Pop, Enters
    <2>2. CASE LoadSenders(t) \/ StillEmpty(t) \/ ReadSeq(t)
      BY <2>2 DEF LoadSenders, StillEmpty, ReadSeq
    <2>3. CASE CondPark(t) \/ DropWoken(t)
      BY <2>3 DEF CondPark, DropWoken
    <2> QED BY <1>3, <2>1, <2>2, <2>3 DEF RecvOp
  <1>4. CASE Unwoken(t) /\ pc[t] \in {"parked", "waiting"}
    BY <1>4, ResumesTo, Zenon DEF Unwoken
  <1> QED BY <1>1, <1>2, <1>3, <1>4 DEF MutexStep

\* The channel and its sequence number stay in agreement.
LEMMA ChannelKept == ASSUME IInv, NEW t \in Thread, MutexStep(t)
                     PROVE  ChannelInv'
  <1>0. /\ pc \in [Thread -> Labels] /\ ret \in [Thread -> Labels]
        /\ handles \in [Thread -> Nat] /\ queue \in Nat
    BY DEF IInv, TypeOK
  <1> USE <1>0 DEF At, Go, Call, Return, WakeOne, others, channel, locks, Locking,
    Unlocking, IInv, RetInv, MutexInv, Locked, ChannelInv, Notifying, Receiving
  <1>1. CASE MutexOp(t)
    <2>1. CASE UseLock(t) \/ TryLock(t) \/ LockCas(t)
      BY <2>1 DEF UseLock, TryLock, LockCas
    <2>2. CASE LockSwap(t) \/ LockPark(t) \/ DropGuard(t)
      BY <2>2 DEF LockSwap, LockPark, DropGuard
    <2>3. CASE Unlock(t) \/ UnlockWake(t)
      BY <2>3 DEF Unlock, UnlockWake
    <2> QED BY <1>1, <2>1, <2>2, <2>3, Zenon DEF MutexOp
  <1>2. CASE SendOp(t)
    <2>1. CASE Send(t) \/ Push(t) \/ NotifyOne(t)
      BY <2>1 DEF Send, Push, NotifyOne
    <2>2. CASE NotifyWake(t) \/ CloneSender(t) \/ DropSender(t)
      BY <2>2 DEF NotifyWake, CloneSender, DropSender
    <2> QED BY <1>2, <2>1, <2>2, Zenon DEF SendOp
  <1>3. CASE RecvOp(t)
    <2>1. CASE Recv(t) \/ TryPop(t) \/ Pop(t)
      BY <2>1 DEF Recv, TryPop, Pop, Enters
    <2>2. CASE LoadSenders(t) \/ StillEmpty(t) \/ ReadSeq(t)
      BY <2>2 DEF LoadSenders, StillEmpty, ReadSeq
    <2>3. CASE CondPark(t) \/ DropWoken(t)
      BY <2>3 DEF CondPark, DropWoken
    <2> QED BY <1>3, <2>1, <2>2, <2>3, Zenon DEF RecvOp
  <1>4. CASE Unwoken(t) /\ pc[t] \in {"parked", "waiting"}
    BY <1>4, ResumesTo DEF Unwoken
  <1> QED BY <1>1, <1>2, <1>3, <1>4, Zenon DEF MutexStep

\* The messages stay in sight.
LEMMA MessageKept == ASSUME IInv, NEW t \in Thread, MutexStep(t)
                     PROVE  MessageSeen'
  <1>0. /\ pc \in [Thread -> Labels] /\ ret \in [Thread -> Labels]
        /\ handles \in [Thread -> Nat] /\ queue \in Nat
    BY DEF IInv, TypeOK
  <1> USE <1>0 DEF At, Go, Call, Return, WakeOne, others, channel, locks, Locking,
    Unlocking, IInv, RetInv, ChannelInv, Notifying, Receiving, MessageSeen
  <1>1. CASE MutexOp(t)
    <2>1. CASE UseLock(t) \/ TryLock(t) \/ LockCas(t)
      BY <2>1 DEF UseLock, TryLock, LockCas
    <2>2. CASE LockSwap(t) \/ LockPark(t) \/ DropGuard(t)
      BY <2>2 DEF LockSwap, LockPark, DropGuard
    <2>3. CASE Unlock(t) \/ UnlockWake(t)
      BY <2>3 DEF Unlock, UnlockWake
    <2> QED BY <1>1, <2>1, <2>2, <2>3, Zenon DEF MutexOp
  <1>2. CASE SendOp(t)
    <2>1. CASE Send(t) \/ Push(t) \/ NotifyOne(t)
      BY <2>1 DEF Send, Push, NotifyOne
    <2>2. CASE NotifyWake(t) \/ CloneSender(t) \/ DropSender(t)
      BY <2>2 DEF NotifyWake, CloneSender, DropSender
    <2> QED BY <1>2, <2>1, <2>2 DEF SendOp
  <1>3. CASE RecvOp(t)
    <2>1. CASE Recv(t) \/ TryPop(t) \/ Pop(t)
      BY <2>1 DEF Recv, TryPop, Pop, Enters
    <2>2. CASE LoadSenders(t) \/ StillEmpty(t) \/ ReadSeq(t)
      BY <2>2 DEF LoadSenders, StillEmpty, ReadSeq
    <2>3. CASE CondPark(t) \/ DropWoken(t)
      BY <2>3 DEF CondPark, DropWoken
    <2> QED BY <1>3, <2>1, <2>2, <2>3, Zenon DEF RecvOp
  <1>4. CASE Unwoken(t) /\ pc[t] \in {"parked", "waiting"}
    BY <1>4, ResumesTo DEF Unwoken
  <1> QED BY <1>1, <1>2, <1>3, <1>4, Zenon DEF MutexStep

\* What recv has returned stays true.
LEMMA NoneKept == ASSUME IInv, NEW t \in Thread, MutexStep(t)
                  PROVE  NoneMeansDrained'
  <1>0. /\ handles \in [Thread -> Nat] /\ queue \in Nat /\ none \in BOOLEAN
        /\ none => NoSenders /\ queue = 0
        /\ pc[t] = "senders" => queue = 0
        /\ pc[t] = "push" => handles[t] > 0
    BY DEF IInv, TypeOK, NoneMeansDrained, ChannelInv, At
  <1> USE DEF At, channel, locks, others
  <1>1. CASE LoadSenders(t)
    <2>1. queue' = 0 /\ handles' = handles
      BY <1>0, <1>1 DEF LoadSenders
    <2>2. CASE NoSenders
      BY <2>1, <2>2 DEF NoneMeansDrained, NoSenders
    <2>3. CASE ~NoSenders
      <3>1. none' = FALSE
        BY <1>1, <2>3, Zenon DEF LoadSenders, NoSenders
      <3> QED BY <3>1 DEF NoneMeansDrained
    <2> QED BY <2>2, <2>3
  <1>2. CASE CloneSender(t) \/ Push(t) \/ DropSender(t)
    <2>1. handles[t] > 0 /\ none' = none
      BY <1>0, <1>2, SyncAssumption DEF CloneSender, Push, DropSender
    <2> QED BY <1>0, <2>1 DEF NoneMeansDrained, NoSenders
  <1>3. CASE TryPop(t) \/ Pop(t)
    <2>1. none' = none /\ handles' = handles /\ (queue = 0 => queue' = 0)
      BY <1>3 DEF TryPop, Pop
    <2> QED BY <1>0, <2>1 DEF NoneMeansDrained, NoSenders
  <1>4. CASE \/ MutexOp(t) \/ Unwoken(t) \/ Send(t) \/ NotifyOne(t) \/ NotifyWake(t)
             \/ Recv(t) \/ StillEmpty(t) \/ ReadSeq(t) \/ CondPark(t) \/ DropWoken(t)
    <2>1. CASE MutexOp(t) \/ Unwoken(t)
      BY <1>0, <2>1, Zenon DEF NoneMeansDrained, NoSenders, MutexOp, UseLock, TryLock, LockCas,
        LockSwap, LockPark, DropGuard, Unlock, UnlockWake, Unwoken
    <2>2. CASE Send(t) \/ NotifyOne(t) \/ NotifyWake(t) \/ Recv(t)
      BY <1>0, <2>2, Zenon DEF NoneMeansDrained, NoSenders, Send, NotifyOne, NotifyWake, Recv
    <2>3. CASE StillEmpty(t) \/ ReadSeq(t) \/ CondPark(t) \/ DropWoken(t)
      BY <1>0, <2>3, Zenon DEF NoneMeansDrained, NoSenders, StillEmpty, ReadSeq, CondPark, DropWoken
    <2> QED BY <1>4, <2>1, <2>2, <2>3, Zenon
  <1> QED BY <1>1, <1>2, <1>3, <1>4 DEF MutexStep, SendOp, RecvOp

-----------------------------------------------------------------------------
(***************************************************************************)
(* OnceLock.                                                               *)
(***************************************************************************)
\* The initialiser stays alone.
LEMMA OnceKept == ASSUME IInv, NEW t \in Thread, OnceStep(t)
                  PROVE  OnceInv'
  <1>0. pc \in [Thread -> Labels] /\ OnceInv
    BY DEF IInv, TypeOK
  <1> USE <1>0 DEF At, Go, WakeAll, plain, OnceInv
  <1>1. CASE OnceOp(t)
    <2>1. CASE OnceLoad(t) \/ OnceCas(t) \/ OnceInit(t)
      BY <2>1 DEF OnceLoad, OnceCas, OnceInit
    <2>2. CASE OnceReady(t) \/ OnceWake(t) \/ OnceLoop(t)
      BY <2>2 DEF OnceReady, OnceWake, OnceLoop
    <2>3. CASE OncePark(t) \/ UseData(t)
      BY <2>3 DEF OncePark, UseData
    <2> QED BY <1>1, <2>1, <2>2, <2>3 DEF OnceOp
  <1>2. CASE Unwoken(t) /\ pc[t] = "onceasleep"
    BY <1>2, ResumesTo DEF Unwoken, others
  <1> QED BY <1>1, <1>2 DEF OnceStep

\* Steps of the other locks leave OnceLock alone.
LEMMA OnceFrame ==
  ASSUME OnceInv, Moves(MutexLabels) \/ Moves(RwLabels), UNCHANGED <<once, data>>
  PROVE  OnceInv'
  <1>1. \A u \in Thread : \A l \in {"init", "ready", "oncewake", "have"} :
           pc'[u] = l <=> pc[u] = l
    BY DEF Moves, MutexLabels, RwLabels, Locked
  <1> QED BY <1>1 DEF OnceInv

-----------------------------------------------------------------------------
(***************************************************************************)
(* RwLock.                                                                 *)
(***************************************************************************)
\* Steps of the other locks leave RwLock alone.
LEMMA RwFrame ==
  ASSUME RwInv, RwExclusion, RwReaderSeen,
         Moves(MutexLabels) \/ Moves(OnceLabels), UNCHANGED <<rw, loc>>
  PROVE  RwInv' /\ RwExclusion' /\ RwReaderSeen'
  <1>1. \A u \in Thread : \A l \in RwLabels \ {"idle"} : pc'[u] = l <=> pc[u] = l
    BY DEF Moves, MutexLabels, OnceLabels, RwLabels, Locked
  <1> USE <1>1 DEF RwLabels, At
  <1>2. RwInv'
    BY DEF RwInv
  <1>3. RwReaderSeen'
    BY DEF RwReaderSeen
  <1>4. Readers' = Readers /\ Writers' = Writers
    BY DEF Readers, Writers
  <1> QED BY <1>2, <1>3, <1>4 DEF RwExclusion

\* The readers are finitely many.
LEMMA ReadersFinite == IsFiniteSet(Readers) /\ Cardinality(Readers) \in Nat
  BY SyncAssumption, FS_Subset, FS_CardinalityType DEF Readers

\* A thread that reads is counted: there is no writer, and the word is positive.
LEMMA ReaderCounted ==
  ASSUME RwExclusion, NEW t \in Readers
  PROVE  Writers = {} /\ rw \in Nat \ {0} /\ rw = Cardinality(Readers)
  <1>1. Writers = {} /\ rw = Cardinality(Readers)
    BY DEF RwExclusion
  <1>2. Cardinality(Readers) # 0
    BY ReadersFinite, FS_EmptySet
  <1> QED BY <1>1, <1>2, ReadersFinite

\* The word, the readers and the writer stay in agreement.
LEMMA RwKept == ASSUME IInv, NEW t \in Thread, RwStep(t)
                PROVE  RwExclusion'
  <1>0. pc \in [Thread -> Labels] /\ RwExclusion /\ RwInv
    BY DEF IInv, TypeOK
  <1> USE <1>0 DEF At, Go
  <1>1. CASE Unwoken(t) /\ pc[t] \in {"readasleep", "writeasleep"}
    <2>1. Readers' = Readers /\ Writers' = Writers /\ rw' = rw
      BY <1>1, ResumesTo DEF Unwoken, others, Readers, Writers
    <2> QED BY <2>1 DEF RwExclusion
  <1>2. CASE \/ ReadLoad(t) \/ ReadPark(t) \/ WriteLoad(t) \/ WritePark(t) \/ ReadWake(t)
             \/ WriteWake(t)
    <2>1. CASE ReadLoad(t) \/ ReadPark(t) \/ WriteLoad(t) \/ WritePark(t)
      BY <2>1 DEF ReadLoad, ReadPark, WriteLoad, WritePark, Readers, Writers, RwExclusion
    <2>2. CASE ReadWake(t) \/ WriteWake(t)
      <3>1. rw' = rw /\ \A u \in Thread : /\ pc'[u] = "reading" <=> pc[u] = "reading"
                                          /\ pc'[u] = "writing" <=> pc[u] = "writing"
        BY <2>2 DEF ReadWake, WriteWake, WakeOne, WakeAll
      <3>2. Readers' = Readers /\ Writers' = Writers
        BY <3>1 DEF Readers, Writers
      <3> QED BY <3>1, <3>2 DEF RwExclusion
    <2> QED BY <1>2, <2>1, <2>2
  <1>3. CASE ReadCas(t)
    <2>1. CASE rw' = rw /\ pc' # [pc EXCEPT ![t] = "reading"]
      <3>1. Readers' = Readers /\ Writers' = Writers
        BY <1>3, <2>1 DEF ReadCas, Readers, Writers
      <3> QED BY <2>1, <3>1 DEF RwExclusion
    <2>2. CASE rw = loc[t] /\ rw' = rw + 1 /\ pc' = [pc EXCEPT ![t] = "reading"]
      <3>1. rw \in Nat
        BY <1>3, <2>2 DEF ReadCas, RwInv
      <3>2. Writers = {} /\ rw = Cardinality(Readers)
        BY <3>1 DEF RwExclusion, WRITER
      <3>3. Readers' = Readers \cup {t} /\ t \notin Readers /\ Writers' = {}
        BY <1>3, <2>2, <3>2 DEF ReadCas, Readers, Writers
      <3>4. Cardinality(Readers') = Cardinality(Readers) + 1
        BY <3>3, ReadersFinite, FS_AddElement, Zenon
      <3> QED BY <2>2, <3>2, <3>3, <3>4 DEF RwExclusion
    <2> QED BY <1>3, <2>1, <2>2 DEF ReadCas
  <1>4. CASE WriteCas(t)
    <2>1. CASE rw # 0
      <3>1. Readers' = Readers /\ Writers' = Writers /\ rw' = rw
        BY <1>4, <2>1 DEF WriteCas, Readers, Writers
      <3> QED BY <3>1 DEF RwExclusion
    <2>2. CASE rw = 0
      <3>1. Writers = {} /\ Cardinality(Readers) = 0
        BY <2>2 DEF RwExclusion, WRITER
      <3>2. Readers = {}
        BY <3>1, ReadersFinite, FS_EmptySet
      <3>3. Readers' = {} /\ Writers' = {t} /\ rw' = WRITER
        BY <1>4, <2>2, <3>1, <3>2 DEF WriteCas, Readers, Writers
      <3> QED BY <3>3 DEF RwExclusion
    <2> QED BY <2>1, <2>2
  <1>5. CASE DropRead(t)
    <2>1. t \in Readers
      BY <1>5 DEF DropRead, Readers
    <2>2. Writers = {} /\ rw \in Nat \ {0} /\ rw = Cardinality(Readers)
      BY <2>1, ReaderCounted
    <2>3. Readers' = Readers \ {t} /\ Writers' = {} /\ rw' = rw - 1
      BY <1>5, <2>2 DEF DropRead, Readers, Writers
    <2>4. Cardinality(Readers') = Cardinality(Readers) - 1
      BY <2>1, <2>3, ReadersFinite, FS_RemoveElement, Zenon
    <2>5. Writers' = {} /\ rw' = Cardinality(Readers')
      BY <2>2, <2>3, <2>4
    <2> QED BY <2>5 DEF RwExclusion
  <1>6. CASE DropWrite(t)
    <2>1. t \in Writers
      BY <1>6 DEF DropWrite, Writers
    <2>2. Readers = {} /\ Writers = {t}
      BY <2>1 DEF RwExclusion
    <2>3. Readers' = {} /\ Writers' = {} /\ rw' = 0
      BY <1>6, <2>2 DEF DropWrite, Readers, Writers
    <2> QED BY <2>3, FS_EmptySet DEF RwExclusion
  <1> QED BY <1>1, <1>2, <1>3, <1>4, <1>5, <1>6 DEF RwStep, RwOp

\* A reader has counted itself in from a count it read.
LEMMA RwLocKept == ASSUME IInv, NEW t \in Thread, RwStep(t)
                   PROVE  RwInv'
  <1>0. /\ pc \in [Thread -> Labels] /\ loc \in [Thread -> Int] /\ rw \in Nat \cup {WRITER}
        /\ RwInv
    BY Zenon DEF IInv, TypeOK
  <1> USE <1>0 DEF At, Go, WakeOne, WakeAll, RwInv, WRITER
  <1>1. CASE RwOp(t)
    <2>1. CASE ReadLoad(t) \/ ReadCas(t) \/ ReadPark(t)
      BY <2>1 DEF ReadLoad, ReadCas, ReadPark
    <2>2. CASE WriteCas(t) \/ WriteLoad(t) \/ WritePark(t)
      BY <2>2 DEF WriteCas, WriteLoad, WritePark
    <2>3. CASE DropRead(t) \/ ReadWake(t) \/ DropWrite(t)
      BY <2>3 DEF DropRead, ReadWake, DropWrite
    <2>4. CASE WriteWake(t)
      BY <2>4 DEF WriteWake
    <2> QED BY <1>1, <2>1, <2>2, <2>3, <2>4 DEF RwOp
  <1>2. CASE Unwoken(t) /\ pc[t] \in {"readasleep", "writeasleep"}
    BY <1>2, ResumesTo DEF Unwoken
  <1> QED BY <1>1, <1>2 DEF RwStep

\* The word leaves WRITER by the writer's hand, which then wakes the readers.
LEMMA RwSeenKept == ASSUME IInv, NEW t \in Thread, RwStep(t)
                    PROVE  RwReaderSeen'
  <1>0. /\ pc \in [Thread -> Labels] /\ rw \in Nat \cup {WRITER}
        /\ RwInv /\ RwExclusion /\ RwReaderSeen
    BY DEF IInv, TypeOK
  <1> USE <1>0 DEF At, Go, WakeOne, WakeAll, RwReaderSeen
  <1>1. CASE DropRead(t)
    <2>1. t \in Readers
      BY <1>1 DEF DropRead, Readers
    <2>2. rw # WRITER
      BY <2>1, ReaderCounted DEF WRITER
    <2> QED BY <1>1, <2>2 DEF DropRead
  <1>2. CASE ReadCas(t)
    <2>1. rw # rw' => rw # WRITER
      BY <1>2 DEF ReadCas, RwInv, WRITER
    <2> QED BY <1>2, <2>1 DEF ReadCas
  <1>3. CASE WriteCas(t)
    BY <1>3 DEF WriteCas, WRITER
  <1>4. CASE ReadLoad(t) \/ ReadPark(t) \/ WriteLoad(t) \/ WritePark(t)
    BY <1>4, Zenon DEF ReadLoad, ReadPark, WriteLoad, WritePark
  <1>5. CASE ReadWake(t) \/ DropWrite(t) \/ WriteWake(t)
    BY <1>5 DEF ReadWake, DropWrite, WriteWake
  <1>6. CASE Unwoken(t) /\ pc[t] \in {"readasleep", "writeasleep"}
    BY <1>6, ResumesTo DEF Unwoken, others
  <1> QED BY <1>1, <1>2, <1>3, <1>4, <1>5, <1>6 DEF RwStep, RwOp

-----------------------------------------------------------------------------
(***************************************************************************)
(* The theorems.                                                           *)
(***************************************************************************)
\* Every step keeps the types; the readers are counted, so the word of RwLock
\* stays in range.
LEMMA TypeKept == ASSUME IInv, NEW t \in Thread, Step(t) \/ Unwoken(t)
                  PROVE  TypeOK'
  <1>0. TypeOK /\ RetInv /\ RwInv /\ RwExclusion
    BY DEF IInv
  <1> USE SyncAssumption, <1>0
  <1>1. CASE MutexStep(t)
    <2>1. pc' \in [Thread -> Labels] /\ UNCHANGED <<once, rw, data, loc>>
      BY <1>1, MutexMoves
    <2>2. mutex' \in 0 .. 2
      <3>1. CASE MutexOp(t) \/ Unwoken(t)
        BY <3>1 DEF TypeOK, MutexOp, UseLock, TryLock, LockCas, LockSwap, LockPark,
          DropGuard, Unlock, UnlockWake, Unwoken
      <3>2. CASE SendOp(t)
        BY <3>2, Zenon DEF TypeOK, SendOp, Send, Push, NotifyOne, NotifyWake, CloneSender,
          DropSender
      <3>3. CASE RecvOp(t)
        BY <3>3, Zenon DEF TypeOK, RecvOp, Recv, TryPop, Pop, LoadSenders, StillEmpty, ReadSeq,
          CondPark, DropWoken
      <3> QED BY <1>1, <3>1, <3>2, <3>3, Zenon DEF MutexStep
    <2>3. ret' \in [Thread -> Labels]
      <3> USE DEF TypeOK, Call, Return, Labels, MutexLabels, Locked
      <3>1. CASE MutexOp(t)
        <4>1. CASE UseLock(t) \/ TryLock(t) \/ LockCas(t)
          BY <4>1, Zenon DEF UseLock, TryLock, LockCas
        <4>2. CASE LockSwap(t) \/ LockPark(t) \/ DropGuard(t)
          BY <4>2, Zenon DEF LockSwap, LockPark, DropGuard
        <4>3. CASE Unlock(t) \/ UnlockWake(t)
          BY <4>3, Zenon DEF Unlock, UnlockWake
        <4> QED BY <3>1, <4>1, <4>2, <4>3, Zenon DEF MutexOp
      <3>2. CASE SendOp(t)
        <4>1. CASE Send(t) \/ Push(t) \/ NotifyOne(t)
          BY <4>1, Zenon DEF Send, Push, NotifyOne
        <4>2. CASE NotifyWake(t) \/ CloneSender(t) \/ DropSender(t)
          BY <4>2 DEF NotifyWake, CloneSender, DropSender
        <4> QED BY <3>2, <4>1, <4>2, Zenon DEF SendOp
      <3>3. CASE RecvOp(t)
        <4>1. CASE Recv(t) \/ TryPop(t) \/ Pop(t)
          BY <4>1 DEF Recv, TryPop, Pop, Enters
        <4>2. CASE LoadSenders(t) \/ StillEmpty(t) \/ ReadSeq(t)
          BY <4>2, Zenon DEF LoadSenders, StillEmpty, ReadSeq
        <4>3. CASE CondPark(t) \/ DropWoken(t)
          BY <4>3, Zenon DEF CondPark, DropWoken
        <4> QED BY <3>3, <4>1, <4>2, <4>3, Zenon DEF RecvOp
      <3>4. CASE Unwoken(t)
        BY <3>4 DEF Unwoken
      <3> QED BY <1>1, <3>1, <3>2, <3>3, <3>4, Zenon DEF MutexStep
    <2>4. seq' \in BOOLEAN /\ none' \in BOOLEAN
      <3>1. CASE LoadSenders(t)
        BY <3>1, Zenon DEF LoadSenders, NoSenders, TypeOK
      <3>2. CASE NotifyOne(t) \/ ReadSeq(t)
        BY <3>2, Zenon DEF NotifyOne, ReadSeq, TypeOK
      <3>3. CASE ~LoadSenders(t) /\ ~NotifyOne(t) /\ ~ReadSeq(t)
        <4>1. UNCHANGED <<seq, none>>
          BY <1>1, <3>3, Zenon DEF channel, others, MutexStep, MutexOp, UseLock, TryLock, LockCas,
            LockSwap, LockPark, DropGuard, Unlock, UnlockWake, SendOp, Send, Push,
            NotifyWake, CloneSender, DropSender, RecvOp, Recv, TryPop, Pop, StillEmpty,
            CondPark, DropWoken, Unwoken
        <4> QED BY <4>1, Zenon DEF TypeOK
      <3> QED BY <3>1, <3>2, <3>3
    <2>5. handles' \in [Thread -> Nat] /\ queue' \in Nat
      <3>1. CASE CloneSender(t) \/ DropSender(t)
        BY <3>1 DEF CloneSender, DropSender, TypeOK
      <3>2. CASE Push(t) \/ TryPop(t) \/ Pop(t)
        BY <3>2 DEF Push, TryPop, Pop, TypeOK
      <3>3. CASE ~(CloneSender(t) \/ DropSender(t) \/ Push(t) \/ TryPop(t) \/ Pop(t))
        <4>1. UNCHANGED <<handles, queue>>
          BY <1>1, <3>3, Zenon DEF channel, others, MutexStep, MutexOp, UseLock, TryLock, LockCas,
            LockSwap, LockPark, DropGuard, Unlock, UnlockWake, SendOp, Send, NotifyOne,
            NotifyWake, RecvOp, Recv, LoadSenders, StillEmpty, ReadSeq, CondPark, DropWoken,
            Unwoken
        <4> QED BY <4>1, Zenon DEF TypeOK
      <3> QED BY <3>1, <3>2, <3>3, Zenon
    <2> QED BY <2>1, <2>2, <2>3, <2>4, <2>5 DEF TypeOK
  <1>2. CASE OnceStep(t)
    <2>1. pc' \in [Thread -> Labels] /\ UNCHANGED plain
      BY <1>2, OnceMoves, Zenon
    <2>2. once' \in 0 .. 2 /\ data' \in Nat
      BY <1>2 DEF TypeOK, OnceStep, OnceOp, OnceLoad, OnceCas, OnceInit, OnceReady, OnceWake,
        OnceLoop, OncePark, UseData, Unwoken, others
    <2> QED BY <2>1, <2>2 DEF TypeOK, plain, channel
  <1>3. CASE RwStep(t)
    <2>1. pc' \in [Thread -> Labels] /\ UNCHANGED rest
      BY <1>3, RwMoves
    <2>2. rw' \in Nat \cup {WRITER} /\ loc' \in [Thread -> Int]
      <3>1. CASE DropRead(t)
        <4>1. t \in Readers
          BY <3>1 DEF DropRead, Readers
        <4>2. rw \in Nat \ {0}
          BY <4>1, ReaderCounted
        <4> QED BY <3>1, <4>2 DEF DropRead, TypeOK
      <3>2. CASE ReadCas(t)
        <4>1. rw \in Nat \cup {WRITER} /\ loc \in [Thread -> Int]
          BY Zenon DEF TypeOK
        <4>2. loc[t] \in Nat
          BY <3>2, Zenon DEF ReadCas, RwInv, At
        <4>3. loc' = loc /\ (rw' = rw \/ (rw = loc[t] /\ rw' = rw + 1))
          BY <3>2, Zenon DEF ReadCas
        <4> QED BY ONLY <4>1, <4>2, <4>3
      <3>3. CASE ~DropRead(t) /\ ~ReadCas(t)
        BY <1>3, <3>3 DEF RwStep, RwOp, ReadLoad, ReadPark, WriteCas, WriteLoad, WritePark,
          ReadWake, DropWrite, WriteWake, Unwoken, others, TypeOK, WRITER
      <3> QED BY <3>1, <3>2, <3>3
    <2> QED BY <2>1, <2>2 DEF TypeOK, rest, channel
  <1> QED BY <1>1, <1>2, <1>3, Kinds

\* The program starts in the invariant.
LEMMA InitInv == Init => IInv
  <1> SUFFICES ASSUME Init PROVE IInv
    OBVIOUS
  <1>1. Readers = {} /\ Writers = {}
    BY DEF Init, Readers, Writers, At
  <1>2. RwExclusion
    BY <1>1, FS_EmptySet DEF Init, RwExclusion
  <1>3. TypeOK
    <2>1. handles \in [Thread -> Nat] /\ loc \in [Thread -> Int]
      BY DEF Init
    <2>2. "idle" \in Labels
      BY DEF Labels, MutexLabels
    <2>3. pc \in [Thread -> Labels] /\ ret \in [Thread -> Labels]
      BY <2>2 DEF Init
    <2>4. seq \in BOOLEAN /\ none \in BOOLEAN
      BY Zenon DEF Init
    <2> QED BY <2>1, <2>3, <2>4 DEF Init, TypeOK
  <1>4. \A t \in Thread : pc[t] = "idle"
    BY Zenon DEF Init
  <1>5. /\ RetInv /\ MutexInv /\ MutexWaiterSeen /\ OnceInv
        /\ ChannelInv /\ MessageSeen /\ NoneMeansDrained /\ RwInv /\ RwReaderSeen
    BY <1>4 DEF Init, RetInv, MutexInv, MutexWaiterSeen, OnceInv, ChannelInv, MessageSeen,
      NoneMeansDrained, RwInv, RwReaderSeen, At, Locking, Unlocking, Locked, Receiving,
      Notifying
  <1> QED BY <1>2, <1>3, <1>5 DEF IInv

\* A step that changes nothing keeps the invariant.
LEMMA StutterInv == ASSUME IInv, UNCHANGED vars PROVE IInv'
  <1> USE DEF vars, IInv
  <1>1. TypeOK' /\ RetInv' /\ MutexInv' /\ OnceInv' /\ NoneMeansDrained' /\ RwInv'
    BY Zenon DEF TypeOK, RetInv, MutexInv, OnceInv, NoneMeansDrained, NoSenders, RwInv
  <1>2. MutexWaiterSeen' /\ MessageSeen' /\ RwReaderSeen'
    BY Zenon DEF MutexWaiterSeen, MessageSeen, RwReaderSeen, At
  <1>3. ChannelInv'
    BY DEF ChannelInv, At, Notifying
  <1>4. RwExclusion'
    BY DEF RwExclusion, Readers, Writers, At
  <1> QED BY <1>1, <1>2, <1>3, <1>4, Zenon

\* A step keeps the invariant.
LEMMA StepInv == ASSUME IInv, NEW t \in Thread, Step(t) \/ Unwoken(t) PROVE IInv'
  <1>1. TypeOK'
    BY TypeKept, Zenon
  <1>2. CASE MutexStep(t)
    <2>1. Moves(MutexLabels) /\ UNCHANGED <<once, rw, data, loc>>
      BY <1>2, MutexMoves DEF IInv
    <2>2. OnceInv' /\ RwInv' /\ RwExclusion' /\ RwReaderSeen'
      BY <2>1, OnceFrame, RwFrame, Zenon DEF IInv
    <2> QED BY <1>1, <1>2, <2>2, RetKept, MutexKept, WaiterKept, ChannelKept, MessageKept,
               NoneKept DEF IInv
  <1>3. CASE OnceStep(t)
    <2>1. Moves(OnceLabels) /\ UNCHANGED plain
      BY <1>3, OnceMoves DEF IInv
    <2>2. UNCHANGED <<mutex, ret, channel, rw, loc>>
      BY <2>1 DEF plain
    <2>3. RwInv' /\ RwExclusion' /\ RwReaderSeen'
      BY <2>1, <2>2, RwFrame DEF IInv
    <2>4. OnceInv'
      BY <1>3, OnceKept
    <2> QED BY <1>1, <2>1, <2>2, <2>3, <2>4, MutexFrame DEF IInv
  <1>4. CASE RwStep(t)
    <2>1. Moves(RwLabels) /\ UNCHANGED rest
      BY <1>4, RwMoves DEF IInv
    <2>2. UNCHANGED <<mutex, ret, channel, once, data>>
      BY <2>1 DEF rest
    <2>3. OnceInv'
      BY <2>1, <2>2, OnceFrame DEF IInv
    <2>4. RwInv' /\ RwExclusion' /\ RwReaderSeen'
      BY <1>4, RwLocKept, RwKept, RwSeenKept
    <2> QED BY <1>1, <2>1, <2>2, <2>3, <2>4, MutexFrame DEF IInv
  <1> QED BY <1>2, <1>3, <1>4, Kinds

\* The invariant holds throughout, whatever the number of threads.
THEOREM Invariance == Spec => []IInv
  <1>1. ASSUME IInv, [Next]_vars
        PROVE  IInv'
    BY <1>1, StutterInv, StepInv DEF Next
  <1> QED BY <1>1, InitInv, PTL DEF Spec

\* Mutex never forgets a thread asleep in lock.
THEOREM WaitersSeen == Spec => []MutexWaiterSeen
  <1>1. IInv => MutexWaiterSeen
    BY DEF IInv
  <1> QED BY <1>1, Invariance, PTL

\* The channel never leaves a message to a receiver that sleeps unwarned.
THEOREM MessagesSeen == Spec => []MessageSeen
  <1>1. IInv => MessageSeen
    BY DEF IInv
  <1> QED BY <1>1, Invariance, PTL

\* When recv returns None the channel is closed and empty for good.
THEOREM NoneIsFinal == Spec => []NoneMeansDrained
  <1>1. IInv => NoneMeansDrained
    BY DEF IInv
  <1> QED BY <1>1, Invariance, PTL

\* OnceLock initialises once and hands out nothing before.
THEOREM OnceSafe == Spec => []OnceInitialised
  <1>1. IInv => OnceInitialised
    BY DEF IInv, OnceInv, OnceInitialised, At
  <1> QED BY <1>1, Invariance, PTL

\* RwLock excludes, and a reader asleep is in its writer's sight.
THEOREM RwSafe == Spec => []RwSound
  <1>1. IInv => RwSound
    BY DEF IInv, RwSound
  <1> QED BY <1>1, Invariance, PTL

\* A step of Mutex is a step of the abstract lock, or leaves the holder as it is.
LEMMA LockStep == ASSUME IInv, [Next]_vars PROVE [Lock!Next]_Holders
  <1>1. TypeOK /\ RetInv /\ MutexInv
    BY DEF IInv
  <1> USE <1>1 DEF At, Go, Call, Return, WakeOne, WakeAll, Locking, Unlocking, Locked,
    TypeOK
  <1>2. ASSUME NEW t \in Thread, LockCas(t) \/ LockSwap(t) \/ TryLock(t), mutex = 0
        PROVE  Lock!Next
    <2>1. Holders = {} /\ Holders' = {t}
      BY <1>2 DEF LockCas, LockSwap, TryLock, RetInv, MutexInv, Holders
    <2> QED BY <2>1, Zenon DEF Lock!Next, Lock!Acquire
  <1>3. ASSUME NEW t \in Thread, Unlock(t)
        PROVE  Lock!Next
    <2>1. Holders = {t} /\ Holders' = {}
      BY <1>3, Zenon DEF Unlock, RetInv, MutexInv, Holders
    <2> QED BY <2>1 DEF Lock!Next, Lock!Release
  <1>4. ASSUME NEW t \in Thread,
               \/ (LockCas(t) \/ LockSwap(t)) /\ mutex # 0
               \/ UseLock(t) \/ LockPark(t) \/ DropGuard(t) \/ UnlockWake(t)
        PROVE  \A u \in Thread : pc'[u] \in Locked <=> pc[u] \in Locked
    BY <1>4 DEF LockCas, LockSwap, UseLock, LockPark, DropGuard, UnlockWake, RetInv
  <1>5. ASSUME NEW t \in Thread, SendOp(t) \/ RecvOp(t) \/ (Unwoken(t) /\ MutexStep(t))
        PROVE  \A u \in Thread : pc'[u] \in Locked <=> pc[u] \in Locked
    <2>1. CASE SendOp(t)
      <3>1. CASE Send(t) \/ Push(t) \/ NotifyOne(t)
        BY <3>1, Zenon DEF Send, Push, NotifyOne
      <3>2. CASE NotifyWake(t) \/ CloneSender(t) \/ DropSender(t)
        BY <3>2 DEF NotifyWake, CloneSender, DropSender
      <3> QED BY <2>1, <3>1, <3>2 DEF SendOp
    <2>2. CASE RecvOp(t)
      <3>1. CASE Recv(t) \/ TryPop(t) \/ Pop(t)
        BY <3>1, Zenon DEF Recv, TryPop, Pop, Enters
      <3>2. CASE LoadSenders(t) \/ StillEmpty(t) \/ ReadSeq(t)
        BY <3>2 DEF LoadSenders, StillEmpty, ReadSeq
      <3>3. CASE CondPark(t) \/ DropWoken(t)
        BY <3>3 DEF CondPark, DropWoken
      <3> QED BY <2>2, <3>1, <3>2, <3>3, Zenon DEF RecvOp
    <2>3. CASE Unwoken(t) /\ MutexStep(t)
      BY <2>3, ResumesTo, Zenon DEF Unwoken
    <2> QED BY <1>5, <2>1, <2>2, <2>3, Zenon
  <1>6. ASSUME NEW t \in Thread, OnceStep(t) \/ RwStep(t)
        PROVE  \A u \in Thread : pc'[u] \in Locked <=> pc[u] \in Locked
    BY <1>6, OnceMoves, RwMoves DEF Moves, OnceLabels, RwLabels
  <1>7. ASSUME \A u \in Thread : pc'[u] \in Locked <=> pc[u] \in Locked
        PROVE  Holders' = Holders
    BY <1>7 DEF Holders
  <1>8. ASSUME UNCHANGED vars
        PROVE  Holders' = Holders
    BY <1>8 DEF vars, Holders
  <1>9. ASSUME NEW t \in Thread, TryLock(t)
        PROVE  mutex = 0
    BY <1>9 DEF TryLock
  <1>10. ASSUME NEW t \in Thread, MutexOp(t)
         PROVE  Lock!Next \/ Holders' = Holders
    BY <1>2, <1>3, <1>4, <1>7, <1>9, <1>10, Zenon DEF MutexOp
  <1>11. ASSUME NEW t \in Thread, Step(t) \/ Unwoken(t)
         PROVE  Lock!Next \/ Holders' = Holders
    BY <1>5, <1>6, <1>7, <1>10, <1>11, Kinds DEF MutexStep
  <1> QED BY <1>8, <1>11 DEF Next

\* The mutex of the library implements the abstract lock.
THEOREM MutexRefinesLock == Spec => MutexIsLock
  <1>1. Init => Lock!Init
    BY DEF Init, Lock!Init, Holders, Locked
  <1> QED BY <1>1, LockStep, Invariance, PTL DEF Spec, MutexIsLock, Lock!Spec
=============================================================================
