------------------------------- MODULE Pipes -------------------------------
(***************************************************************************)
(* Pipes (pipe.rs) as processes use them through their descriptors: pipe,  *)
(* read, write, close, dup2, dup, spawn and exit.  A system call is cut    *)
(* where it takes or gives up PIPE_LOCK or PROCESS_TABLE_LOCK; between two *)
(* such points it runs with interrupts off, so on one core nothing comes   *)
(* in between until it halts.                                              *)
(***************************************************************************)
EXTENDS Naturals, Sequences, FiniteSets

CONSTANTS None, Proc, MaxCores,
          Pipe,         \* slots of PIPE_TABLE
          Fd,           \* slots of a descriptor table, 0 .. n
          SIZE,         \* PIPE_BUF_SIZE
          Byte, MaxLen, \* what a read or a write may carry
          MaxCalls      \* bound: system calls made in a run

\* Where a process is: in user mode, gone, or at a point of a system call.
Labels == {"user", "zombie", "exit", "exit_hangup", "exit_token", "halted",
           "pipe_write", "publish_in", "token_in", "publish_out", "token_out", "wake", "sweep",
           "pipe_read", "read", "eof", "mark", "block",
           "close", "hangup", "token_end", "leave", "dup"}

ASSUME PipesAssumption ==
  /\ SIZE \in Nat \ {0, 1} /\ MaxLen \in Nat \ {0} /\ MaxCores \in Nat \ {0}
  /\ Pipe \subseteq Nat /\ Fd \subseteq Nat /\ Byte # {}
  /\ IsFiniteSet(Proc) /\ IsFiniteSet(Fd)
  /\ None \notin Nat /\ None \notin Labels /\ None \notin Proc
  /\ None \notin [pipe : Pipe, end : {"r", "w"}]

VARIABLES cores,   \* cores of the machine
          pipe,    \* PIPE_TABLE
          mask,    \* readiness of a pipe's token
          fds,     \* descriptor tables
          pc, arg, \* where a process is in a system call, and its locals
          state,   \* None when it is ready, i when it is Blocked(PipeRead(i))
          waiters, \* pipe_waiters: bits of the processes marked
          table,   \* holder of PROCESS_TABLE_LOCK across steps
          out,     \* the bytes the last read gave
          calls,   \* system calls made so far
          copied   \* a descriptor has been copied and not counted

vars == <<cores, pipe, mask, fds, pc, arg, state, waiters, table, out, calls, copied>>

Ends == {"r", "w"}
Datum == UNION {[1 .. n -> Byte] : n \in 1 .. MaxLen}
EmptyPipe == [buf |-> [k \in 0 .. SIZE - 1 |-> CHOOSE b \in Byte : TRUE],
              head |-> 0, tail |-> 0, readers |-> 0, writers |-> 0, active |-> FALSE]

(***************************************************************************)
(* The ring buffer.                                                        *)
(***************************************************************************)
available_read(q) == (q.head + SIZE - q.tail) % SIZE
available_write(q) == SIZE - 1 - available_read(q)
Smaller(m, n) == IF m < n THEN m ELSE n

\* Mutant: a full ring is taken for an empty one.
writeOver(q, d) ==
  LET n == Smaller(Len(d), SIZE - available_read(q))
  IN [q EXCEPT !.head = (@ + n) % SIZE,
               !.buf = [k \in 0 .. SIZE - 1 |->
                          LET j == (k + SIZE - q.head) % SIZE IN IF j < n THEN d[j + 1] ELSE @[k]]]

\* Pipe::write stores bytes until the next one would meet the tail.
write(q, d) ==
  LET n == Smaller(Len(d), available_write(q))
  IN [q EXCEPT !.head = (@ + n) % SIZE,
               !.buf = [k \in 0 .. SIZE - 1 |->
                          LET j == (k + SIZE - q.head) % SIZE IN IF j < n THEN d[j + 1] ELSE @[k]]]

Contents(q) == [j \in 1 .. available_read(q) |-> q.buf[(q.tail + j - 1) % SIZE]]

\* Pipe::read takes at most n bytes.
read(q, n) ==
  LET k == Smaller(n, available_read(q))
  IN [pipe |-> [q EXCEPT !.tail = (@ + k) % SIZE], bytes |-> SubSeq(Contents(q), 1, k)]

(***************************************************************************)
(* Processes and cores.                                                    *)
(***************************************************************************)
Busy(p) == pc[p] \notin {None, "user", "halted", "zombie"}
Cpu(p) == Cardinality({q \in Proc \ {p} : Busy(q)}) < cores

At(p, l) == pc[p] = l
Go(p, l) == pc' = [pc EXCEPT ![p] = l]
With(p, a) == arg' = [arg EXCEPT ![p] = a]

Init ==
  /\ cores \in 1 .. MaxCores
  /\ pipe = [i \in Pipe |-> EmptyPipe] /\ mask = [i \in Pipe |-> {}]
  /\ waiters = [i \in Pipe |-> {}]
  /\ \E first \in Proc :
       pc = [p \in Proc |-> IF p = first THEN "user" ELSE None]
  /\ fds = [p \in Proc |-> [f \in Fd |-> None]]
  /\ arg = [p \in Proc |-> None] /\ state = [p \in Proc |-> None]
  /\ table = None /\ out = <<>> /\ calls = 0 /\ copied = FALSE

\* The first free descriptor, if any.
FreeFd(t) == {f \in Fd : t[f] = None /\ \A g \in Fd : t[g] = None => f <= g}

Desc(i, e) == [pipe |-> i, end |-> e]

User(p) == At(p, "user") /\ Cpu(p) /\ calls < MaxCalls

(***************************************************************************)
(* sys_pipe.  A table without two free descriptors leaves the slot taken.  *)
(***************************************************************************)
SysPipe(p) ==
  /\ User(p)
  /\ \E i \in Pipe :
       /\ ~pipe[i].active /\ \A j \in Pipe : ~pipe[j].active => i <= j
       /\ pipe' = [pipe EXCEPT ![i] = [EmptyPipe EXCEPT !.active = TRUE, !.readers = 1,
                                                        !.writers = 1]]
       /\ fds' = [fds EXCEPT ![p] =
            IF Cardinality({f \in Fd : @[f] = None}) < 2 THEN @
            ELSE LET r == CHOOSE f \in FreeFd(@) : TRUE
                     t == [@ EXCEPT ![r] = Desc(i, "r")]
                     w == CHOOSE f \in FreeFd(t) : TRUE
                 IN [t EXCEPT ![w] = Desc(i, "w")]]
  /\ UNCHANGED <<cores, mask, pc, arg, state, waiters, table, out>>

Return(p) == Go(p, "user") /\ With(p, None)

Pointing(p, i, e) == {f \in Fd : fds[p][f] = Desc(i, e)}

\* Both counters of a pipe, by end.
Refs(q, e) == IF e = "r" THEN q.readers ELSE q.writers
Count(q, r, w) == [q EXCEPT !.readers = r, !.writers = w]

\* pipe_add_reader, pipe_add_writer.
Added(q, e) ==
  IF ~q.active THEN q
  ELSE IF e = "r" THEN Count(q, q.readers + 1, q.writers) ELSE Count(q, q.readers, q.writers + 1)

(***************************************************************************)
(* publish_readiness, outside PIPE_LOCK: the levels read under the lock go *)
(* to the token's mask, IN first.  set_ready also wakes the token's        *)
(* waiters, for which it takes PROCESS_TABLE_LOCK.                         *)
(***************************************************************************)
\* Mutant: the level is only ever cleared.
PublishInClearOnly(p) ==
  /\ At(p, "publish_in")
  /\ mask' = [mask EXCEPT ![arg[p].i] = IF arg[p].ar > 0 THEN @ ELSE @ \ {"IN"}]
  /\ Go(p, IF arg[p].ar > 0 THEN "token_in" ELSE "publish_out")
  /\ UNCHANGED <<cores, pipe, fds, arg, state, waiters, table, out>>

PublishIn(p) ==
  /\ At(p, "publish_in")
  /\ mask' = [mask EXCEPT ![arg[p].i] = IF arg[p].ar > 0 THEN @ \cup {"IN"} ELSE @ \ {"IN"}]
  /\ Go(p, IF arg[p].ar > 0 THEN "token_in" ELSE "publish_out")
  /\ UNCHANGED <<cores, pipe, fds, arg, state, waiters, table, out>>

PublishOut(p) ==
  /\ At(p, "publish_out")
  /\ mask' = [mask EXCEPT ![arg[p].i] = IF arg[p].aw > 0 THEN @ \cup {"OUT"} ELSE @ \ {"OUT"}]
  /\ Go(p, IF arg[p].aw > 0 THEN "token_out" ELSE arg[p].next)
  /\ UNCHANGED <<cores, pipe, fds, arg, state, waiters, table, out>>

\* wake_token: nobody in this module waits for a token, the lock is what matters.
WakeToken(p) ==
  /\ table = None
  /\ \/ At(p, "token_in") /\ Go(p, "publish_out")
     \/ At(p, "token_out") /\ Go(p, arg[p].next)
     \/ At(p, "token_end") /\ Go(p, arg[p].next)
  /\ UNCHANGED <<cores, pipe, mask, fds, arg, state, waiters, table, out>>

(***************************************************************************)
(* sys_write on a write end.                                               *)
(***************************************************************************)
Local(i, next) == [i |-> i, e |-> "r", data |-> <<>>, len |-> 0, ar |-> 0, aw |-> 0,
                   next |-> next, dup |-> None]

\* pipe_readers, and EPIPE without one.
Write(p) ==
  /\ User(p)
  /\ \E f \in Fd, d \in Datum :
       /\ fds[p][f] # None /\ fds[p][f].end = "w"
       /\ pipe[fds[p][f].pipe].readers > 0
       /\ Go(p, "pipe_write")
       /\ With(p, [Local(fds[p][f].pipe, "wake") EXCEPT !.data = d])
  /\ UNCHANGED <<cores, pipe, mask, fds, state, waiters, table, out>>

PipeWrite(p) ==
  /\ At(p, "pipe_write")
  /\ LET a == arg[p]  q == write(pipe[a.i], a.data)
     IN IF pipe[a.i].active
        THEN /\ pipe' = [pipe EXCEPT ![a.i] = q]
             /\ With(p, [a EXCEPT !.data = <<>>, !.ar = available_read(q),
                                  !.aw = available_write(q)])
             /\ Go(p, "publish_in")
        ELSE Go(p, "wake") /\ UNCHANGED <<pipe, arg>>
  /\ UNCHANGED <<cores, mask, fds, state, waiters, table, out>>

(***************************************************************************)
(* wake_pipe_readers: a look at the bitmap without the lock, then the      *)
(* sweep under it.                                                         *)
(***************************************************************************)
Leave(p) == IF arg[p].dup = None THEN Return(p) ELSE Go(p, "dup") /\ UNCHANGED arg

Blocked(p, i) == state[p] = i

WakeLook(p) ==
  /\ At(p, "wake")
  /\ IF waiters[arg[p].i] = {} THEN Leave(p) ELSE Go(p, "sweep") /\ UNCHANGED arg
  /\ UNCHANGED <<cores, pipe, mask, fds, state, waiters, table, out>>

\* Mutant: one reader is made ready, the bits of all are cleared.
WakeSweepOne(p) ==
  /\ At(p, "sweep") /\ table = None
  /\ LET i == arg[p].i
         one == CHOOSE q \in waiters[i] \cup {p} : waiters[i] # {} => q \in waiters[i]
     IN /\ state' = [state EXCEPT ![one] = IF Blocked(one, i) THEN None ELSE @]
        /\ waiters' = [waiters EXCEPT ![i] = {}]
  /\ Leave(p)
  /\ UNCHANGED <<cores, pipe, mask, fds, table, out>>

WakeSweep(p) ==
  /\ At(p, "sweep") /\ table = None
  /\ LET i == arg[p].i
     IN /\ state' = [q \in Proc |-> IF q \in waiters[i] /\ Blocked(q, i) THEN None ELSE state[q]]
        /\ waiters' = [waiters EXCEPT ![i] = {}]
  /\ Leave(p)
  /\ UNCHANGED <<cores, pipe, mask, fds, table, out>>

(***************************************************************************)
(* sys_pipe_read_blocking.                                                 *)
(***************************************************************************)
Read(p) ==
  /\ User(p)
  /\ \E f \in Fd, n \in 1 .. MaxLen :
       /\ fds[p][f] # None /\ fds[p][f].end = "r"
       /\ With(p, [Local(fds[p][f].pipe, "read") EXCEPT !.len = n])
  /\ Go(p, "pipe_read")
  /\ UNCHANGED <<cores, pipe, mask, fds, state, waiters, table, out>>

PipeRead(p) ==
  /\ At(p, "pipe_read")
  /\ LET a == arg[p]  r == read(pipe[a.i], a.len)
     IN IF pipe[a.i].active
        THEN /\ pipe' = [pipe EXCEPT ![a.i] = r.pipe] /\ out' = r.bytes
             /\ With(p, [a EXCEPT !.data = r.bytes, !.ar = available_read(r.pipe),
                                  !.aw = available_write(r.pipe)])
             /\ Go(p, "publish_in")
        ELSE Go(p, "read") /\ UNCHANGED <<pipe, out, arg>>
  /\ UNCHANGED <<cores, mask, fds, state, waiters, table>>

\* Mutant: EOF as soon as the last descriptor but one is gone.
NoBytesEarly(p) ==
  /\ At(p, "read")
  /\ IF arg[p].data # <<>> THEN Return(p)
     ELSE Go(p, IF pipe[arg[p].i].writers <= 1 THEN "eof" ELSE "mark") /\ UNCHANGED arg
  /\ UNCHANGED <<cores, pipe, mask, fds, state, waiters, table, out>>

\* Bytes are returned; without any, no writer means EOF.
NoBytes(p) ==
  /\ At(p, "read")
  /\ IF arg[p].data # <<>> THEN Return(p)
     ELSE Go(p, IF pipe[arg[p].i].writers = 0 THEN "eof" ELSE "mark") /\ UNCHANGED arg
  /\ UNCHANGED <<cores, pipe, mask, fds, state, waiters, table, out>>

ReturnEof(p) ==
  /\ At(p, "eof") /\ Return(p)
  /\ UNCHANGED <<cores, pipe, mask, fds, state, waiters, table, out>>

MarkWaiter(p) ==
  /\ At(p, "mark")
  /\ waiters' = [waiters EXCEPT ![arg[p].i] = @ \cup {p}]
  /\ Go(p, "block")
  /\ UNCHANGED <<cores, pipe, mask, fds, arg, state, table, out>>

Block(p) ==
  /\ At(p, "block")
  /\ state' = [state EXCEPT ![p] = arg[p].i]
  /\ Go(p, "halted")
  /\ UNCHANGED <<cores, pipe, mask, fds, arg, waiters, table, out>>

Resume(p) ==
  /\ At(p, "halted") /\ state[p] = None /\ Cpu(p)
  /\ Go(p, "pipe_read")
  /\ UNCHANGED <<cores, pipe, mask, fds, arg, state, waiters, table, out>>

Dropped(q, e) ==
  LET r == IF e = "r" /\ q.readers > 0 THEN q.readers - 1 ELSE q.readers
      w == IF e = "w" /\ q.writers > 0 THEN q.writers - 1 ELSE q.writers
  IN [Count(q, r, w) EXCEPT !.active = @ /\ ~(r = 0 /\ w = 0)]

Hangup(e) == IF e = "r" THEN {"ERR", "OUT"} ELSE {"HUP", "IN"}

CloseLocal(d) == [Local(d.pipe, IF d.end = "w" THEN "wake" ELSE "leave") EXCEPT !.e = d.end]

Close(p) ==
  /\ User(p)
  /\ \E f \in Fd : /\ fds[p][f] # None
                   /\ fds' = [fds EXCEPT ![p][f] = None]
                   /\ With(p, CloseLocal(fds[p][f]))
  /\ Go(p, "close")
  /\ UNCHANGED <<cores, pipe, mask, state, waiters, table, out>>

CloseEnd(p) ==
  /\ At(p, "close")
  /\ LET a == arg[p]  q == Dropped(pipe[a.i], a.e)
     IN /\ pipe' = [pipe EXCEPT ![a.i] = q]
        /\ Go(p, IF Refs(q, a.e) = 0 THEN "hangup" ELSE a.next)
  /\ UNCHANGED <<cores, mask, fds, arg, state, waiters, table, out>>

HangUp(p) ==
  /\ At(p, "hangup")
  /\ mask' = [mask EXCEPT ![arg[p].i] = @ \cup Hangup(arg[p].e)]
  /\ Go(p, "token_end")
  /\ UNCHANGED <<cores, pipe, fds, arg, state, waiters, table, out>>

CloseDone(p) ==
  /\ At(p, "leave") /\ Leave(p)
  /\ UNCHANGED <<cores, pipe, mask, fds, state, waiters, table, out>>

(***************************************************************************)
(* Copies of a descriptor: sys_dup2 counts the new one, sys_dup does not,  *)
(* a spawned child counts each end of a pipe once.                         *)
(***************************************************************************)
\* Mutant: the copy is not counted.
DupSetUncounted(p, src, new) ==
  /\ fds' = [fds EXCEPT ![p][new] = src] /\ UNCHANGED pipe

DupSet(p, src, new) ==
  /\ fds' = [fds EXCEPT ![p][new] = src]
  /\ pipe' = [pipe EXCEPT ![src.pipe] = Added(@, src.end)]

Dup2(p) ==
  /\ User(p)
  /\ \E old, new \in Fd :
       LET src == fds[p][old]
       IN /\ old # new /\ src # None
          /\ IF fds[p][new] = None
             THEN DupSet(p, src, new) /\ UNCHANGED <<pc, arg>>
             ELSE /\ fds' = [fds EXCEPT ![p][new] = None]
                  /\ With(p, [CloseLocal(fds[p][new]) EXCEPT !.dup = <<src, new>>])
                  /\ Go(p, "close") /\ UNCHANGED pipe
  /\ UNCHANGED <<cores, mask, state, waiters, table, out>>

Dup2Set(p) ==
  /\ At(p, "dup")
  /\ DupSet(p, arg[p].dup[1], arg[p].dup[2])
  /\ Return(p)
  /\ UNCHANGED <<cores, mask, state, waiters, table, out>>

Dup(p) ==
  /\ User(p)
  /\ \E old \in Fd, new \in FreeFd(fds[p]) :
       fds[p][old] # None /\ fds' = [fds EXCEPT ![p][new] = fds[p][old]]
  /\ copied' = TRUE
  /\ UNCHANGED <<cores, pipe, mask, pc, arg, state, waiters, table, out>>

\* What spawning from p would leave uncounted.
Aliased(p) == \E i \in Pipe, e \in Ends : Cardinality(Pointing(p, i, e)) > 1

Spawn(p) ==
  /\ User(p) /\ table = None
  /\ copied' = (copied \/ Aliased(p))
  /\ \E q \in Proc :
       /\ At(q, None) /\ Go(q, "user")
       /\ fds' = [fds EXCEPT ![q] = fds[p]]
       /\ pipe' = [i \in Pipe |->
            LET r == IF Pointing(p, i, "r") = {} THEN pipe[i] ELSE Added(pipe[i], "r")
            IN IF Pointing(p, i, "w") = {} THEN r ELSE Added(r, "w")]
  /\ UNCHANGED <<cores, mask, arg, state, waiters, table, out>>

(***************************************************************************)
(* exit_process: under PROCESS_TABLE_LOCK from the first descriptor to the *)
(* sweep.  Closing the last reference of an end calls set_ready, whose     *)
(* wake_token asks for the same lock: no step leaves "exit_token".         *)
(***************************************************************************)
Exit(p) ==
  /\ User(p) /\ table = None
  /\ table' = p /\ Go(p, "exit")
  /\ waiters' = [i \in Pipe |-> waiters[i] \ {p}]
  /\ UNCHANGED <<cores, pipe, mask, fds, arg, state, out>>

ExitEnd(p) ==
  /\ At(p, "exit")
  /\ \E f \in Fd :
       /\ fds[p][f] # None /\ \A g \in Fd : fds[p][g] # None => f <= g
       /\ LET d == fds[p][f]  q == Dropped(pipe[d.pipe], d.end)
          IN /\ pipe' = [pipe EXCEPT ![d.pipe] = q]
             /\ fds' = [fds EXCEPT ![p][f] = None]
             /\ IF Refs(q, d.end) = 0
                THEN Go(p, "exit_hangup") /\ With(p, CloseLocal(d))
                ELSE UNCHANGED <<pc, arg>>
  /\ UNCHANGED <<cores, mask, state, waiters, table, out>>

ExitHangUp(p) ==
  /\ At(p, "exit_hangup")
  /\ mask' = [mask EXCEPT ![arg[p].i] = @ \cup Hangup(arg[p].e)]
  /\ Go(p, "exit_token")
  /\ UNCHANGED <<cores, pipe, fds, arg, state, waiters, table, out>>

ExitDone(p) ==
  /\ At(p, "exit") /\ \A f \in Fd : fds[p][f] = None
  /\ state' = [q \in Proc |->
       IF q # p /\ \E i \in Pipe : Blocked(q, i) /\ pipe[i].writers = 0 THEN None ELSE state[q]]
  /\ table' = None /\ Go(p, "zombie")
  /\ UNCHANGED <<cores, pipe, mask, fds, arg, waiters, out>>

Calls(p) ==
  /\ calls' = calls + 1
  /\ \/ (SysPipe(p) \/ Write(p) \/ Read(p) \/ Close(p) \/ Dup2(p) \/ Exit(p)) /\ UNCHANGED copied
     \/ Dup(p) \/ Spawn(p)

Steps(p) ==
  /\ UNCHANGED <<calls, copied>>
  /\ \/ PublishIn(p) \/ PublishOut(p) \/ WakeToken(p) \/ PipeWrite(p) \/ WakeLook(p) \/ WakeSweep(p)
     \/ PipeRead(p) \/ NoBytes(p) \/ ReturnEof(p) \/ MarkWaiter(p) \/ Block(p) \/ Resume(p)
     \/ CloseEnd(p) \/ HangUp(p) \/ CloseDone(p) \/ Dup2Set(p)
     \/ ExitEnd(p) \/ ExitHangUp(p) \/ ExitDone(p)

Next == \E p \in Proc : Calls(p) \/ Steps(p)

Spec == Init /\ [][Next]_vars

(***************************************************************************)
(* Properties.                                                             *)
(***************************************************************************)
\* A process that is going to look for readers of pipe i and wake them.
Waking(q, i) ==
  \/ /\ pc[q] \in {"publish_in", "token_in", "publish_out", "token_out", "wake", "sweep",
                    "hangup", "token_end"}
     /\ arg[q].i = i /\ arg[q].next = "wake"
  \/ pc[q] \in {"exit", "exit_hangup", "exit_token"}

Open(i, e) == {x \in Proc \X Fd : fds[x[1]][x[2]] = Desc(i, e)}

\* The counters of a pipe stay in range, a halted process is ready or blocked on the pipe it
\* reads, and the table lock is held by a process in exit (pipe.rs, ipc.rs, lifecycle.rs).
TypeOK ==
  /\ \A i \in Pipe : /\ pipe[i].head \in 0 .. SIZE - 1 /\ pipe[i].tail \in 0 .. SIZE - 1
                     /\ pipe[i].active \in BOOLEAN
                     /\ pipe[i].active => pipe[i].readers + pipe[i].writers > 0
                     /\ waiters[i] \subseteq Proc
                     /\ mask[i] \subseteq {"IN", "OUT", "HUP", "ERR"}
  /\ \A p \in Proc : At(p, "halted") => state[p] = None \/ Blocked(p, arg[p].i)
  /\ table # None => pc[table] \in {"exit", "exit_hangup", "exit_token"}

\* A pipe is a bounded queue for whoever reads and writes it, from any number of processes on
\* any number of cores (pipe.rs: Pipe::write and Pipe::read under PIPE_LOCK).
InUse == {i \in Pipe : pipe[i].active}
Held == [i \in Pipe |-> Contents(pipe[i])]
Queue == INSTANCE ByteQueue WITH open <- InUse, held <- Held, Cap <- SIZE - 1, MaxRead <- MaxLen
PipeIsQueue == Queue!Spec

\* Every open descriptor of an end is counted, through dup2, spawn, close and exit in any
\* order, as long as no copy was made that the code does not count (sys_dup; a child of a process
\* with two descriptors of one end):
\* the pipe lives, and neither EOF nor EPIPE is reported while somebody holds the other end.
EndsCounted ==
  ~copied => \A i \in Pipe : /\ pipe[i].readers >= Cardinality(Open(i, "r"))
                             /\ pipe[i].writers >= Cardinality(Open(i, "w"))
                             /\ Open(i, "r") \cup Open(i, "w") # {} => pipe[i].active

\* A reader is told EOF only once no process has the pipe open for writing and, on one core,
\* once every byte was read, with the same proviso (sys_pipe_read_blocking: the bytes are looked for first).
EofIsFinal ==
  \A p \in Proc : At(p, "eof") /\ ~copied => /\ Open(arg[p].i, "w") = {}
                                             /\ cores = 1 => available_read(pipe[arg[p].i]) = 0

\* On one core a reader does not sleep over bytes, or over a pipe nobody writes any more, unless
\* somebody is on the way to wake it (wake_pipe_readers after a write, a close, an exit).
NoReaderStranded ==
  cores = 1 => \A p \in Proc, i \in Pipe :
    At(p, "halted") /\ Blocked(p, i) /\ (available_read(pipe[i]) > 0 \/ pipe[i].writers = 0)
      => \E q \in Proc : Waking(q, i)

\* On one core, between system calls, a pipe with bytes in it says so to epoll, whatever was
\* published before (publish_readiness; a slot keeps its mask when it is allocated again).
LevelKept ==
  cores = 1 /\ (\A p \in Proc : ~Busy(p)) =>
    \A i \in Pipe : pipe[i].active /\ available_read(pipe[i]) > 0 => "IN" \in mask[i]

\* An exiting process gets through: it never waits for the table lock it holds
\* (terminate_process_inner closes the pipe ends under that lock).
ExitGoesOn == \A p \in Proc : ~(At(p, "exit_token") /\ table = p)
=============================================================================
