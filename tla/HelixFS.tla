------------------------------ MODULE HelixFS ------------------------------
(***************************************************************************)
(* The HelixFS engine (helix/src): a namespace index and a block bitmap in *)
(* memory, a log ring that records every change to the namespace, two      *)
(* superblocks that bound the replay, and an on-disk copy of the index     *)
(* that a checkpoint writes so that the ring can be recycled.              *)
(*                                                                         *)
(* The engine runs under one lock, so an operation is one step, except     *)
(* that sync and checkpoint are split at their device flushes: a power     *)
(* loss between two flushes keeps any of the writes that were waiting.     *)
(***************************************************************************)
EXTENDS Integers, Sequences, FiniteSets, SequencesExt, FiniteSetsExt, TLC

CONSTANTS Name,     \* file names
          Dir,      \* directory names; a file of the root may share one
          NBlocks,  \* data blocks of the volume
          NSeg,     \* log segments
          SegCap,   \* records of unit length a segment holds
          LongOps,  \* operations whose log records take two units
          PerBlock, \* index entries in one block of a checkpoint
          Lens,     \* file sizes in blocks; 0 is a file kept in its index entry
          MaxRuns,  \* extents one extent node holds
          Setup,    \* <<file, blocks>>: the writes that precede the run
          Ops,      \* the calls the environment makes
          MaxCalls, \* bound on the calls that change something
          MaxCrash  \* bound on the power losses

ASSUME HelixAssumption ==
  /\ NBlocks \in Nat /\ NSeg \in Nat \ {0} /\ SegCap \in Nat \ {0}
  /\ PerBlock \in Nat \ {0} /\ MaxRuns \in Nat \ {0} /\ Lens \subseteq Nat

VARIABLES fs,      \* the mounted HelixFs
          dev,     \* what is on the medium, and the writes not yet flushed
          phase,   \* the flush a sync or checkpoint is waiting for
          pending, \* the call that a checkpoint interrupts
          calls,   \* calls so far
          crashes, \* power losses so far
          found,   \* what they found: every synced file sound, some file with
                   \* blocks overwritten, or an index region that does not load
          synced   \* the namespace a mount of the medium would now serve

vars == <<fs, dev, phase, pending, calls, crashes, found, synced>>

Root == "/"
Self == "."
File == ((Dir \union {Root}) \X Name)
DirPath == Dir \X {Self}
Path == File \union DirPath
Under(d) == {d[1]} \X Name
Parent(p) == <<p[1], Self>>
DirOf(p) == <<p[2], Self>>      \* the directory that has the name of root file p

Block == 0 .. NBlocks - 1
NoBlock == -1
EmptyFn == [x \in {} |-> x]
NoRec == [op |-> "none", len |-> 1]
NoFile == [kind |-> "dir", root |-> NoBlock, len |-> 0, data |-> <<>>, want |-> <<>>]
Zero == <<"zero">>
Nothing == [op |-> "none"]

(***************************************************************************)
(* The device: reads see the newest write, a flush is the only barrier.    *)
(***************************************************************************)
BlockAt(b) == <<"block", b>>
SegAt(s) == <<"segment", s>>
SuperAt(i) == <<"super", i>>
Addr == {BlockAt(b) : b \in Block} \union {SegAt(s) : s \in 0 .. NSeg - 1}
          \union {SuperAt(0), SuperAt(1)}

OnDevice(d, a) == IF a \in DOMAIN d.cache THEN d.cache[a] ELSE d.media[a]
WriteAll(d, f) == [d EXCEPT !.cache = f @@ @]
Flushed(d) == [media |-> d.cache @@ d.media, cache |-> EmptyFn]

(***************************************************************************)
(* The bitmap.  alloc_block searches from the hint and wraps around;       *)
(* alloc_contiguous takes the first run that is long enough.               *)
(***************************************************************************)
FreeBlocks(f) == Block \ f.used
\* Mutant: the last block of a run is not looked at.
FreeRunsShort(f, n) ==
  {b \in Block : b + n <= NBlocks /\ b .. b + n - 2 \subseteq FreeBlocks(f)}

FreeRuns(f, n) == {b \in Block : b + n <= NBlocks /\ b .. b + n - 1 \subseteq FreeBlocks(f)}

Taken(f, b, n) == [f EXCEPT !.used = @ \union (b .. b + n - 1),
                            !.hint = (b + n) % NBlocks]

NextFree(f) ==
  CHOOSE b \in FreeBlocks(f) :
    \A c \in FreeBlocks(f) : (b - f.hint) % NBlocks <= (c - f.hint) % NBlocks

FreeSet(f, S) == [f EXCEPT !.used = @ \ S, !.hint = Min({@} \union (S \intersect f.used))]

(***************************************************************************)
(* Extents.  A contiguous file is a run of blocks, a fragmented one a node *)
(* block that lists the blocks in order.                                   *)
(***************************************************************************)
IsNode(v) == v[1] = "node"
NodeBlocks(d, b) ==
  LET v == OnDevice(d, BlockAt(b)) IN IF IsNode(v) THEN v[2] ELSE <<>>
NumRuns(s) == Cardinality({i \in 1 .. Len(s) : i = 1 \/ s[i] # s[i - 1] + 1})

\* The blocks of a file in the order of its contents.
FileBlocks(d, e) ==
  CASE e.kind = "run"  -> [i \in 1 .. e.len |-> e.root + i - 1]
    [] e.kind = "node" -> NodeBlocks(d, e.root)
    [] OTHER           -> <<>>

\* Every block a file owns: its contents and its node.
Owned(d, e) ==
  Range(FileBlocks(d, e)) \union (IF e.kind = "node" THEN {e.root} ELSE {})

free_file_blocks(f, d, e) == FreeSet(f, Owned(d, e) \intersect Block)

\* What a read returns, block by block; a file entry also carries, as `want`,
\* what its caller wrote, which nothing in the engine looks at.
read(d, e) ==
  IF e.kind = "inline" THEN e.data
  ELSE LET s == FileBlocks(d, e) IN [i \in 1 .. Len(s) |-> OnDevice(d, BlockAt(s[i]))]

(***************************************************************************)
(* The log.  An operation is computed on r = [fs, dev, err]; a call that   *)
(* returns an error leaves in r what it had changed by then.               *)
(***************************************************************************)
RecLen(op) == IF op \in LongOps THEN 2 ELSE 1

\* flush writes the used part of the head segment and leaves the rest of it.
WrittenHead(f, d) ==
  LET old == OnDevice(d, SegAt(f.head))
  IN  WriteAll(d, SegAt(f.head) :>
        [i \in 0 .. SegCap - 1 |-> IF i < f.off THEN f.buf[i] ELSE old[i]])

EmptyBuf == [i \in 0 .. SegCap - 1 |-> NoRec]

\* Mutant: the filled segment is not written before its buffer is reused.
append_fullUnflushed(r, op, p, to, file) ==
  LET len  == RecLen(op)
      full == r.fs.off + len > SegCap
      next == (r.fs.head + 1) % NSeg
      f    == IF full THEN [r.fs EXCEPT !.head = next, !.off = 0, !.buf = EmptyBuf] ELSE r.fs
      rec  == [op |-> op, len |-> len, lsn |-> f.next, path |-> p, to |-> to, file |-> file]
  IN  IF full /\ next = r.fs.tail THEN [r EXCEPT !.err = "LogFull"]
      ELSE [r EXCEPT !.fs = [f EXCEPT !.buf = [@ EXCEPT ![f.off] = rec], !.off = @ + len,
                                      !.next = @ + 1]]

append_full(r, op, p, to, file) ==
  LET len  == RecLen(op)
      full == r.fs.off + len > SegCap
      next == (r.fs.head + 1) % NSeg
      f    == IF full THEN [r.fs EXCEPT !.head = next, !.off = 0, !.buf = EmptyBuf] ELSE r.fs
      rec  == [op |-> op, len |-> len, lsn |-> f.next, path |-> p, to |-> to, file |-> file]
  IN  IF full /\ next = r.fs.tail THEN [r EXCEPT !.err = "LogFull"]
      ELSE [fs  |-> [f EXCEPT !.buf = [@ EXCEPT ![f.off] = rec], !.off = @ + len,
                              !.next = @ + 1],
            dev |-> IF full THEN Flushed(WrittenHead(r.fs, r.dev)) ELSE r.dev,
            err |-> r.err]

(***************************************************************************)
(* The index: live entries only, since every reader skips a tombstone.     *)
(***************************************************************************)
lookup(f, p) == p \in DOMAIN f.ix
upsert(ix, p, e) == (p :> e) @@ ix
mark_deleted(ix, p) == [q \in DOMAIN ix \ {p} |-> ix[q]]

\* make_file_entry and make_dir_entry.
new_entry(file, lsn) ==
  [kind |-> file.kind, root |-> file.root, len |-> file.len, data |-> file.data,
   want |-> file.want, lsn |-> lsn, first |-> lsn, ver |-> 1]

\* A rewrite keeps the birth of the entry it replaces and counts one version more.
rewritten(ix, p, e) ==
  IF p \in DOMAIN ix THEN [e EXCEPT !.first = ix[p].first, !.ver = ix[p].ver + 1] ELSE e

(***************************************************************************)
(* ops: each appends its record before it changes the index.               *)
(***************************************************************************)
Done(r) == r.err = ""
Failed(r, e) == [r EXCEPT !.err = e]

log_mkdir(r, p) ==
  LET a == append_full(r, "mkdir", p, p, NoFile)
  IN  IF Done(a) THEN [a EXCEPT !.fs.ix = upsert(@, p, new_entry(NoFile, r.fs.next))] ELSE a

ensure_parent_dirs(r, p) ==
  IF p[1] = Root \/ lookup(r.fs, Parent(p)) THEN r ELSE log_mkdir(r, Parent(p))

mkdir(r, c) ==
  IF lookup(r.fs, c.path) \/ <<Root, c.path[1]>> \in DOMAIN r.fs.ix
  THEN Failed(r, "AlreadyExists") ELSE log_mkdir(r, c.path)

log_write(r, p, file) ==
  LET a == append_full(r, "write", p, p, file)
  IN  IF Done(a)
      THEN [a EXCEPT !.fs.ix = upsert(@, p, rewritten(@, p, new_entry(file, r.fs.next)))]
      ELSE a

\* The blocks s get the contents; an I/O error after c.io of them ends it.
WriteBlocks(r, c, s) ==
  LET n == IF c.io < Len(s) THEN c.io ELSE Len(s)
      w == [r EXCEPT !.dev = WriteAll(@, [a \in {BlockAt(s[i]) : i \in 1 .. n} |->
                                            c.what[CHOOSE i \in 1 .. n : a = BlockAt(s[i])]])]
  IN  IF n < Len(s) THEN Failed(w, "IoWriteFailed") ELSE w

\* A call that fails after it allocated the blocks S gives them back.
OrGiveBack(r, S) == IF Done(r) THEN r ELSE [r EXCEPT !.fs = FreeSet(@, S)]

FileOf(kind, root, c) ==
  [kind |-> kind, root |-> root, len |-> Len(c.what), want |-> c.want,
   data |-> IF kind = "inline" THEN c.what ELSE <<>>]

write_contiguous(r, c, b) ==
  LET n == Len(c.what)
      w == WriteBlocks([r EXCEPT !.fs = Taken(@, b, n)], c, [i \in 1 .. n |-> b + i - 1])
  IN  OrGiveBack(IF Done(w) THEN log_write(w, c.path, FileOf("run", b, c)) ELSE w, b .. b + n - 1)

\* The blocks alloc_block hands out one after the other, as many as there are.
AllocEach(f, n) ==
  LET Take(a, k) == IF FreeBlocks(a.fs) = {} THEN a
                    ELSE LET b == NextFree(a.fs)
                         IN  [fs |-> Taken(a.fs, b, 1), got |-> Append(a.got, b)]
  IN  FoldLeft(Take, [fs |-> f, got |-> <<>>], [k \in 1 .. n |-> k])

write_extent_node(r, b, s) ==
  IF NumRuns(s) > MaxRuns THEN Failed(r, "ExtentCorrupt")
  ELSE [r EXCEPT !.dev = WriteAll(@, BlockAt(b) :> <<"node", s>>)]

\* alloc_block's error leaves by `?`: what the loop had taken stays taken.
write_file_fragmented(r, c) ==
  LET n == Len(c.what)
      m == AllocEach(r.fs, n)
      w == WriteBlocks([r EXCEPT !.fs = m.fs], c, m.got)
      b == NextFree(w.fs)
      node == write_extent_node([w EXCEPT !.fs = Taken(@, b, 1)], b, m.got)
  IN  IF Len(m.got) < n THEN Failed([r EXCEPT !.fs = m.fs], "NoSpace")
      ELSE IF ~Done(w) THEN OrGiveBack(w, Range(m.got))
      ELSE IF FreeBlocks(w.fs) = {} THEN OrGiveBack(Failed(w, "NoSpace"), Range(m.got))
      ELSE OrGiveBack(IF Done(node) THEN log_write(node, c.path, FileOf("node", b, c)) ELSE node,
                      Range(m.got) \union {b})

write_file(r, c) ==
  LET p    == c.path
      q    == ensure_parent_dirs(r, p)
      runs == FreeRuns(q.fs, Len(c.what))
  IN  IF p[1] = Root /\ ~lookup(r.fs, p) /\ lookup(r.fs, DirOf(p)) THEN Failed(r, "IsADirectory")
      ELSE IF ~Done(q) THEN q
      ELSE IF c.inline THEN log_write(q, p, FileOf("inline", NoBlock, c))
      ELSE IF runs # {} THEN write_contiguous(q, c, Min(runs))
      ELSE write_file_fragmented(q, c)

unlink(r, c) ==
  LET p == c.path
      e == r.fs.ix[p]
      a == append_full(r, "delete", p, p, NoFile)
  IN  IF ~lookup(r.fs, p) THEN Failed(r, "NotFound")
      ELSE IF e.kind = "dir" /\ Under(p) \intersect DOMAIN r.fs.ix # {}
           THEN Failed(r, "DirectoryNotEmpty")
      ELSE IF ~Done(a) THEN a
      ELSE [a EXCEPT !.fs = free_file_blocks([@ EXCEPT !.ix = mark_deleted(@, p)], a.dev, e)]

log_rename_one(r, p, q) ==
  LET a == append_full(r, "rename", p, q, NoFile)
  IN  IF ~lookup(r.fs, p) THEN Failed(r, "NotFound")
      ELSE IF ~Done(a) THEN a
      ELSE [a EXCEPT !.fs.ix = upsert(mark_deleted(@, p), q, [@[p] EXCEPT !.lsn = r.fs.next])]

\* The clobbered file goes before the record that says so is in the log.
rename_file(r, c) ==
  LET p == c.path
      q == c.to
      f == free_file_blocks(r.fs, r.dev, r.fs.ix[q])
  IN  IF ~lookup(r.fs, p) THEN Failed(r, "NotFound")
      ELSE IF lookup(r.fs, q)
           THEN log_rename_one([r EXCEPT !.fs = [f EXCEPT !.ix = mark_deleted(@, q)]], p, q)
      ELSE IF q[1] = Root /\ lookup(r.fs, DirOf(q)) THEN Failed(r, "IsADirectory")
      ELSE log_rename_one(r, p, q)

\* The names that move with directory d, its own included.
Moving(f, d) == ({d} \union Under(d)) \intersect DOMAIN f.ix
Orders(S) == {s \in [1 .. Cardinality(S) -> S] : IsInjective(s)}

\* The entries move one record at a time, in the order of their hashes.
rename_dir(r, c) ==
  LET Step(a, p) == IF Done(a) THEN log_rename_one(a, p, <<c.to[1], p[2]>>) ELSE a
  IN  IF ~lookup(r.fs, c.path) THEN Failed(r, "NotFound")
      ELSE IF c.path = c.to THEN Failed(r, "PathInvalid")
      ELSE IF lookup(r.fs, c.to) THEN Failed(r, "AlreadyExists")
      ELSE FoldLeft(Step, r, c.order)

Exec(r, c) ==
  CASE c.op = "write"     -> write_file(r, c)
    [] c.op = "mkdir"     -> mkdir(r, c)
    [] c.op = "unlink"    -> unlink(r, c)
    [] c.op = "rename"    -> rename_file(r, c)
    [] c.op = "renamedir" -> rename_dir(r, c)

(***************************************************************************)
(* Recovery: the newer superblock, the index region it names, and the      *)
(* records above the checkpoint from the tail to the head position.        *)
(***************************************************************************)
BadSuper == [commit |-> -1]

recover_superblock(m) ==
  LET a == m[SuperAt(0)]
      b == m[SuperAt(1)]
  IN  IF a = BadSuper \/ (b # BadSuper /\ b.commit > a.commit) THEN b ELSE a

\* The records of one segment: each starts where the one before it ends.
RecordsOf(seg, limit) ==
  LET from[i \in 0 .. SegCap + 1] ==
        IF i >= limit \/ seg[i] = NoRec THEN <<>>
        ELSE <<seg[i]>> \o from[i + seg[i].len]
  IN  from[0]

scan_forward(m, sb) ==
  LET segs == [i \in 1 .. ((sb.head - sb.tail) % NSeg) + 1 |-> (sb.tail + i - 1) % NSeg]
  IN  FlattenSeq([i \in DOMAIN segs |->
        RecordsOf(m[SegAt(segs[i])], IF segs[i] = sb.head THEN sb.off ELSE SegCap)])

\* Mutant: a rewrite starts a new history.
replay_oneNewborn(ix, r) ==
  CASE r.op \in {"mkdir", "write"} -> upsert(ix, r.path, new_entry(r.file, r.lsn))
    [] r.op = "delete" -> mark_deleted(ix, r.path)
    [] r.op = "rename" /\ r.path \in DOMAIN ix ->
         upsert(mark_deleted(ix, r.path), r.to, [ix[r.path] EXCEPT !.lsn = r.lsn])
    [] OTHER           -> ix

replay_one(ix, r) ==
  CASE r.op = "mkdir"  -> upsert(ix, r.path, new_entry(r.file, r.lsn))
    [] r.op = "write"  -> upsert(ix, r.path, rewritten(ix, r.path, new_entry(r.file, r.lsn)))
    [] r.op = "delete" -> mark_deleted(ix, r.path)
    [] r.op = "rename" -> IF r.path \in DOMAIN ix
                          THEN upsert(mark_deleted(ix, r.path), r.to,
                                      [ix[r.path] EXCEPT !.lsn = r.lsn])
                          ELSE ix
    [] OTHER           -> ix

replay_log(ix, recs, checkpoint) ==
  LET Visit(a, r) == IF r.lsn <= checkpoint THEN a ELSE replay_one(a, r)
  IN  FoldLeft(Visit, ix, recs)

Region(sb) == IF sb.root = NoBlock THEN {} ELSE sb.root .. sb.root + sb.rlen - 1

\* The entries of the region, or an error when a block of it is something else.
RegionReadable(m, sb) == \A b \in Region(sb) : m[BlockAt(b)][1] = "index"
load_index_region(m, sb) ==
  LET pairs == UNION {Range(m[BlockAt(b)][2]) : b \in Region(sb)}
  IN  [p \in {x[1] : x \in pairs} |-> (CHOOSE x \in pairs : x[1] = p)[2]]

\* Mutant: of a fragmented file only the node block is marked.
rebuild_bitmapNodesOnly(d, ix, sb) ==
  Region(sb) \union {ix[p].root : p \in {q \in DOMAIN ix : ix[q].kind = "node"}}
    \union UNION {Owned(d, ix[p]) : p \in {q \in DOMAIN ix : ix[q].kind = "run"}}

rebuild_bitmap_from_index(d, ix, sb) ==
  Region(sb) \union UNION {Owned(d, ix[p]) : p \in DOMAIN ix}

Disk(m) == [media |-> m, cache |-> EmptyFn]

\* reload_head_segment fills the buffer up to the head position.
mount(m) ==
  LET sb   == recover_superblock(m)
      recs == scan_forward(m, sb)
      ix   == replay_log(load_index_region(m, sb), recs, sb.ckpt)
  IN  [ix |-> ix, used |-> rebuild_bitmap_from_index(Disk(m), ix, sb), hint |-> 0,
       head |-> sb.head, tail |-> sb.tail, off |-> sb.off, next |-> sb.commit + 1,
       buf |-> [i \in 0 .. SegCap - 1 |-> IF i < sb.off THEN m[SegAt(sb.head)][i] ELSE NoRec],
       snaps |-> {recs[i].lsn : i \in {j \in 1 .. Len(recs) :
                    recs[j].op = "snapshot" /\ recs[j].lsn > sb.ckpt}},
       sb |-> sb]

Mountable(m) == RegionReadable(m, recover_superblock(m))

(***************************************************************************)
(* The calls.                                                              *)
(***************************************************************************)
Blank == [media |-> [a \in Addr |->
            CASE a[1] = "block" -> Zero
              [] a[1] = "segment" -> EmptyBuf
              [] OTHER -> [commit |-> 0, ckpt |-> 0, root |-> NoBlock, rlen |-> 0,
                           head |-> 0, tail |-> 0, off |-> 0]],
          cache |-> EmptyFn]

Super(f) == [f.sb EXCEPT !.commit = f.next - 1, !.head = f.head, !.off = f.off,
                         !.tail = f.tail]

State == [fs |-> fs, dev |-> dev, err |-> ""]

snapshot_pins(f, old, new) == \E s \in f.snaps : old <= s /\ s < new

\* write reclaims the version it superseded unless a snapshot pins it.
Settled(r, c, old) ==
  IF c.op = "write" /\ Done(r) /\ old # Nothing
     /\ ~snapshot_pins(r.fs, old.lsn, r.fs.ix[c.path].lsn)
  THEN [r EXCEPT !.fs = free_file_blocks(@, r.dev, old)]
  ELSE r

\* The history variable follows the medium.
Served == synced' = IF dev'.media = dev.media \/ ~Mountable(dev'.media) THEN synced
                    ELSE mount(dev'.media).ix

Prior(c) == IF c.path \in DOMAIN fs.ix THEN fs.ix[c.path] ELSE Nothing

Finish(r) == /\ fs' = r.fs /\ dev' = r.dev
             /\ phase' = "idle" /\ pending' = Nothing

\* A call; a full log makes it wait for a checkpoint and one retry.
Call(c) ==
  LET r == Exec(State, c)
  IN  /\ phase = "idle" /\ calls < MaxCalls /\ c.op \in Ops
      /\ IF r.err = "LogFull"
         THEN /\ fs' = r.fs /\ dev' = r.dev
              /\ phase' = "checkpoint" /\ pending' = [call |-> c, old |-> Prior(c), region |-> {}]
         ELSE Finish(Settled(r, c, Prior(c)))
      /\ calls' = calls + 1 /\ Served /\ UNCHANGED <<crashes, found>>

WriteOf(p, what, want, inline, io) ==
  [op |-> "write", path |-> p, what |-> what, want |-> want, inline |-> inline, io |-> io]

\* Contents of n blocks, or small enough for the index entry when n is 0.
Written(k, n) == [i \in 1 .. Max({n, 1}) |-> <<"data", k, i>>]
Write(p) ==
  \E n \in Lens : \E io \in (IF "ioerror" \in Ops THEN 0 .. n ELSE {n}) :
    Call(WriteOf(p, Written(calls + 1, n), Written(calls + 1, n), n = 0, io))

\* truncate: read the file, cut or zero-fill it, write it back whole.
Resized(s, n) == [i \in 1 .. Max({n, 1}) |-> IF i <= Len(s) THEN s[i] ELSE Zero]
Truncate(p, n) ==
  /\ "truncate" \in Ops /\ lookup(fs, p)
  /\ n # (IF fs.ix[p].kind = "inline" THEN 0 ELSE fs.ix[p].len)
  /\ Call(WriteOf(p, Resized(read(dev, fs.ix[p]), n), Resized(fs.ix[p].want, n), n = 0, n))

\* format_and_mount, then the writes of Setup and a sync.
Formatted == [fs |-> mount(Blank.media), dev |-> Blank, err |-> ""]
SetUp == FoldLeft(LAMBDA r, w :
                    LET c == WriteOf(w[1], Written(0, w[2]), Written(0, w[2]), w[2] = 0, w[2])
                        o == IF lookup(r.fs, w[1]) THEN r.fs.ix[w[1]] ELSE Nothing
                    IN  Settled(Exec(r, c), c, o),
                  Formatted, Setup)
Init ==
  LET f  == SetUp.fs
      sb == Super(f)
  IN  /\ fs = [f EXCEPT !.sb = sb]
      /\ dev = Flushed(WriteAll(WrittenHead(f, SetUp.dev), SuperAt(0) :> sb @@ SuperAt(1) :> sb))
      /\ phase = "idle" /\ pending = Nothing
      /\ calls = 0 /\ crashes = 0 /\ found = "sound" /\ synced = f.ix

Mkdir(d) == Call([op |-> "mkdir", path |-> d])
Unlink(p) == Call([op |-> "unlink", path |-> p])
Rename(p, q) == /\ lookup(fs, q) => "renameover" \in Ops
                /\ Call([op |-> "rename", path |-> p, to |-> q])
RenameDir(d, e) ==
  \E o \in Orders(Moving(fs, d)) : Call([op |-> "renamedir", path |-> d, to |-> e, order |-> o])

\* Flush the log: the head segment is written, the flush is still to come.
Sync == /\ phase = "idle" /\ "sync" \in Ops
        /\ dev' = WrittenHead(fs, dev) /\ phase' = "log"
        /\ UNCHANGED <<fs, pending, calls, crashes, found, synced>>

Snapshot ==
  LET r == append_full(State, "snapshot", <<Root, Self>>, <<Root, Self>>, NoFile)
  IN  /\ phase = "idle" /\ calls < MaxCalls /\ "snapshot" \in Ops
      /\ IF Done(r)
         THEN /\ fs' = [r.fs EXCEPT !.snaps = @ \union {fs.next}]
              /\ dev' = WrittenHead(r.fs, r.dev) /\ phase' = "log"
         ELSE UNCHANGED <<fs, dev, phase>>
      /\ calls' = calls + 1 /\ Served /\ UNCHANGED <<pending, crashes, found>>

(***************************************************************************)
(* checkpoint, up to the flush of the log it ends with.                    *)
(***************************************************************************)
region_blocks(n) == Max({1, (n + PerBlock - 1) \div PerBlock})

write_index_region(d, b, ix) ==
  LET live == SetToSeq(DOMAIN ix)
      n    == region_blocks(Len(live))
      part(k) == SubSeq(live, k * PerBlock + 1, Min({(k + 1) * PerBlock, Len(live)}))
  IN  WriteAll(d, [a \in {BlockAt(b + k) : k \in 0 .. n - 1} |->
                     <<"index", [i \in 1 .. Len(part(a[2] - b)) |->
                                   <<part(a[2] - b)[i], ix[part(a[2] - b)[i]]>>]>>])

\* Mutant: the checkpoint does not recycle the ring.
reset_ringNot(f) == f

reset_ring(f) == [f EXCEPT !.tail = f.head]

\* Mutant: the index region is written but not marked used.
CheckpointUnmarked ==
  LET n    == region_blocks(Cardinality(DOMAIN fs.ix))
      runs == FreeRuns(fs, n)
      b    == Min(runs)
      f    == [reset_ring(fs) EXCEPT !.sb.root = b, !.sb.rlen = n, !.sb.ckpt = fs.next - 1]
  IN  /\ phase = "checkpoint"
      /\ IF runs = {} THEN Finish(Failed(State, "NoSpace"))
         ELSE /\ fs' = f /\ phase' = "log"
              /\ dev' = WrittenHead(f, write_index_region(dev, b, fs.ix))
              /\ pending' = [pending EXCEPT !.region = Region(fs.sb)]
      /\ Served /\ UNCHANGED <<calls, crashes, found>>

Checkpoint ==
  LET n    == region_blocks(Cardinality(DOMAIN fs.ix))
      runs == FreeRuns(fs, n)
      b    == Min(runs)
      f    == [reset_ring(Taken(fs, b, n)) EXCEPT !.sb.root = b, !.sb.rlen = n,
                                                   !.sb.ckpt = fs.next - 1]
  IN  /\ phase = "checkpoint"
      /\ IF runs = {} THEN Finish(Failed(State, "NoSpace"))
         ELSE /\ fs' = f /\ phase' = "log"
              /\ dev' = WrittenHead(f, write_index_region(dev, b, fs.ix))
              /\ pending' = [pending EXCEPT !.region = Region(fs.sb)]
      /\ Served /\ UNCHANGED <<calls, crashes, found>>

(***************************************************************************)
(* The three flushes of sync and checkpoint: log, superblock A, B.         *)
(***************************************************************************)
LogFlush ==
  LET sb == Super(fs)
  IN  /\ phase = "log"
      /\ fs' = [fs EXCEPT !.sb = sb]
      /\ dev' = WriteAll(Flushed(dev), SuperAt(0) :> sb)
      /\ phase' = "superA" /\ Served /\ UNCHANGED <<pending, calls, crashes, found>>

SuperAFlush ==
  /\ phase = "superA"
  /\ dev' = WriteAll(Flushed(dev), SuperAt(1) :> fs.sb)
  /\ phase' = "superB" /\ Served /\ UNCHANGED <<fs, pending, calls, crashes, found>>

\* The old index region is given back once no superblock names it.
SuperBFlush ==
  /\ phase = "superB"
  /\ dev' = Flushed(dev)
  /\ fs' = IF pending = Nothing THEN fs ELSE FreeSet(fs, pending.region)
  /\ phase' = IF pending = Nothing THEN "idle" ELSE "retry"
  /\ Served /\ UNCHANGED <<pending, calls, crashes, found>>

Retry ==
  /\ phase = "retry"
  /\ \E o \in (IF pending.call.op = "renamedir" THEN Orders(Moving(fs, pending.call.path))
               ELSE {<<>>}) :
       LET c == IF pending.call.op = "renamedir" THEN [pending.call EXCEPT !.order = o]
                ELSE pending.call
       IN  Finish(Settled(Exec(State, c), c, pending.old))
  /\ Served /\ UNCHANGED <<calls, crashes, found>>

(***************************************************************************)
(* A power loss keeps any of the waiting writes.  A superblock can be cut  *)
(* short, which its CRC shows; a segment can be cut after any record.      *)
(***************************************************************************)
Cut(a, v, old, k) ==
  CASE k = SegCap        -> v
    [] a[1] = "super"    -> BadSuper
    [] a[1] = "segment"  -> [i \in 0 .. SegCap - 1 |-> IF i < k THEN v[i] ELSE old[i]]
    [] OTHER             -> v

Survivors(d) ==
  {[a \in Addr |-> IF a \in kept THEN Cut(a, d.cache[a], d.media[a], k) ELSE d.media[a]] :
     kept \in SUBSET DOMAIN d.cache, k \in {0, SegCap - 1, SegCap}}

Damaged(m, ix) == \E p \in DOMAIN ix : read(Disk(m), ix[p]) # ix[p].want

Crash ==
  /\ crashes < MaxCrash
  /\ \E m \in Survivors(dev) :
       /\ dev' = Disk(m)
       /\ IF Mountable(m)
          THEN /\ fs' = mount(m) /\ phase' = "idle"
               /\ found' = IF Damaged(m, fs'.ix) THEN "damaged" ELSE found
          ELSE phase' = "dead" /\ found' = "unmountable" /\ UNCHANGED fs
  /\ pending' = Nothing /\ crashes' = crashes + 1 /\ Served /\ UNCHANGED calls

Next == \/ \E p \in File : Write(p) \/ Unlink(p) \/ \E n \in Lens : Truncate(p, n)
        \/ \E p, q \in File : Rename(p, q)
        \/ \E d \in DirPath : Mkdir(d) \/ Unlink(d) \/ \E e \in DirPath : RenameDir(d, e)
        \/ Sync \/ Snapshot \/ Checkpoint \/ LogFlush \/ SuperAFlush \/ SuperBFlush
        \/ Retry \/ Crash

Spec == Init /\ [][Next]_vars

-----------------------------------------------------------------------------
(***************************************************************************)
(* Properties.                                                             *)
(***************************************************************************)

FilesOf(f) == File \intersect DOMAIN f.ix

\* No two live files own a block in common, none owns a block of the index
\* region, and the bitmap has every one of those blocks as used: what
\* rebuild_bitmap_from_index, the rollbacks and the reclaim must keep up.
BlocksOwnedOnce ==
  found = "sound" =>
    /\ \A p, q \in FilesOf(fs) :
         p # q => Owned(dev, fs.ix[p]) \intersect Owned(dev, fs.ix[q]) = {}
    /\ \A p \in FilesOf(fs) :
         /\ Owned(dev, fs.ix[p]) \subseteq fs.used
         /\ Owned(dev, fs.ix[p]) \intersect Region(fs.sb) = {}
    /\ Region(fs.sb) \subseteq fs.used

\* Every live file reads back as what its caller last wrote, whatever was
\* allocated, freed, moved and checkpointed since.
ReadsBack == found = "sound" => \A p \in FilesOf(fs) : read(dev, fs.ix[p]) = fs.ix[p].want

\* Whatever a power loss leaves, the volume mounts.
AlwaysMounts == found # "unmountable"

\* The log ring is not terminal: the call that waited for a checkpoint finds
\* room for its record.
CheckpointMakesRoom == phase = "retry" => Exec(State, pending.call).err # "LogFull"

=============================================================================
