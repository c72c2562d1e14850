------------------------------ MODULE Memory -------------------------------
(***************************************************************************)
(* Physical memory and what is built on it: the buddy allocator of         *)
(* hal-x86_64/src/memory.rs, the kernel heap that grows in place           *)
(* (heap.rs), DMA blocks, and the address spaces of processes (mem.rs,     *)
(* vma.rs, hw.rs, ipc.rs).  Addresses are page numbers.                    *)
(*                                                                         *)
(* Left out: the memory map kept for type queries, and the free lists'     *)
(* defence against nodes that somebody overwrote.                          *)
(***************************************************************************)
EXTENDS Integers, Sequences, FiniteSets, SequencesExt, FiniteSetsExt

CONSTANTS MAX_ORDER,
          Regions,     \* UEFI map: <<[free, start, pages]>>
          Low,         \* pages below are never used
          Windows,     \* kernel image and staged file system, ascending <<start, end>>
          Holes,       \* live page tables, GDT, IDT: ascending sequence of pages
          DmaLimit,    \* first page a device cannot reach
          Proc, MAX_VMAS,
          VPages,      \* pages of the mmap window
          Sizes,       \* pages asked for
          HeapPages,   \* initial heap
          MaxCalls     \* bound on the calls

VARIABLES mem,     \* free lists and counters
          heap,    \* the kernel heap: <<base, pages>>
          dma,     \* blocks held by drivers
          vmas,    \* vma_table of each process
          pte,     \* its page table
          brk,     \* its mmap_brk
          stray,   \* pages a failed map_phys left mapped
          tails,   \* pages handed out beyond the request
          over,    \* an allocation at an address met pages in use
          calls

vars == <<mem, heap, dma, vmas, pte, brk, stray, tails, over, calls>>

Order == 0 .. MAX_ORDER
Free(v) == v.pages = 0
NoVma == [vaddr |-> 0, phys |-> 0, pages |-> 0, owns |-> FALSE]
Unmapped == -1
Span(a, n) == a .. a + n - 1

(***************************************************************************)
(* Free lists, newest block first.                                         *)
(***************************************************************************)
list_push(m, a, k) == [m EXCEPT !.lists[k] = <<a>> \o @, !.free = @ + 2^k]
InList(m, a, k) == a \in ToSet(m.lists[k])
list_remove(m, a, k) == [m EXCEPT !.lists[k] = Remove(@, a), !.free = @ - 2^k]

\* Block a of order k is cut down to order j, the upper halves go to the lists.
Split(m, a, k, j) ==
  FoldLeft(LAMBDA r, i : list_push(r, a + 2^i, i), m, [i \in 1 .. k - j |-> k - i])

\* Mutant: a block joins its upper neighbour, buddy or not.
buddy_ofNext(a, k) == a + 2^k

buddy_of(a, k) == IF (a \div 2^k) % 2 = 0 THEN a + 2^k ELSE a - 2^k

pages_to_order(n) == Min({k \in Order : 2^k >= n} \union {MAX_ORDER})

\* The aligned blocks <<start, order>> that make up a range, ascending.
RECURSIVE Blocks(_, _)
Blocks(a, end) ==
  IF a >= end THEN <<>>
  ELSE LET k == Max({j \in Order : a % 2^j = 0 /\ 2^j <= end - a})
       IN <<<<a, k>>>> \o Blocks(a + 2^k, end)

buddy_add_range(m, a, end) ==
  FoldLeft(LAMBDA r, b : list_push(r, b[1], b[2]), m, Blocks(a, end))

(***************************************************************************)
(* import_uefi_map: what is free, cut at the windows and at the holes.     *)
(***************************************************************************)
add_range_punching_holes(m, a, end) ==
  LET cut == FoldLeft(LAMBDA r, h :
                 IF h >= end \/ h < r.cur THEN r
                 ELSE [m |-> buddy_add_range(r.m, r.cur, h), cur |-> h + 1],
               [m |-> m, cur |-> a], Holes)
  IN buddy_add_range(cut.m, cut.cur, end)

add_range_excluding(m, a, end) ==
  LET cut == FoldLeft(LAMBDA r, w :
                 LET ws == Max({w[1], a})  we == Min({w[2], end})
                 IN IF we <= ws THEN r
                    ELSE [m |-> IF ws > r.cur THEN add_range_punching_holes(r.m, r.cur, ws) ELSE r.m,
                          cur |-> Max({r.cur, we})],
               [m |-> m, cur |-> a], Windows)
  IN IF cut.cur < end THEN add_range_punching_holes(cut.m, cut.cur, end) ELSE cut.m

import_uefi_map ==
  FoldLeft(LAMBDA m, r :
      LET a == Max({r.start, Low})  end == r.start + r.pages
      IN IF r.free /\ a < end THEN add_range_excluding(m, a, end) ELSE m,
    [lists |-> [k \in Order |-> <<>>], free |-> 0, allocated |-> 0], Regions)

(***************************************************************************)
(* Allocation.  Each operator gives the new lists and the address, or      *)
(* Unmapped when there is no block.                                        *)
(***************************************************************************)
Given(m, a, k) == [m |-> [m EXCEPT !.allocated = @ + 2^k], addr |-> a]
NoMemory(m) == [m |-> m, addr |-> Unmapped]

buddy_alloc(m, k) ==
  LET some == {j \in k .. MAX_ORDER : m.lists[j] # <<>>}
  IN IF some = {} THEN NoMemory(m)
     ELSE LET top == Min(some)  a == Head(m.lists[top])
          IN Given(Split(list_remove(m, a, top), a, top, k), a, k)

buddy_alloc_below(m, k, limit) ==
  LET Fits(j) == SelectSeq(m.lists[j], LAMBDA a : a + 2^j <= limit)
      some == {j \in k .. MAX_ORDER : Fits(j) # <<>>}
  IN IF some = {} THEN NoMemory(m)
     ELSE LET top == Max(some)  a == Head(Fits(top))
          IN Given(Split(list_remove(m, a, top), a, top, k), a, k)

\* Cut block c of order j down to block a of order k, giving up the other halves.
RECURSIVE SplitTo(_, _, _, _, _)
SplitTo(m, c, j, a, k) ==
  IF j = k THEN m
  ELSE LET spare == c + 2^(j - 1)
       IN IF a >= spare THEN SplitTo(list_push(m, c, j - 1), spare, j - 1, a, k)
          ELSE SplitTo(list_push(m, spare, j - 1), c, j - 1, a, k)

\* A block that is in no free block is left alone, and no error is reported.
carve_block(m, a, k) ==
  LET Container(j) == a - (a % 2^j)
      some == {j \in k .. MAX_ORDER : InList(m, Container(j), j)}
  IN IF some = {} THEN m
     ELSE LET j == Min(some)
          IN SplitTo(list_remove(m, Container(j), j), Container(j), j, a, k)

buddy_alloc_at(m, a, n) ==
  FoldLeft(LAMBDA r, b : Given(carve_block(r.m, b[1], b[2]), a, b[2]),
           [m |-> m, addr |-> a], Blocks(a, a + n))

RECURSIVE buddy_free(_, _, _)
buddy_free(m, a, k) ==
  LET b == buddy_of(a, k)
  IN IF k < MAX_ORDER /\ InList(m, b, k)
     THEN buddy_free(list_remove(m, b, k), Min({a, b}), k + 1)
     ELSE list_push(m, a, k)

\* Mutant: the range goes back without looking for buddies.
free_pagesPushed(m, a, n) == buddy_add_range(m, a, a + n)

free_pages(m, a, n) == FoldLeft(LAMBDA r, b : buddy_free(r, b[1], b[2]), m, Blocks(a, a + n))

FreePages(m) == UNION {UNION {Span(a, 2^k) : a \in ToSet(m.lists[k])} : k \in Order}

\* allocate_pages, anywhere or below a limit, hands out a power of two.
Rest(r, n) == IF r.addr = Unmapped THEN {} ELSE Span(r.addr + n, 2^pages_to_order(n) - n)
Anywhere(n) == buddy_alloc(mem, pages_to_order(n))
Below(n) == buddy_alloc_below(mem, pages_to_order(n), DmaLimit)

(***************************************************************************)
(* The table of a process's areas.                                         *)
(***************************************************************************)
vaddr_end(v) == v.vaddr + v.pages
overlaps(v, a, n) == ~Free(v) /\ a < vaddr_end(v) /\ v.vaddr < a + n
Areas(t) == {i \in 1 .. MAX_VMAS : ~Free(t[i])}
IsFull(t) == Areas(t) = 1 .. MAX_VMAS
insert_full(t, v) == [t EXCEPT ![Min((1 .. MAX_VMAS) \ Areas(t))] = v]
Exact(t, a) == {i \in Areas(t) : t[i].vaddr = a}

RECURSIVE find_free_va(_, _, _)
find_free_va(t, a, n) ==
  LET met == {i \in Areas(t) : overlaps(t[i], a, n)}
  IN IF a + n > VPages THEN Unmapped
     ELSE IF met = {} THEN a
     ELSE find_free_va(t, Max({vaddr_end(t[i]) : i \in met}), n)

\* The page table after n pages from a were mapped to b, or unmapped.
Mapped(tab, a, b, n) == [x \in DOMAIN tab |-> IF x \in Span(a, n) THEN b + (x - a) ELSE tab[x]]
Erased(tab, a, n) == [x \in DOMAIN tab |-> IF x \in Span(a, n) THEN Unmapped ELSE tab[x]]
NotStray(p, a, n) == stray \ ({p} \X Span(a, n))

Call == calls < MaxCalls /\ calls' = calls + 1

Init ==
  LET r == buddy_alloc(import_uefi_map, pages_to_order(HeapPages))
  IN /\ mem = r.m /\ heap = <<r.addr, HeapPages>>
     /\ tails = Rest(r, HeapPages)
     /\ dma = {} /\ stray = {} /\ over = FALSE /\ calls = 0
     /\ vmas = [p \in Proc |-> [i \in 1 .. MAX_VMAS |-> NoVma]]
     /\ pte = [p \in Proc |-> [x \in 0 .. VPages - 1 |-> Unmapped]]
     /\ brk = [p \in Proc |-> 0]

MmapAt(p, a, n) ==
  LET r == Anywhere(n)
  IN /\ r.addr # Unmapped /\ tails' = tails \union Rest(r, n)
     /\ \/ /\ ~IsFull(vmas[p])
           /\ mem' = r.m
           /\ vmas' = [vmas EXCEPT ![p] = insert_full(@, [vaddr |-> a, phys |-> r.addr, pages |-> n,
                                                          owns |-> TRUE])]
           /\ pte' = [pte EXCEPT ![p] = Mapped(@, a, r.addr, n)]
           /\ brk' = [brk EXCEPT ![p] = Max({@, a + n})]
           /\ stray' = NotStray(p, a, n)
        \/ \E i \in IF IsFull(vmas[p]) THEN 0 .. n ELSE 0 .. n - 1 :
             /\ mem' = free_pages(r.m, r.addr, n)
             /\ pte' = [pte EXCEPT ![p] = Erased(@, a, i)]
             /\ stray' = NotStray(p, a, i)
             /\ UNCHANGED <<vmas, brk>>

Mmap(p, n) ==
  LET a == find_free_va(vmas[p], 0, n)
  IN /\ Call /\ a # Unmapped /\ MmapAt(p, a, n)
     /\ UNCHANGED <<heap, dma, over>>

MmapFixed(p, a, n) ==
  /\ Call /\ a + n <= VPages
  /\ \A i \in 1 .. MAX_VMAS : ~overlaps(vmas[p][i], a, n)
  /\ MmapAt(p, a, n)
  /\ UNCHANGED <<heap, dma, over>>
(***************************************************************************)
(* munmap_locked: a range made of whole areas.                             *)
(***************************************************************************)
RECURSIVE Tiles(_, _, _)
Tiles(t, a, end) ==
  IF a >= end THEN {}
  ELSE LET v == CHOOSE i \in Exact(t, a) : TRUE IN {v} \union Tiles(t, vaddr_end(t[v]), end)

RECURSIVE Tiled(_, _, _)
Tiled(t, a, end) ==
  \/ a = end
  \/ \E i \in Exact(t, a) : vaddr_end(t[i]) <= end /\ Tiled(t, vaddr_end(t[i]), end)

\* Mutant: a mapping that does not own its pages gives them back as well.
FreeAreasAll(m, t, S) ==
  FoldLeft(LAMBDA r, i : free_pages(r, t[i].phys, t[i].pages), m,
           SetToSortSeq(S, LAMBDA i, j : t[i].vaddr < t[j].vaddr))

\* The owned pages of areas S go back, in the order of their addresses.
FreeAreas(m, t, S) ==
  LET inOrder == SetToSortSeq({i \in S : t[i].owns}, LAMBDA i, j : t[i].vaddr < t[j].vaddr)
  IN FoldLeft(LAMBDA r, i : free_pages(r, t[i].phys, t[i].pages), m, inOrder)

Munmap(p, a, n) ==
  /\ Call /\ Tiled(vmas[p], a, a + n)
  /\ LET S == Tiles(vmas[p], a, a + n)
     IN /\ mem' = FreeAreas(mem, vmas[p], S)
        /\ vmas' = [vmas EXCEPT ![p] = [i \in 1 .. MAX_VMAS |-> IF i \in S THEN NoVma ELSE @[i]]]
  /\ pte' = [pte EXCEPT ![p] = Erased(@, a, n)]
  /\ stray' = NotStray(p, a, n)
  /\ UNCHANGED <<heap, dma, brk, tails, over>>

(***************************************************************************)
(* mprotect_locked cuts an area in up to three; the protection itself is   *)
(* left out.                                                               *)
(***************************************************************************)
\* Mutant: the parts keep the start of the block.
PartSameStart(v, a, n) == [v EXCEPT !.vaddr = a, !.pages = n]

Part(v, a, n) == [v EXCEPT !.vaddr = a, !.pages = n, !.phys = v.phys + (a - v.vaddr)]

Mprotect(p, a, n) ==
  /\ Call
  /\ \E i \in Areas(vmas[p]) :
       LET t == vmas[p]  v == t[i]
           left == a - v.vaddr  right == vaddr_end(v) - (a + n)
           mid == [t EXCEPT ![i] = Part(v, a, n)]
           withLeft == IF left > 0 THEN insert_full(mid, Part(v, v.vaddr, left)) ELSE mid
       IN /\ a >= v.vaddr /\ a + n <= vaddr_end(v)
          /\ MAX_VMAS - Cardinality(Areas(t)) >= Cardinality({x \in {<<"l", left>>, <<"r", right>>} : x[2] > 0})
          /\ vmas' = [vmas EXCEPT ![p] =
                IF right > 0 THEN insert_full(withLeft, Part(v, a + n, right)) ELSE withLeft]
  /\ UNCHANGED <<mem, heap, dma, pte, brk, stray, tails, over>>

(***************************************************************************)
(* map_phys_locked and shm_grant_locked map pages the process does not own *)
(* at mmap_brk.  The first leaves what it mapped before it failed.         *)
(***************************************************************************)
Borrowed(a, phys, n) == [vaddr |-> a, phys |-> phys, pages |-> n, owns |-> FALSE]

Attach(p, phys, n) ==
  /\ vmas' = [vmas EXCEPT ![p] = insert_full(@, Borrowed(brk[p], phys, n))]
  /\ pte' = [pte EXCEPT ![p] = Mapped(@, brk[p], phys, n)]
  /\ stray' = NotStray(p, brk[p], n)
  /\ brk' = [brk EXCEPT ![p] = @ + n]

MapPhys(p, phys, n) ==
  /\ Call /\ brk[p] + n <= VPages
  /\ \/ ~IsFull(vmas[p]) /\ Attach(p, phys, n)
     \/ \E i \in 1 .. n - 1 :
          /\ pte' = [pte EXCEPT ![p] = Mapped(@, brk[p], phys, i)]
          /\ stray' = stray \union ({p} \X Span(brk[p], i))
          /\ UNCHANGED <<vmas, brk>>
     \/ /\ IsFull(vmas[p])
        /\ pte' = [pte EXCEPT ![p] = Erased(@, brk[p], n)]
        /\ stray' = NotStray(p, brk[p], n)
        /\ UNCHANGED <<vmas, brk>>
  /\ UNCHANGED <<mem, heap, dma, tails, over>>

ShmGrant(p, q, a) ==
  /\ Call /\ p # q
  /\ \E i \in Exact(vmas[p], a) :
       LET v == vmas[p][i]
       IN /\ v.owns /\ brk[q] + v.pages <= VPages
          /\ \/ ~IsFull(vmas[q]) /\ Attach(q, v.phys, v.pages)
             \/ \E k \in IF IsFull(vmas[q]) THEN 0 .. v.pages ELSE 0 .. v.pages - 1 :
                  /\ pte' = [pte EXCEPT ![q] = Erased(@, brk[q], k)]
                  /\ stray' = NotStray(q, brk[q], k)
                  /\ UNCHANGED <<vmas, brk>>
  /\ UNCHANGED <<mem, heap, dma, tails, over>>

\* free_process_resources, and a new process in the slot.
Exit(p) ==
  /\ Call
  /\ mem' = FreeAreas(mem, vmas[p], Areas(vmas[p]))
  /\ vmas' = [vmas EXCEPT ![p] = [i \in 1 .. MAX_VMAS |-> NoVma]]
  /\ pte' = [pte EXCEPT ![p] = Erased(@, 0, VPages)]
  /\ brk' = [brk EXCEPT ![p] = 0]
  /\ stray' = NotStray(p, 0, VPages)
  /\ UNCHANGED <<heap, dma, tails, over>>

DmaAlloc(n) ==
  LET r == Below(n)
  IN /\ Call /\ r.addr # Unmapped
     /\ mem' = r.m /\ dma' = dma \union {<<r.addr, n>>}
     /\ tails' = tails \union Rest(r, n)
     /\ UNCHANGED <<heap, vmas, pte, brk, stray, over>>

DmaFree(b) ==
  /\ Call /\ mem' = free_pages(mem, b[1], b[2]) /\ dma' = dma \ {b}
  /\ UNCHANGED <<heap, vmas, pte, brk, stray, tails, over>>

\* try_grow_heap asks for the pages behind the heap, which always succeeds.
GrowHeap(n) ==
  LET a == heap[1] + heap[2]
  IN /\ Call /\ heap[2] + n <= 4 * HeapPages
     /\ mem' = buddy_alloc_at(mem, a, n).m
     /\ heap' = [heap EXCEPT ![2] = @ + n]
     /\ over' = (over \/ ~(Span(a, n) \subseteq FreePages(mem)))
     /\ UNCHANGED <<dma, vmas, pte, brk, stray, tails>>

Mmio == 100

Next ==
  \/ \E p \in Proc, n \in Sizes :
       \/ Mmap(p, n) \/ MapPhys(p, Mmio, n)
       \/ \E a \in 0 .. VPages - 1 : MmapFixed(p, a, n) \/ Munmap(p, a, n) \/ Mprotect(p, a, n)
  \/ \E p, q \in Proc, a \in 0 .. VPages - 1 : ShmGrant(p, q, a)
  \/ \E p \in Proc : Exit(p)
  \/ \E n \in Sizes : DmaAlloc(n) \/ GrowHeap(n)
  \/ \E b \in dma : DmaFree(b)

Spec == Init /\ [][Next]_vars

(***************************************************************************)
(* Properties.                                                             *)
(***************************************************************************)
Managed == FreePages(import_uefi_map)
Protected == (0 .. Low - 1) \union ToSet(Holes)
               \union UNION {w[1] .. w[2] - 1 : w \in ToSet(Windows)}
Owners == {<<"heap", 0, 0>>} \union {<<"dma", b[1], b[2]>> : b \in dma}
            \union {<<"vma", p, i>> : p \in Proc, i \in 1 .. MAX_VMAS}
PagesOf(o) == CASE o[1] = "heap" -> Span(heap[1], heap[2])
                [] o[1] = "dma"  -> Span(o[2], o[3])
                [] o[1] = "vma"  -> LET v == vmas[o[2]][o[3]]
                                    IN IF v.owns THEN Span(v.phys, v.pages) ELSE {}
Owned == UNION {PagesOf(o) : o \in Owners}

\* The free lists hold disjoint blocks, each at a multiple of its size, and the count of free
\* pages is their sum (memory.rs: every path leaves the counting to the list operations).
ListsSound ==
  LET blocks == UNION {{<<a, k>> : a \in ToSet(mem.lists[k])} : k \in Order}
  IN /\ \A b \in blocks : b[1] % 2^b[2] = 0
     /\ \A b, c \in blocks : b # c => Span(b[1], 2^b[2]) \cap Span(c[1], 2^c[2]) = {}
     /\ \A k \in Order : IsInjective(mem.lists[k])
     /\ mem.free = Cardinality(FreePages(mem))

\* Every managed page is free, owned once, or the unasked rest of a power of two, and what was
\* cut out at boot is never handed out: no failure path, split, shared mapping or exit gives a
\* page to two or loses one; as long as the heap has not grown over pages in use
\* (mmap_locked, munmap_locked, mprotect_locked, free_process_resources).
PagesOwnedOnce ==
  ~over => /\ \A o, u \in Owners : o # u => PagesOf(o) \cap PagesOf(u) = {}
           /\ Owned \cap FreePages(mem) = {}
           /\ (Owned \union FreePages(mem)) \cap Protected = {}
           /\ Managed = FreePages(mem) \union Owned \union tails

\* The areas of a process do not overlap, and its page table maps exactly what they say, with
\* the exception of what a failed map_phys left (hw.rs: no unmapping on that path).
AreasMatchTable ==
  \A p \in Proc :
    /\ \A i, j \in 1 .. MAX_VMAS : i # j => ~(~Free(vmas[p][i]) /\ overlaps(vmas[p][j], vmas[p][i].vaddr, vmas[p][i].pages))
    /\ \A x \in 0 .. VPages - 1 : <<p, x>> \notin stray =>
         pte[p][x] = LET at == {i \in Areas(vmas[p]) : x \in Span(vmas[p][i].vaddr, vmas[p][i].pages)}
                     IN IF at = {} THEN Unmapped
                        ELSE LET v == vmas[p][CHOOSE i \in at : TRUE] IN v.phys + (x - v.vaddr)

\* Two free buddies are not left side by side: the pairs that no step merged never get more
\* (buddy_free joins upwards; import alone leaves pairs at the borders of its regions).
Pairs(m) == UNION {{<<a, k>> : a \in {x \in ToSet(m.lists[k]) : InList(m, x + 2^k, k) /\ buddy_of(x, k) = x + 2^k}}
                   : k \in 0 .. MAX_ORDER - 1}
BuddiesMerge == [][Pairs(mem') \subseteq Pairs(mem)]_mem
=============================================================================
