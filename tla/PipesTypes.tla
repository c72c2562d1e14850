----------------------------- MODULE PipesTypes -----------------------------
(***************************************************************************)
(* What the operators of Pipes compute (the ring buffer as a sequence, the *)
(* counters of a pipe), the types of Pipes, kept by every step, and that a *)
(* pipe is a bounded queue.                                                *)
(***************************************************************************)
EXTENDS Pipes, Integers, TLAPS

PipeRec == [buf : [0 .. SIZE - 1 -> Byte], head : 0 .. SIZE - 1, tail : 0 .. SIZE - 1,
            readers : Nat, writers : Nat, active : BOOLEAN]

-----------------------------------------------------------------------------
(***************************************************************************)
(* The ring.                                                               *)
(***************************************************************************)
\* Sequences by their elements.
LEMMA SameSeq ==
  ASSUME NEW S, NEW s \in Seq(S), NEW t \in Seq(S), Len(s) = Len(t),
         \A j \in 1 .. Len(s) : s[j] = t[j]
  PROVE  s = t
<1>1. s = [j \in 1 .. Len(s) |-> s[j]] OBVIOUS
<1>2. t = [j \in 1 .. Len(t) |-> t[j]] OBVIOUS
<1> QED BY <1>1, <1>2

\* The elements of a concatenation.
LEMMA Joined ==
  ASSUME NEW S, NEW s \in Seq(S), NEW t \in Seq(S)
  PROVE  /\ s \o t \in Seq(S) /\ Len(s \o t) = Len(s) + Len(t)
         /\ \A j \in 1 .. Len(s) + Len(t) :
              (s \o t)[j] = IF j <= Len(s) THEN s[j] ELSE t[j - Len(s)]
OBVIOUS

\* An index that has passed the end of the buffer at most once.
LEMMA Wrap ==
  ASSUME NEW x \in Nat, x < 2 * SIZE
  PROVE  x % SIZE = IF x < SIZE THEN x ELSE x - SIZE
<1>1. SIZE \in Nat /\ SIZE > 1 BY PipesAssumption
<1>2. CASE x < SIZE BY <1>1, <1>2
<1>3. CASE x >= SIZE BY <1>1, <1>3
<1> QED BY <1>1, <1>2, <1>3

\* The bytes between a tail t and a head h.
Gap(h, t) == IF h >= t THEN h - t ELSE h + SIZE - t

\* One slot of the ring stays empty.
LEMMA AvailRange ==
  ASSUME NEW q, q.head \in 0 .. SIZE - 1, q.tail \in 0 .. SIZE - 1
  PROVE  /\ available_read(q) \in 0 .. SIZE - 1
         /\ available_write(q) \in 0 .. SIZE - 1
         /\ available_read(q) = Gap(q.head, q.tail)
<1>1. SIZE \in Nat /\ SIZE > 1 BY PipesAssumption
<1> DEFINE x == q.head + SIZE - q.tail
<1>2. x \in Nat /\ x < 2 * SIZE BY <1>1
<1>3. available_read(q) = x % SIZE BY DEF available_read
<1> HIDE DEF x
<1>4. x % SIZE = IF x < SIZE THEN x ELSE x - SIZE BY <1>2, Wrap
<1> QED BY <1>1, <1>3, <1>4 DEF available_write, Gap, x

\* The unread bytes of a pipe, from the tail on, are a sequence.
LEMMA ContentsSeq ==
  ASSUME NEW q \in PipeRec
  PROVE  /\ Contents(q) \in Seq(Byte)
         /\ Len(Contents(q)) = available_read(q)
         /\ \A j \in 1 .. available_read(q) : Contents(q)[j] = q.buf[(q.tail + j - 1) % SIZE]
<1>1. SIZE \in Nat /\ SIZE > 1 BY PipesAssumption
<1>2. q.head \in 0 .. SIZE - 1 /\ q.tail \in 0 .. SIZE - 1 BY DEF PipeRec
<1>3. available_read(q) \in 0 .. SIZE - 1 BY <1>2, AvailRange
<1>4. \A j \in 1 .. available_read(q) : q.buf[(q.tail + j - 1) % SIZE] \in Byte
  <2> TAKE j \in 1 .. available_read(q)
  <2> DEFINE x == q.tail + j - 1
  <2>1. x \in Nat /\ x < 2 * SIZE BY <1>1, <1>2, <1>3
  <2> HIDE DEF x
  <2>2. x % SIZE \in 0 .. SIZE - 1 BY <1>1, <2>1, Wrap
  <2> USE DEF x
  <2> QED BY <2>2, Zenon DEF PipeRec
<1> QED BY <1>3, <1>4 DEF Contents

\* What a write is given is a sequence of bytes.
LEMMA DatumSeq ==
  ASSUME NEW d \in Datum
  PROVE  d \in Seq(Byte) /\ Len(d) \in 1 .. MaxLen
<1>1. PICK n \in 1 .. MaxLen : d \in [1 .. n -> Byte] BY DEF Datum
<1>2. n \in Nat BY PipesAssumption
<1> QED BY <1>1, <1>2

\* The place of the j-th byte of a ring that holds r bytes from tail t to head h, seen from
\* the tail (x) and from the head (y), where n more are put: first without the remainders.
LEMMA PlaceArith ==
  ASSUME NEW S \in Nat, S > 1, NEW h \in Nat, h < S, NEW t \in Nat, t < S,
         NEW r \in Nat, NEW n \in Nat, NEW j \in Nat, j >= 1, j <= r + n,
         r = IF h >= t THEN h - t ELSE h + S - t, r + n <= S - 1,
         NEW u \in Nat, u = t + j - 1, NEW x \in Nat, x = IF u < S THEN u ELSE u - S,
         NEW v \in Nat, v = x + S - h, NEW y \in Nat, y = IF v < S THEN v ELSE v - S
  PROVE  (j <= r => y >= n) /\ (j > r => y = j - r - 1)
<1>1. CASE h >= t
  <2>1. CASE u < S BY <1>1, <2>1
  <2>2. CASE u >= S BY <1>1, <2>2
  <2> QED BY <2>1, <2>2
<1>2. CASE h < t
  <2>1. CASE u < S BY <1>2, <2>1
  <2>2. CASE u >= S BY <1>2, <2>2
  <2> QED BY <2>1, <2>2
<1> QED BY <1>1, <1>2

FromTail(t, j) == (t + j - 1) % SIZE
FromHead(h, t, j) == (FromTail(t, j) + SIZE - h) % SIZE

\* Where a byte lies, counted from the tail and counted from the head.
LEMMA RingPlace ==
  ASSUME NEW h \in 0 .. SIZE - 1, NEW t \in 0 .. SIZE - 1, NEW n \in Nat, Gap(h, t) \in Nat,
         Gap(h, t) + n <= SIZE - 1, NEW j \in 1 .. Gap(h, t) + n
  PROVE  /\ FromTail(t, j) \in 0 .. SIZE - 1 /\ FromHead(h, t, j) \in Nat
         /\ j <= Gap(h, t) => FromHead(h, t, j) >= n
         /\ j > Gap(h, t) => FromHead(h, t, j) = j - Gap(h, t) - 1
<1> DEFINE r == Gap(h, t)
           x == FromTail(t, j)
           y == FromHead(h, t, j)
<1>0. r = Gap(h, t) /\ x = (t + j - 1) % SIZE /\ y = (x + SIZE - h) % SIZE
      /\ r \in Nat /\ r + n <= SIZE - 1 /\ j \in 1 .. r + n
  BY DEF FromTail, FromHead
<1> HIDE DEF r, x, y
<1>1. SIZE \in Nat /\ SIZE > 1 BY PipesAssumption
<1>h. h \in Nat /\ h < SIZE /\ t \in Nat /\ t < SIZE /\ j \in Nat /\ j >= 1 /\ j <= r + n BY <1>0, <1>1
<1> DEFINE u == t + j - 1
           v == x + SIZE - h
<1>2. u \in Nat /\ u < 2 * SIZE BY <1>0, <1>1
<1>u. x = u % SIZE /\ u = t + j - 1 BY <1>0
<1> HIDE DEF u
<1>3. x = IF u < SIZE THEN u ELSE u - SIZE BY <1>2, <1>u, Wrap
<1>4. x \in 0 .. SIZE - 1 /\ x \in Nat BY <1>1, <1>2, <1>3
<1>5. v \in Nat /\ v < 2 * SIZE BY <1>1, <1>4
<1>v. y = v % SIZE /\ v = x + SIZE - h BY <1>0
<1> HIDE DEF v
<1>6. y = IF v < SIZE THEN v ELSE v - SIZE BY <1>5, <1>v, Wrap
<1>7. y \in Nat BY <1>1, <1>5, <1>6
<1>8. u \in Nat /\ u = t + j - 1 /\ x \in Nat /\ x = IF u < SIZE THEN u ELSE u - SIZE
  BY <1>2, <1>u, <1>3, <1>4
<1>9. v \in Nat /\ v = x + SIZE - h /\ y \in Nat /\ y = IF v < SIZE THEN v ELSE v - SIZE
  BY <1>5, <1>v, <1>6, <1>7
<1>10. r = IF h >= t THEN h - t ELSE h + SIZE - t BY <1>0 DEF Gap
<1>11. (j <= r => y >= n) /\ (j > r => y = j - r - 1)
  BY ONLY <1>1, <1>h, <1>8, <1>9, <1>10, PlaceArith, <1>0, n \in Nat
<1> QED BY <1>4, <1>7, <1>11 DEF r, x, y

\* The head after n more bytes.
LEMMA RingHead ==
  ASSUME NEW h \in 0 .. SIZE - 1, NEW t \in 0 .. SIZE - 1, NEW r \in Nat, NEW n \in Nat,
         r = Gap(h, t), r + n <= SIZE - 1, NEW g, g = (h + n) % SIZE
  PROVE  g \in 0 .. SIZE - 1 /\ r + n = Gap(g, t)
<1>1. SIZE \in Nat /\ SIZE > 1 BY PipesAssumption
<1> DEFINE x == h + n
<1>2. x \in Nat /\ x < 2 * SIZE /\ g = x % SIZE BY <1>1 DEF Gap
<1> HIDE DEF x
<1>3. g = IF x < SIZE THEN x ELSE x - SIZE BY <1>2, Wrap
<1>4. g \in 0 .. SIZE - 1 BY <1>1, <1>2, <1>3
<1> QED BY <1>1, <1>3, <1>4 DEF x, Gap

\* What a write leaves in the ring: the bytes that were there, and as many as fit of the
\* new ones (Pipe::write).
LEMMA WriteAppends ==
  ASSUME NEW q \in PipeRec, NEW d \in Seq(Byte)
  PROVE  /\ write(q, d) \in PipeRec
         /\ Contents(write(q, d)) =
              Contents(q) \o SubSeq(d, 1, Smaller(Len(d), SIZE - 1 - Len(Contents(q))))
<1> DEFINE n == Smaller(Len(d), available_write(q))
           r == available_read(q)
           new == write(q, d)
           h == q.head
           t == q.tail
<1>1. SIZE \in Nat /\ SIZE > 1 BY PipesAssumption
<1>2. h \in 0 .. SIZE - 1 /\ t \in 0 .. SIZE - 1 BY DEF PipeRec
<1>3. r \in 0 .. SIZE - 1 /\ r = Gap(h, t)
  BY <1>2, AvailRange
<1>4. n \in Nat /\ n <= Len(d) /\ r + n <= SIZE - 1
  BY <1>1, <1>3 DEF Smaller, available_write
<1>n. r \in Nat BY <1>1, <1>3
<1>5. /\ new.head = (h + n) % SIZE /\ new.tail = t
      /\ new.buf = [k \in 0 .. SIZE - 1 |->
                      IF (k + SIZE - h) % SIZE < n THEN d[((k + SIZE - h) % SIZE) + 1]
                      ELSE q.buf[k]]
      /\ new = [q EXCEPT !.head = (h + n) % SIZE, !.buf = new.buf]
  BY DEF write, PipeRec
<1>6. r = available_read(q) /\ h = q.head /\ t = q.tail /\ new = write(q, d)
      /\ n = Smaller(Len(d), SIZE - 1 - r)
  BY DEF available_write
<1> HIDE DEF n, r, new, h, t
<1> DEFINE g == (h + n) % SIZE
<1>g. g = (h + n) % SIZE OBVIOUS
<1> HIDE DEF g
<1>7. g \in 0 .. SIZE - 1 /\ r + n = Gap(g, t)
  BY <1>2, <1>3, <1>4, <1>n, <1>g, RingHead, SMT
<1>8. new.buf \in [0 .. SIZE - 1 -> Byte]
  <2>1. \A k \in 0 .. SIZE - 1 : (k + SIZE - h) % SIZE < n =>
                                   d[((k + SIZE - h) % SIZE) + 1] \in Byte
    <3> TAKE k \in 0 .. SIZE - 1
    <3>1. k + SIZE - h \in Nat BY <1>1, <1>2
    <3>2. (k + SIZE - h) % SIZE \in Nat BY <1>1, <3>1
    <3> QED BY <3>2, <1>4
  <2>2. q.buf \in [0 .. SIZE - 1 -> Byte] BY DEF PipeRec
  <2>3. \A k \in 0 .. SIZE - 1 :
          (IF (k + SIZE - h) % SIZE < n THEN d[((k + SIZE - h) % SIZE) + 1] ELSE q.buf[k]) \in Byte
    BY <2>1, <2>2, Zenon
  <2> QED BY <1>5, <2>3, Zenon
<1>9. new \in PipeRec BY <1>5, <1>7, <1>8, <1>g, Zenon DEF PipeRec
<1>10. available_read(new) = r + n
  BY <1>1, <1>2, <1>5, <1>7, <1>g, AvailRange, Zenon
<1> DEFINE old == Contents(q)
           s == SubSeq(d, 1, n)
<1>11. /\ old \in Seq(Byte) /\ Len(old) = r
       /\ \A j \in 1 .. r : old[j] = q.buf[(t + j - 1) % SIZE]
  BY ContentsSeq, <1>6
<1>12. /\ Contents(new) \in Seq(Byte) /\ Len(Contents(new)) = r + n
       /\ \A j \in 1 .. r + n : Contents(new)[j] = new.buf[(t + j - 1) % SIZE]
  BY <1>9, <1>10, <1>5, ContentsSeq, Zenon
<1>13. s \in Seq(Byte) /\ Len(s) = n /\ \A j \in 1 .. n : s[j] = d[j]
  BY <1>4
<1> HIDE DEF old, s
<1>14. /\ old \o s \in Seq(Byte) /\ Len(old \o s) = r + n
       /\ \A i \in 1 .. r + n : (old \o s)[i] = IF i <= r THEN old[i] ELSE s[i - r]
  BY <1>11, <1>13, Joined, Zenon
<1>15. \A j \in 1 .. r + n : Contents(new)[j] = (old \o s)[j]
  <2> TAKE j \in 1 .. r + n
  <2> DEFINE x == FromTail(t, j)
             y == FromHead(h, t, j)
  <2>0. x = (t + j - 1) % SIZE /\ y = (x + SIZE - h) % SIZE BY DEF FromTail, FromHead
  <2>1. /\ x \in 0 .. SIZE - 1 /\ y \in Nat
        /\ j <= r => y >= n
        /\ j > r => y = j - r - 1
    BY <1>2, <1>3, <1>4, <1>n, RingPlace, SMT
  <2> HIDE DEF x, y
  <2>2. Contents(new)[j] = new.buf[x] BY <1>12, <2>0
  <2>3. new.buf[x] = IF y < n THEN d[y + 1] ELSE q.buf[x] BY <1>5, <2>1, <2>0
  <2>4. j <= r => old[j] = q.buf[x] BY <1>11, <2>0
  <2>7. j \in Int /\ r \in Int BY <1>n, <1>4
  <2>5. CASE j <= r
    <3>1. (old \o s)[j] = old[j] BY <1>14, <2>5
    <3> QED BY <2>1, <2>2, <2>3, <2>4, <2>5, <3>1, <1>4
  <2>6. CASE j > r
    <3>1. (old \o s)[j] = s[j - r] BY <1>14, <2>6, <2>7
    <3>2. j - r \in 1 .. n /\ y < n /\ y + 1 = j - r BY <2>1, <2>6, <1>3, <1>4
    <3> QED BY <2>2, <2>3, <3>1, <3>2, <1>13
  <2>8. j <= r \/ j > r BY <2>7
  <2> QED BY <2>5, <2>6, <2>8, Zenon
<1>16. Contents(new) = old \o s
  <2>1. r + n \in Nat BY <1>3, <1>4
  <2> QED BY <1>12, <1>14, <1>15, <2>1, SameSeq, Zenon
<1>17. Smaller(Len(d), SIZE - 1 - Len(Contents(q))) = n BY <1>6, <1>11 DEF old
<1> QED BY <1>6, <1>9, <1>16, <1>17, Zenon DEF old, s

\* The tail after k bytes were taken, and the place of what is left.
LEMMA RingTail ==
  ASSUME NEW h \in 0 .. SIZE - 1, NEW t \in 0 .. SIZE - 1, NEW k \in Nat, k <= Gap(h, t),
         NEW g, g = (t + k) % SIZE
  PROVE  /\ g \in 0 .. SIZE - 1 /\ Gap(h, g) = Gap(h, t) - k
         /\ \A j \in 1 .. Gap(h, t) - k : FromTail(g, j) = FromTail(t, j + k)
<1>1. SIZE \in Nat /\ SIZE > 1 BY PipesAssumption
<1>2. Gap(h, t) \in Nat /\ Gap(h, t) < SIZE BY <1>1 DEF Gap
<1> DEFINE x == t + k
<1>3. x \in Nat /\ x < 2 * SIZE /\ g = x % SIZE BY <1>1, <1>2
<1>x. x = t + k OBVIOUS
<1> HIDE DEF x
<1>4. g = IF x < SIZE THEN x ELSE x - SIZE BY <1>3, Wrap
<1>5. g \in 0 .. SIZE - 1 BY <1>1, <1>3, <1>4
<1>6. Gap(h, g) = Gap(h, t) - k BY <1>1, <1>2, <1>4, <1>5, <1>x DEF Gap
<1>7. ASSUME NEW j \in 1 .. Gap(h, t) - k PROVE FromTail(g, j) = FromTail(t, j + k)
  <2> DEFINE u == g + j - 1
             v == t + (j + k) - 1
  <2>1. u \in Nat /\ u < 2 * SIZE BY <1>1, <1>2, <1>5
  <2>2. v \in Nat /\ v < 2 * SIZE BY <1>1, <1>2
  <2>3. v = x + j - 1 /\ u = g + j - 1 /\ FromTail(g, j) = u % SIZE /\ FromTail(t, j + k) = v % SIZE
    BY <1>x, <1>1, <1>2 DEF FromTail
  <2> HIDE DEF u, v
  <2>4. u % SIZE = IF u < SIZE THEN u ELSE u - SIZE BY <2>1, Wrap
  <2>5. v % SIZE = IF v < SIZE THEN v ELSE v - SIZE BY <2>2, Wrap
  <2>6. (IF u < SIZE THEN u ELSE u - SIZE) = (IF v < SIZE THEN v ELSE v - SIZE)
    BY ONLY <2>1, <2>2, <2>3, <1>1, <1>3, <1>4, <1>5, <1>2, j \in 1 .. Gap(h, t) - k, k \in Nat
  <2> QED BY <2>3, <2>4, <2>5, <2>6
<1> QED BY <1>5, <1>6, <1>7

\* What a read gives and leaves: the front of the bytes, and the rest (Pipe::read).
LEMMA ReadTakes ==
  ASSUME NEW q \in PipeRec, NEW n \in Nat
  PROVE  LET k == Smaller(n, Len(Contents(q)))
         IN /\ read(q, n).pipe \in PipeRec
            /\ read(q, n).bytes = SubSeq(Contents(q), 1, k)
            /\ Contents(read(q, n).pipe) = SubSeq(Contents(q), k + 1, Len(Contents(q)))
<1> DEFINE k == Smaller(n, available_read(q))
           r == available_read(q)
           new == read(q, n).pipe
           h == q.head
           t == q.tail
           g == (t + k) % SIZE
           old == Contents(q)
<1>1. SIZE \in Nat /\ SIZE > 1 BY PipesAssumption
<1>2. h \in 0 .. SIZE - 1 /\ t \in 0 .. SIZE - 1 BY DEF PipeRec
<1>3. r \in 0 .. SIZE - 1 /\ r = Gap(h, t) BY <1>2, AvailRange
<1>4. k \in Nat /\ k <= r BY <1>1, <1>3 DEF Smaller
<1>5. new = [q EXCEPT !.tail = g] /\ new.head = h /\ new.tail = g /\ new.buf = q.buf
  BY DEF read, PipeRec
<1>6. /\ read(q, n).bytes = SubSeq(old, 1, k) /\ new = read(q, n).pipe
      /\ old = Contents(q) /\ r = available_read(q) /\ k = Smaller(n, r)
  BY Zenon DEF read
<1>g. g = (t + k) % SIZE OBVIOUS
<1> HIDE DEF k, r, new, h, t, g, old
<1>7. /\ g \in 0 .. SIZE - 1 /\ Gap(h, g) = r - k
      /\ \A j \in 1 .. r - k : FromTail(g, j) = FromTail(t, j + k)
  BY <1>2, <1>3, <1>4, <1>g, RingTail
<1>8. new \in PipeRec BY <1>5, <1>7 DEF PipeRec
<1>9. available_read(new) = r - k BY <1>2, <1>5, <1>7, AvailRange, Zenon
<1>10. /\ old \in Seq(Byte) /\ Len(old) = r
       /\ \A j \in 1 .. r : old[j] = q.buf[FromTail(t, j)]
  BY ContentsSeq, <1>6 DEF t, FromTail
<1>11. /\ Contents(new) \in Seq(Byte) /\ Len(Contents(new)) = r - k
       /\ \A j \in 1 .. r - k : Contents(new)[j] = q.buf[FromTail(g, j)]
  BY <1>8, <1>9, <1>5, ContentsSeq, Zenon DEF FromTail
<1> DEFINE s == SubSeq(old, k + 1, r)
<1>12. s \in Seq(Byte) /\ Len(s) = r - k /\ \A j \in 1 .. r - k : s[j] = old[j + k]
  BY <1>10, <1>3, <1>4, <1>1
<1> HIDE DEF s
<1>13. \A j \in 1 .. r - k : Contents(new)[j] = s[j]
  <2> TAKE j \in 1 .. r - k
  <2>1. j + k \in 1 .. r BY <1>3, <1>4, <1>1
  <2>2. old[j + k] = q.buf[FromTail(t, j + k)] BY <2>1, <1>10
  <2> QED BY <2>2, <1>7, <1>11, <1>12
<1>14. Contents(new) = s
  <2>1. r - k \in Nat BY <1>3, <1>4, <1>1
  <2> QED BY <1>11, <1>12, <1>13, <2>1, SameSeq
<1>15. Smaller(n, Len(Contents(q))) = k BY <1>6, <1>10
<1> QED BY <1>6, <1>8, <1>10, <1>14, <1>15 DEF s

-----------------------------------------------------------------------------
Descs == [pipe : Pipe, end : Ends]
Locals == [i : Pipe, e : Ends, data : Seq(Byte), len : Nat, ar : Nat, aw : Nat,
           next : {"wake", "read", "leave"}, dup : (Descs \X Fd) \cup {None}]

\* A slot is in use while one of its ends is counted.
GoodPipe == {q \in PipeRec : q.active <=> q.readers + q.writers > 0}

\* The points of a call that has locals, and what those are worth there.
InCall(l) == l \notin {None, "user", "exit", "zombie"}

LocalAt(l, a) ==
  InCall(l) =>
    /\ a \in Locals
    /\ l = "pipe_write" => a.data \in Datum /\ a.next = "wake"
    /\ l \in {"pipe_read", "read", "eof", "mark", "block", "halted"} => a.next = "read"
    /\ l \in {"eof", "mark", "block", "halted"} => a.data = <<>>
    /\ l \in {"wake", "sweep"} => a.next = "wake"
    /\ l \in {"close", "hangup", "token_end"} =>
         a.next = IF a.e = "w" THEN "wake" ELSE "leave"
    /\ l = "dup" => a.dup # None
    /\ a.next = "read" => a.len \in 1 .. MaxLen

PTypes ==
  /\ cores \in Nat
  /\ pipe \in [Pipe -> GoodPipe]
  /\ mask \in [Pipe -> SUBSET {"IN", "OUT", "HUP", "ERR"}]
  /\ fds \in [Proc -> [Fd -> Descs \cup {None}]]
  /\ pc \in [Proc -> Labels \cup {None}]
  /\ arg \in [Proc -> Locals \cup {None}]
  /\ state \in [Proc -> Pipe \cup {None}]
  /\ waiters \in [Pipe -> SUBSET Proc]
  /\ table \in Proc \cup {None} /\ out \in Seq(Byte)
  /\ \A p \in Proc : LocalAt(pc[p], arg[p])

\* The descriptors behind a call stay as they were: a slot that was never used has none, a
\* reader keeps the end it reads, and dup2 keeps its source and its free target.
KeptAt(l, a, t) ==
  /\ l = None => \A f \in Fd : t[f] = None
  /\ InCall(l) /\ a.next = "read" => \E f \in Fd : t[f] = Desc(a.i, "r")
  /\ InCall(l) /\ a.dup # None => t[a.dup[2]] = None /\ \E f \in Fd : t[f] = a.dup[1]

Kept == \A p \in Proc : KeptAt(pc[p], arg[p], fds[p])

Closing(i, e) == {p \in Proc : At(p, "close") /\ arg[p].i = i /\ arg[p].e = e}

\* Every descriptor, and every close under way, is counted.
Counted ==
  ~copied => \A i \in Pipe, e \in Ends :
    Refs(pipe[i], e) >= Cardinality(Open(i, e)) + Cardinality(Closing(i, e))

EofNoWriter == \A p \in Proc : At(p, "eof") /\ ~copied => Open(arg[p].i, "w") = {}

\* One core: one process at a time is between two points of a call.
Alone == \A p, q \in Proc : Busy(p) /\ Busy(q) => p = q

\* What the one process knows of its pipe.
Looked(p) ==
  /\ /\ pc[p] \in {"publish_in", "token_in", "publish_out", "token_out", "read", "eof",
                   "mark", "block"}
     /\ arg[p].next = "read" /\ arg[p].data = <<>>
     => available_read(pipe[arg[p].i]) = 0 \/ ~pipe[arg[p].i].active
  /\ pc[p] \in {"mark", "block"} => pipe[arg[p].i].writers > 0
  /\ pc[p] = "block" => p \in waiters[arg[p].i]
  /\ pc[p] = "publish_in" => arg[p].ar = available_read(pipe[arg[p].i])

\* The readers that sleep.
WakingBytes(q, i) ==
  /\ pc[q] \in {"publish_in", "token_in", "publish_out", "token_out", "wake", "sweep",
                "hangup", "token_end"}
  /\ arg[q].i = i /\ arg[q].next = "wake"
Asleep(p, i) ==
  At(p, "halted") /\ Blocked(p, i) =>
    /\ p \in waiters[i]
    /\ available_read(pipe[i]) > 0 => \E q \in Proc : WakingBytes(q, i)
    /\ pipe[i].writers = 0 => \E q \in Proc : Waking(q, i)

Level(i) ==
  pipe[i].active /\ available_read(pipe[i]) > 0 =>
    "IN" \in mask[i] \/ \E p \in Proc : At(p, "publish_in") /\ arg[p].i = i

OneCore ==
  cores = 1 => /\ Alone
               /\ \A p \in Proc : Looked(p)
               /\ \A p \in Proc, i \in Pipe : Asleep(p, i)
               /\ \A i \in Pipe : Level(i)

IInv == PTypes /\ Kept /\ Counted /\ EofNoWriter /\ OneCore


-----------------------------------------------------------------------------
Path == Labels \ {"user", "exit", "zombie"}

\* The value for "nothing" is no place of a call, pipe, descriptor or process.
LEMMA NoneApart == None \notin Labels /\ None \notin Pipe /\ None \notin Descs /\ None \notin Proc
BY PipesAssumption, Zenon DEF Descs, Ends

\* The places where a process has locals are inside a call.
LEMMA PathInCall == \A l \in Path : InCall(l)
BY NoneApart, Zenon DEF Path, InCall

\* A process at a point of its call has the locals of that point.
LEMMA AtPath ==
  ASSUME PTypes, NEW p \in Proc, pc[p] \in Path
  PROVE  /\ arg[p] \in Locals /\ LocalAt(pc[p], arg[p]) /\ InCall(pc[p])
BY PathInCall DEF PTypes, LocalAt

\* A step of p from one point to another.
LEMMA LocalStep ==
  ASSUME PTypes, NEW p \in Proc, NEW l \in Labels, NEW a \in Locals \cup {None},
         pc' = [pc EXCEPT ![p] = l], arg' = [arg EXCEPT ![p] = a], LocalAt(l, a)
  PROVE  /\ pc' \in [Proc -> Labels \cup {None}]
         /\ arg' \in [Proc -> Locals \cup {None}]
         /\ \A q \in Proc : LocalAt(pc'[q], arg'[q])
<1>1. pc \in [Proc -> Labels \cup {None}] /\ arg \in [Proc -> Locals \cup {None}]
  BY DEF PTypes
<1>2. \A q \in Proc : LocalAt(pc[q], arg[q]) BY DEF PTypes
<1>3. ASSUME NEW q \in Proc PROVE LocalAt(pc'[q], arg'[q])
  <2>1. CASE q = p BY <1>1, <2>1
  <2>2. CASE q # p
    <3>1. pc'[q] = pc[q] /\ arg'[q] = arg[q] BY <1>1, <2>2
    <3> QED BY <3>1, <1>2
  <2> QED BY <2>1, <2>2
<1> QED BY <1>1, <1>3

\* A move within a call that keeps the locals keeps their type.
LEMMA LocalMove ==
  ASSUME PTypes, NEW p \in Proc, NEW l \in Labels,
         pc' = [pc EXCEPT ![p] = l], arg' = arg, LocalAt(l, arg[p])
  PROVE  /\ pc' \in [Proc -> Labels \cup {None}]
         /\ arg' \in [Proc -> Locals \cup {None}]
         /\ \A q \in Proc : LocalAt(pc'[q], arg'[q])
<1>1. arg \in [Proc -> Locals \cup {None}] BY DEF PTypes
<1>2. arg' = [arg EXCEPT ![p] = arg[p]] /\ arg[p] \in Locals \cup {None} BY <1>1
<1> QED BY <1>2, LocalStep, Zenon

\* So does the return to user mode.
LEMMA ReturnStep ==
  ASSUME PTypes, NEW p \in Proc, Return(p)
  PROVE  /\ pc' \in [Proc -> Labels \cup {None}]
         /\ arg' \in [Proc -> Locals \cup {None}]
         /\ \A q \in Proc : LocalAt(pc'[q], arg'[q])
<1>1. LocalAt("user", None) BY DEF LocalAt, InCall
<1>2. pc' = [pc EXCEPT ![p] = "user"] /\ arg' = [arg EXCEPT ![p] = None]
  BY DEF Return, Go, With
<1>3. "user" \in Labels BY DEF Labels
<1> QED BY <1>1, <1>2, <1>3, LocalStep, Zenon

-----------------------------------------------------------------------------
\* The counters.
LEMMA EmptyGood == EmptyPipe \in GoodPipe
<1>1. SIZE \in Nat /\ SIZE > 1 BY PipesAssumption
<1>2. (CHOOSE b \in Byte : TRUE) \in Byte BY PipesAssumption
<1>3. EmptyPipe.buf \in [0 .. SIZE - 1 -> Byte] BY <1>2 DEF EmptyPipe
<1> QED BY <1>1, <1>3 DEF EmptyPipe, GoodPipe, PipeRec

\* pipe_alloc makes a well-formed pipe.
LEMMA NewGood ==
  [EmptyPipe EXCEPT !.active = TRUE, !.readers = 1, !.writers = 1] \in GoodPipe
<1> DEFINE n == [EmptyPipe EXCEPT !.active = TRUE, !.readers = 1, !.writers = 1]
<1>1. EmptyPipe \in PipeRec BY EmptyGood DEF GoodPipe
<1>2. n \in PipeRec /\ n.active = TRUE /\ n.readers = 1 /\ n.writers = 1 BY <1>1, Zenon DEF PipeRec
<1>3. n.readers + n.writers > 0 BY <1>2
<1> QED BY <1>2, <1>3, Zenon DEF GoodPipe

\* Setting the counters of a pipe changes nothing else of it.
LEMMA CountGood ==
  ASSUME NEW q \in PipeRec, NEW r \in Nat, NEW w \in Nat
  PROVE  /\ Count(q, r, w) \in PipeRec
         /\ Count(q, r, w).readers = r /\ Count(q, r, w).writers = w
         /\ Count(q, r, w).active = q.active /\ Count(q, r, w).buf = q.buf
         /\ Count(q, r, w).head = q.head /\ Count(q, r, w).tail = q.tail
BY Zenon DEF Count, PipeRec

\* What is in the ring does not depend on the counters.
LEMMA ContentsSame ==
  ASSUME NEW q, NEW z, z.buf = q.buf, z.head = q.head, z.tail = q.tail
  PROVE  Contents(z) = Contents(q) /\ available_read(z) = available_read(q)
BY DEF Contents, available_read

\* pipe_add_reader and pipe_add_writer count one end more and keep the bytes.
LEMMA AddedGood ==
  ASSUME NEW q \in GoodPipe, NEW e \in Ends
  PROVE  /\ Added(q, e) \in GoodPipe /\ Contents(Added(q, e)) = Contents(q)
         /\ available_read(Added(q, e)) = available_read(q)
         /\ Added(q, e).active = q.active
         /\ Added(q, e).readers = IF q.active /\ e = "r" THEN q.readers + 1 ELSE q.readers
         /\ Added(q, e).writers = IF q.active /\ e = "w" THEN q.writers + 1 ELSE q.writers
<1>1. q \in PipeRec /\ (q.active <=> q.readers + q.writers > 0) BY DEF GoodPipe
<1>2. q.readers \in Nat /\ q.writers \in Nat /\ q.active \in BOOLEAN BY <1>1 DEF PipeRec
<1>3. CASE ~q.active BY <1>3, <1>2 DEF Added
<1>4. CASE q.active /\ e = "r"
  <2> DEFINE n == q.readers + 1
  <2>1. Added(q, e) = Count(q, n, q.writers) BY <1>4 DEF Added
  <2>2. n \in Nat /\ n = q.readers + 1 BY <1>2
  <2> DEFINE z == Added(q, e)
  <2>z. z = Added(q, e) OBVIOUS
  <2> HIDE DEF z, n
  <2>3. /\ z \in PipeRec /\ z.active = q.active
        /\ z.readers = q.readers + 1 /\ z.writers = q.writers
        /\ z.buf = q.buf /\ z.head = q.head /\ z.tail = q.tail
    BY <2>1, <2>2, <2>z, <1>1, <1>2, Zenon DEF Count, PipeRec
  <2>4. z.readers + z.writers > 0 BY <1>2, <2>3
  <2>5. z \in GoodPipe BY <2>3, <2>4, <1>4, Zenon DEF GoodPipe
  <2>6. Contents(z) = Contents(q) /\ available_read(z) = available_read(q)
    BY <2>3, ContentsSame
  <2> QED BY <2>3, <2>5, <2>6, <2>z, <1>4, Zenon
<1>5. CASE q.active /\ e = "w"
  <2> DEFINE n == q.writers + 1
  <2>1. Added(q, e) = Count(q, q.readers, n) BY <1>5 DEF Added
  <2>2. n \in Nat /\ n = q.writers + 1 BY <1>2
  <2> DEFINE z == Added(q, e)
  <2>z. z = Added(q, e) OBVIOUS
  <2> HIDE DEF z, n
  <2>3. /\ z \in PipeRec /\ z.active = q.active
        /\ z.readers = q.readers /\ z.writers = q.writers + 1
        /\ z.buf = q.buf /\ z.head = q.head /\ z.tail = q.tail
    BY <2>1, <2>2, <2>z, <1>1, <1>2, Zenon DEF Count, PipeRec
  <2>4. z.readers + z.writers > 0 BY <1>2, <2>3
  <2>5. z \in GoodPipe BY <2>3, <2>4, <1>5, Zenon DEF GoodPipe
  <2>6. Contents(z) = Contents(q) /\ available_read(z) = available_read(q)
    BY <2>3, ContentsSame
  <2> QED BY <2>3, <2>5, <2>6, <2>z, <1>5, Zenon
<1> QED BY <1>3, <1>4, <1>5 DEF Ends

\* Giving up an end counts one less and keeps the bytes; it may free the slot.
LEMMA DroppedGood ==
  ASSUME NEW q \in GoodPipe, NEW e \in Ends
  PROVE  /\ Dropped(q, e) \in GoodPipe /\ Contents(Dropped(q, e)) = Contents(q)
         /\ available_read(Dropped(q, e)) = available_read(q)
         /\ Dropped(q, e).active => q.active
         /\ Dropped(q, e).readers = IF e = "r" /\ q.readers > 0 THEN q.readers - 1 ELSE q.readers
         /\ Dropped(q, e).writers = IF e = "w" /\ q.writers > 0 THEN q.writers - 1 ELSE q.writers
<1> DEFINE r == IF e = "r" /\ q.readers > 0 THEN q.readers - 1 ELSE q.readers
           w == IF e = "w" /\ q.writers > 0 THEN q.writers - 1 ELSE q.writers
           z == Count(q, r, w)
           d == Dropped(q, e)
<1>1. q \in PipeRec /\ (q.active <=> q.readers + q.writers > 0) BY DEF GoodPipe
<1>2. q.readers \in Nat /\ q.writers \in Nat /\ q.active \in BOOLEAN BY <1>1 DEF PipeRec
<1>3. r \in Nat /\ w \in Nat /\ r <= q.readers /\ w <= q.writers BY <1>2
<1>4. d = [z EXCEPT !.active = @ /\ ~(r = 0 /\ w = 0)] BY DEF Dropped
<1>5. /\ r = (IF e = "r" /\ q.readers > 0 THEN q.readers - 1 ELSE q.readers)
      /\ w = (IF e = "w" /\ q.writers > 0 THEN q.writers - 1 ELSE q.writers)
  OBVIOUS
<1> HIDE DEF r, w
<1>6. /\ z \in PipeRec /\ z.readers = r /\ z.writers = w /\ z.active = q.active
      /\ z.buf = q.buf /\ z.head = q.head /\ z.tail = q.tail
  BY <1>1, <1>3, CountGood, Zenon
<1>7. d = Dropped(q, e) OBVIOUS
<1> HIDE DEF z, d
<1>8. /\ d \in PipeRec /\ d.readers = r /\ d.writers = w
      /\ d.active = (q.active /\ ~(r = 0 /\ w = 0))
      /\ d.buf = q.buf /\ d.head = q.head /\ d.tail = q.tail
  BY <1>2, <1>4, <1>6, Zenon DEF PipeRec
<1>9. d.active <=> d.readers + d.writers > 0
  <2>1. ~(r = 0 /\ w = 0) <=> d.readers + d.writers > 0 BY <1>3, <1>8
  <2>2. d.readers + d.writers > 0 => q.readers + q.writers > 0 BY <1>2, <1>3, <1>8
  <2>3. d.active <=> q.active /\ ~(r = 0 /\ w = 0) BY <1>8, Zenon
  <2> QED BY <1>1, <2>1, <2>2, <2>3, Zenon
<1>10. d \in GoodPipe BY <1>8, <1>9 DEF GoodPipe
<1>11. Contents(d) = Contents(q) /\ available_read(d) = available_read(q) BY <1>8, ContentsSame
<1> QED BY <1>5, <1>7, <1>8, <1>10, <1>11, Zenon

-----------------------------------------------------------------------------
\* Where a process with locals may go without more ado.
LEMMA AnyPoint ==
  ASSUME NEW a \in Locals, a.next = "read" => a.len \in 1 .. MaxLen
  PROVE  /\ LocalAt(a.next, a) /\ a.next \in Labels
         /\ \A l \in {"publish_in", "token_in", "publish_out", "token_out", "leave",
                      "exit_hangup", "exit_token"} : LocalAt(l, a) /\ l \in Labels
<1>1. a.next \in {"wake", "read", "leave"} BY DEF Locals
<1>2. LocalAt(a.next, a) /\ a.next \in Labels BY <1>1 DEF LocalAt, Labels
<1>3. \A l \in {"publish_in", "token_in", "publish_out", "token_out", "leave",
                      "exit_hangup", "exit_token"} : LocalAt(l, a) /\ l \in Labels
  BY DEF LocalAt, Labels
<1> QED BY <1>2, <1>3

\* Publishing a level and waking a token keep the types.
LEMMA PublishTypes ==
  ASSUME PTypes, NEW p \in Proc, PublishIn(p) \/ PublishOut(p) \/ WakeToken(p)
  PROVE  PTypes'
<1> DEFINE a == arg[p]
<1>1. pc[p] \in {"publish_in", "publish_out", "token_in", "token_out", "token_end"}
  BY DEF PublishIn, PublishOut, WakeToken, At
<1>2. pc[p] \in Path BY <1>1 DEF Path, Labels
<1>3. a \in Locals /\ (a.next = "read" => a.len \in 1 .. MaxLen)
  BY <1>2, AtPath DEF LocalAt
<1>4. PICK l \in {"token_in", "publish_out", "token_out", a.next} : Go(p, l)
  BY DEF PublishIn, PublishOut, WakeToken
<1>5. LocalAt(l, a) /\ l \in Labels BY <1>3, <1>4, AnyPoint
<1>6. arg' = arg BY DEF PublishIn, PublishOut, WakeToken
<1>7. /\ pc' \in [Proc -> Labels \cup {None}]
      /\ arg' \in [Proc -> Locals \cup {None}]
      /\ \A q \in Proc : LocalAt(pc'[q], arg'[q])
  BY <1>4, <1>5, <1>6, LocalMove, Zenon DEF Go
<1>8. mask' \in [Pipe -> SUBSET {"IN", "OUT", "HUP", "ERR"}]
  BY DEF PublishIn, PublishOut, WakeToken, PTypes
<1>9. UNCHANGED <<cores, pipe, fds, state, waiters, table, out>>
  BY DEF PublishIn, PublishOut, WakeToken
<1> QED BY <1>7, <1>8, <1>9 DEF PTypes

\* The end of a call keeps the types of its caller.
LEMMA LeaveTypes ==
  ASSUME PTypes, NEW p \in Proc, pc[p] \in Path, Leave(p)
  PROVE  /\ pc' \in [Proc -> Labels \cup {None}]
         /\ arg' \in [Proc -> Locals \cup {None}]
         /\ \A q \in Proc : LocalAt(pc'[q], arg'[q])
<1>1. CASE arg[p].dup = None BY <1>1, ReturnStep DEF Leave
<1>2. CASE arg[p].dup # None
  <2>1. LocalAt("dup", arg[p]) /\ "dup" \in Labels BY <1>2, AtPath DEF LocalAt, Labels
  <2>2. pc' = [pc EXCEPT ![p] = "dup"] /\ arg' = arg BY <1>2 DEF Leave, Go
  <2> QED BY <2>1, <2>2, LocalMove, Zenon
<1> QED BY <1>1, <1>2

\* The sweep over the sleeping readers keeps the types.
LEMMA WakeTypes ==
  ASSUME PTypes, NEW p \in Proc, WakeLook(p) \/ WakeSweep(p) \/ CloseDone(p)
  PROVE  PTypes'
<1>1. pc[p] \in {"wake", "sweep", "leave"} BY DEF WakeLook, WakeSweep, CloseDone, At
<1>2. pc[p] \in Path BY <1>1 DEF Path, Labels
<1>3. arg[p] \in Locals /\ LocalAt(pc[p], arg[p]) BY <1>2, AtPath
<1>4. arg[p].i \in Pipe BY <1>3 DEF Locals
<1>5. /\ pc' \in [Proc -> Labels \cup {None}]
      /\ arg' \in [Proc -> Locals \cup {None}]
      /\ \A q \in Proc : LocalAt(pc'[q], arg'[q])
  <2>1. CASE Leave(p) BY <1>2, <2>1, LeaveTypes
  <2>2. CASE WakeLook(p) /\ ~Leave(p)
    <3>1. pc[p] = "wake" /\ pc' = [pc EXCEPT ![p] = "sweep"] /\ arg' = arg
      BY <2>2 DEF WakeLook, Go, At
    <3>2. LocalAt("sweep", arg[p]) /\ "sweep" \in Labels BY <3>1, <1>2, AtPath DEF LocalAt, Labels
    <3> QED BY <3>1, <3>2, LocalMove, Zenon
  <2> QED BY <2>1, <2>2 DEF WakeSweep, CloseDone
<1>6. state' \in [Proc -> Pipe \cup {None}] /\ waiters' \in [Pipe -> SUBSET Proc]
  BY Zenon DEF WakeLook, WakeSweep, CloseDone, PTypes
<1>7. UNCHANGED <<cores, pipe, mask, fds, table, out>>
  BY DEF WakeLook, WakeSweep, CloseDone
<1> QED BY <1>5, <1>6, <1>7 DEF PTypes

\* What a reader does without bytes keeps the types.
LEMMA ReaderTypes ==
  ASSUME PTypes, NEW p \in Proc,
         NoBytes(p) \/ ReturnEof(p) \/ MarkWaiter(p) \/ Block(p) \/ Resume(p)
  PROVE  PTypes'
<1> DEFINE a == arg[p]
<1>1. pc[p] \in {"read", "eof", "mark", "block", "halted"}
  BY DEF NoBytes, ReturnEof, MarkWaiter, Block, Resume, At
<1>2. pc[p] \in Path BY <1>1 DEF Path, Labels
<1>3. a \in Locals /\ LocalAt(pc[p], a) BY <1>2, AtPath
<1>4. a.i \in Pipe BY <1>3 DEF Locals
<1>5. /\ pc' \in [Proc -> Labels \cup {None}]
      /\ arg' \in [Proc -> Locals \cup {None}]
      /\ \A q \in Proc : LocalAt(pc'[q], arg'[q])
  <2>1. CASE Return(p) BY <2>1, ReturnStep
  <2>2. CASE ~Return(p)
    <3>1. PICK l \in {"eof", "mark", "block", "halted", "pipe_read"} :
             /\ pc' = [pc EXCEPT ![p] = l] /\ arg' = arg
             /\ pc[p] = "read" => a.data = <<>>
      BY <2>2 DEF NoBytes, ReturnEof, MarkWaiter, Block, Resume, Go, At
    <3>2. LocalAt(l, a) /\ l \in Labels
      <4>1. a.next = "read" /\ a.len \in 1 .. MaxLen /\ a.data = <<>>
        BY <1>1, <1>2, <3>1, AtPath, Zenon DEF LocalAt
      <4> QED BY <1>3, <3>1, <4>1 DEF LocalAt, Labels
    <3> QED BY <3>1, <3>2, LocalMove, Zenon
  <2> QED BY <2>1, <2>2
<1>6. state' \in [Proc -> Pipe \cup {None}] /\ waiters' \in [Pipe -> SUBSET Proc]
  BY <1>4 DEF NoBytes, ReturnEof, MarkWaiter, Block, Resume, PTypes
<1>7. UNCHANGED <<cores, pipe, mask, fds, table, out>>
  BY DEF NoBytes, ReturnEof, MarkWaiter, Block, Resume
<1> QED BY <1>5, <1>6, <1>7 DEF PTypes

\* A write and a read change the ring and nothing else of the pipe.
LEMMA WriteGood ==
  ASSUME NEW q \in GoodPipe, NEW d \in Seq(Byte)
  PROVE  /\ write(q, d) \in GoodPipe
         /\ write(q, d).readers = q.readers /\ write(q, d).writers = q.writers
         /\ (write(q, d).active <=> q.active)
<1>1. q \in PipeRec /\ (q.active <=> q.readers + q.writers > 0) BY DEF GoodPipe
<1>2. write(q, d) \in PipeRec BY <1>1, WriteAppends
<1>3. /\ write(q, d).readers = q.readers /\ write(q, d).writers = q.writers
      /\ (write(q, d).active <=> q.active)
  BY <1>1 DEF write, PipeRec
<1>4. write(q, d) \in GoodPipe BY <1>1, <1>2, <1>3, Zenon DEF GoodPipe
<1> QED BY <1>3, <1>4

\* A read leaves a well-formed ring and the counters as they were.
LEMMA ReadGood ==
  ASSUME NEW q \in GoodPipe, NEW n \in Nat
  PROVE  /\ read(q, n).pipe \in GoodPipe
         /\ read(q, n).pipe.readers = q.readers /\ read(q, n).pipe.writers = q.writers
         /\ (read(q, n).pipe.active <=> q.active)
<1>1. q \in PipeRec /\ (q.active <=> q.readers + q.writers > 0) BY DEF GoodPipe
<1>2. read(q, n).pipe \in PipeRec BY <1>1, ReadTakes
<1>3. /\ read(q, n).pipe.readers = q.readers /\ read(q, n).pipe.writers = q.writers
      /\ (read(q, n).pipe.active <=> q.active)
  BY <1>1 DEF read, PipeRec
<1>4. read(q, n).pipe \in GoodPipe BY <1>1, <1>2, <1>3, Zenon DEF GoodPipe
<1> QED BY <1>3, <1>4

\* A read returns a sequence of bytes.
LEMMA ReadBytes ==
  ASSUME NEW q \in GoodPipe, NEW n \in Nat
  PROVE  read(q, n).bytes \in Seq(Byte)
<1> DEFINE c == Contents(q)
           d == read(q, n).bytes
<1>1. q \in PipeRec BY DEF GoodPipe
<1>2. c \in Seq(Byte) BY <1>1, ContentsSeq
<1>3. d = SubSeq(c, 1, Smaller(n, Len(c))) BY <1>1, ReadTakes
<1> HIDE DEF c, d
<1>4. Smaller(n, Len(c)) \in Nat /\ Smaller(n, Len(c)) <= Len(c) BY <1>2 DEF Smaller
<1>5. d \in Seq(Byte) BY <1>2, <1>3, <1>4
<1> QED BY <1>5 DEF d

\* The locals after the pipe was written or read: the bytes, and both levels.
After(a, d, q) == [a EXCEPT !.data = d, !.ar = available_read(q), !.aw = available_write(q)]

\* What can be read from a ring and written to it is a number.
LEMMA AvailNat ==
  ASSUME NEW q \in GoodPipe
  PROVE  available_read(q) \in Nat /\ available_write(q) \in Nat
<1>1. q.head \in 0 .. SIZE - 1 /\ q.tail \in 0 .. SIZE - 1 BY DEF GoodPipe, PipeRec
<1>2. SIZE \in Nat BY PipesAssumption
<1> QED BY <1>1, <1>2, AvailRange

\* The locals after a transfer: the bytes left, and the levels seen.
LEMMA LocalUpdate ==
  ASSUME NEW a \in Locals, NEW d \in Seq(Byte), NEW q \in GoodPipe
  PROVE  LET b == After(a, d, q)
         IN /\ b \in Locals /\ b.i = a.i /\ b.e = a.e /\ b.next = a.next /\ b.len = a.len
            /\ b.dup = a.dup /\ b.data = d /\ b.ar = available_read(q)
BY AvailNat, Zenon DEF Locals, After

\* PipeWrite keeps the types.
LEMMA PipeWriteTypes == ASSUME PTypes, NEW p \in Proc, PipeWrite(p) PROVE PTypes'
<1> DEFINE a == arg[p]
           q == write(pipe[a.i], a.data)
<1>1. pc[p] = "pipe_write" BY DEF PipeWrite, At
<1>2. pc[p] \in Path BY <1>1 DEF Path, Labels
<1>3. a \in Locals /\ LocalAt("pipe_write", a) /\ InCall("pipe_write") BY <1>1, <1>2, AtPath
<1>4. a.i \in Pipe /\ a.data \in Seq(Byte) BY <1>3 DEF Locals
<1>5. a.next = "wake" BY <1>3 DEF LocalAt
<1>6. pipe[a.i] \in GoodPipe BY <1>4 DEF PTypes
<1>7. q \in GoodPipe BY <1>4, <1>6, WriteGood
<1>8. CASE pipe[a.i].active
  <2> DEFINE b == After(a, <<>>, q)
  <2>1. /\ pipe' = [pipe EXCEPT ![a.i] = q] /\ arg' = [arg EXCEPT ![p] = b]
        /\ pc' = [pc EXCEPT ![p] = "publish_in"]
    BY <1>8 DEF PipeWrite, With, Go, After
  <2>2. <<>> \in Seq(Byte) OBVIOUS
  <2>3. b \in Locals /\ b.next = "wake" BY <1>3, <1>5, <1>7, <2>2, LocalUpdate, Zenon
  <2> HIDE DEF b
  <2>4. LocalAt("publish_in", b) /\ "publish_in" \in Labels BY <2>3, AnyPoint
  <2>5. /\ pc' \in [Proc -> Labels \cup {None}]
        /\ arg' \in [Proc -> Locals \cup {None}]
        /\ \A x \in Proc : LocalAt(pc'[x], arg'[x])
    BY <2>1, <2>3, <2>4, LocalStep, Zenon
  <2>6. pipe' \in [Pipe -> GoodPipe] BY <1>7, <2>1, Zenon DEF PTypes
  <2>7. UNCHANGED <<cores, mask, fds, state, waiters, table, out>> BY DEF PipeWrite
  <2> QED BY <2>5, <2>6, <2>7 DEF PTypes
<1>9. CASE ~pipe[a.i].active
  <2>1. pc' = [pc EXCEPT ![p] = "wake"] /\ arg' = arg /\ pipe' = pipe
    BY <1>9 DEF PipeWrite, Go
  <2>2. LocalAt("wake", a) /\ "wake" \in Labels BY <1>3, <1>5 DEF LocalAt, Labels
  <2>5. /\ pc' \in [Proc -> Labels \cup {None}]
        /\ arg' \in [Proc -> Locals \cup {None}]
        /\ \A x \in Proc : LocalAt(pc'[x], arg'[x])
    BY <2>1, <2>2, LocalMove, Zenon
  <2>7. UNCHANGED <<cores, mask, fds, state, waiters, table, out>> BY DEF PipeWrite
  <2> QED BY <2>1, <2>5, <2>7 DEF PTypes
<1> QED BY <1>8, <1>9

\* PipeRead keeps the types.
LEMMA PipeReadTypes == ASSUME PTypes, NEW p \in Proc, PipeRead(p) PROVE PTypes'
<1> DEFINE a == arg[p]
           r == read(pipe[a.i], a.len)
           q == r.pipe
           d == r.bytes
<1>1. pc[p] = "pipe_read" BY DEF PipeRead, At
<1>2. pc[p] \in Path BY <1>1 DEF Path, Labels
<1>3. a \in Locals /\ LocalAt("pipe_read", a) /\ InCall("pipe_read") BY <1>1, <1>2, AtPath
<1>4. a.i \in Pipe /\ a.len \in Nat BY <1>3 DEF Locals
<1>5. a.next = "read" /\ a.len \in 1 .. MaxLen BY <1>3 DEF LocalAt
<1>6. pipe[a.i] \in GoodPipe BY <1>4 DEF PTypes
<1>7. q \in GoodPipe BY <1>4, <1>6, ReadGood
<1>d. d \in Seq(Byte) BY <1>4, <1>6, ReadBytes, Zenon
<1>8. CASE pipe[a.i].active
  <2> DEFINE b == After(a, d, q)
  <2>1. /\ pipe' = [pipe EXCEPT ![a.i] = q] /\ arg' = [arg EXCEPT ![p] = b]
        /\ pc' = [pc EXCEPT ![p] = "publish_in"] /\ out' = d
    BY <1>8, Zenon DEF PipeRead, With, Go, After
  <2>3. b \in Locals /\ b.next = "read" /\ b.len = a.len BY <1>3, <1>5, <1>7, <1>d, LocalUpdate
  <2> HIDE DEF b
  <2>4. LocalAt("publish_in", b) /\ "publish_in" \in Labels BY <1>5, <2>3, AnyPoint
  <2>5. /\ pc' \in [Proc -> Labels \cup {None}]
        /\ arg' \in [Proc -> Locals \cup {None}]
        /\ \A x \in Proc : LocalAt(pc'[x], arg'[x])
    BY <2>1, <2>3, <2>4, LocalStep, Zenon
  <2>6. pipe' \in [Pipe -> GoodPipe] BY <1>7, <2>1, Zenon DEF PTypes
  <2>7. UNCHANGED <<cores, mask, fds, state, waiters, table>> BY DEF PipeRead
  <2> QED BY <1>d, <2>1, <2>5, <2>6, <2>7, Zenon DEF PTypes
<1>9. CASE ~pipe[a.i].active
  <2>1. pc' = [pc EXCEPT ![p] = "read"] /\ arg' = arg /\ pipe' = pipe /\ out' = out
    BY <1>9 DEF PipeRead, Go
  <2>2. LocalAt("read", a) /\ "read" \in Labels BY <1>3, <1>5 DEF LocalAt, Labels
  <2>5. /\ pc' \in [Proc -> Labels \cup {None}]
        /\ arg' \in [Proc -> Locals \cup {None}]
        /\ \A x \in Proc : LocalAt(pc'[x], arg'[x])
    BY <2>1, <2>2, LocalMove, Zenon
  <2>7. UNCHANGED <<cores, mask, fds, state, waiters, table>> BY DEF PipeRead
  <2> QED BY <2>1, <2>5, <2>7 DEF PTypes
<1> QED BY <1>8, <1>9

-----------------------------------------------------------------------------
\* The locals a call starts with.
LEMMA LocalFields ==
  ASSUME NEW i \in Pipe, NEW next \in {"wake", "read", "leave"}
  PROVE  LET b == Local(i, next)
         IN /\ b \in Locals /\ b.i = i /\ b.next = next /\ b.dup = None /\ b.data = <<>>
BY DEF Local, Locals, Ends

\* The locals of a write.
LEMMA WriteLocal ==
  ASSUME NEW i \in Pipe, NEW d \in Datum
  PROVE  LET b == [Local(i, "wake") EXCEPT !.data = d]
         IN /\ b \in Locals /\ b.next = "wake" /\ b.dup = None /\ b.data = d
<1>1. Local(i, "wake") \in Locals /\ Local(i, "wake").next = "wake" /\ Local(i, "wake").dup = None
  BY LocalFields
<1>2. d \in Seq(Byte) BY DatumSeq
<1> QED BY <1>1, <1>2 DEF Locals

\* The locals of a read.
LEMMA ReadLocal ==
  ASSUME NEW i \in Pipe, NEW n \in 1 .. MaxLen
  PROVE  LET b == [Local(i, "read") EXCEPT !.len = n]
         IN /\ b \in Locals /\ b.i = i /\ b.next = "read" /\ b.dup = None /\ b.data = <<>>
            /\ b.len = n
<1>1. Local(i, "read") \in Locals /\ Local(i, "read").next = "read" /\ Local(i, "read").dup = None
      /\ Local(i, "read").i = i /\ Local(i, "read").data = <<>>
  BY LocalFields
<1>2. n \in Nat BY PipesAssumption
<1> QED BY <1>1, <1>2 DEF Locals

\* The locals of a close.
LEMMA CloseFields ==
  ASSUME NEW d \in Descs
  PROVE  LET b == CloseLocal(d)
         IN /\ b \in Locals /\ b.i = d.pipe /\ b.e = d.end /\ b.dup = None
            /\ b.next = IF b.e = "w" THEN "wake" ELSE "leave"
            /\ LocalAt("close", b) /\ LocalAt("exit_hangup", b)
<1> DEFINE next == IF d.end = "w" THEN "wake" ELSE "leave"
           z == Local(d.pipe, next)
           b == CloseLocal(d)
<1>1. d.pipe \in Pipe /\ d.end \in Ends BY DEF Descs
<1>2. next \in {"wake", "read", "leave"} OBVIOUS
<1>3. b = [z EXCEPT !.e = d.end] BY DEF CloseLocal
<1>4. next = IF d.end = "w" THEN "wake" ELSE "leave" OBVIOUS
<1> HIDE DEF next
<1>5. z \in Locals /\ z.i = d.pipe /\ z.next = next /\ z.dup = None
  BY <1>1, <1>2, LocalFields
<1>6. b = CloseLocal(d) OBVIOUS
<1> HIDE DEF z, b
<1>7. b \in Locals /\ b.i = d.pipe /\ b.next = next /\ b.dup = None /\ b.e = d.end
  BY <1>1, <1>3, <1>5 DEF Locals
<1>8. LocalAt("close", b) /\ LocalAt("exit_hangup", b) BY <1>4, <1>7 DEF LocalAt
<1> QED BY <1>4, <1>6, <1>7, <1>8

\* The locals of a close on behalf of dup2.
LEMMA DupFields ==
  ASSUME NEW d \in Descs, NEW src \in Descs, NEW new \in Fd
  PROVE  LET b == [CloseLocal(d) EXCEPT !.dup = <<src, new>>]
         IN /\ b \in Locals /\ b.i = d.pipe /\ b.e = d.end /\ b.dup = <<src, new>>
            /\ b.next = IF b.e = "w" THEN "wake" ELSE "leave"
            /\ LocalAt("close", b)
<1> DEFINE z == CloseLocal(d)
           b == [z EXCEPT !.dup = <<src, new>>]
<1>1. z \in Locals /\ z.i = d.pipe /\ z.e = d.end /\ z.next = IF z.e = "w" THEN "wake" ELSE "leave"
  BY CloseFields
<1> HIDE DEF z
<1>2. b \in Locals /\ b.i = d.pipe /\ b.e = d.end /\ b.dup = <<src, new>> /\ b.next = z.next
  BY <1>1 DEF Locals
<1>3. b = [z EXCEPT !.dup = <<src, new>>] OBVIOUS
<1> HIDE DEF b
<1>4. LocalAt("close", b) BY <1>1, <1>2 DEF LocalAt
<1> QED BY <1>1, <1>2, <1>4 DEF b, z

\* An open descriptor names an end of a pipe.
LEMMA FdType ==
  ASSUME PTypes, NEW p \in Proc, NEW f \in Fd, fds[p][f] # None
  PROVE  fds[p][f] \in Descs /\ fds[p][f].pipe \in Pipe /\ fds[p][f].end \in Ends
BY DEF PTypes, Descs

\* Entering a write or a read keeps the types.
LEMMA StartTypes == ASSUME PTypes, NEW p \in Proc, Write(p) \/ Read(p) PROVE PTypes'
<1>1. PICK l \in {"pipe_write", "pipe_read"}, b \in Locals :
         /\ pc' = [pc EXCEPT ![p] = l] /\ arg' = [arg EXCEPT ![p] = b] /\ LocalAt(l, b)
  <2>1. CASE Write(p)
    <3>1. PICK f \in Fd, d \in Datum :
             /\ fds[p][f] # None /\ Go(p, "pipe_write")
             /\ With(p, [Local(fds[p][f].pipe, "wake") EXCEPT !.data = d])
      BY <2>1, Zenon DEF Write
    <3> DEFINE b == [Local(fds[p][f].pipe, "wake") EXCEPT !.data = d]
    <3>2. b \in Locals /\ b.next = "wake" /\ b.data = d BY <3>1, FdType, WriteLocal
    <3>3. pc' = [pc EXCEPT ![p] = "pipe_write"] /\ arg' = [arg EXCEPT ![p] = b]
      BY <3>1 DEF Go, With
    <3> HIDE DEF b
    <3>4. LocalAt("pipe_write", b) BY <3>2 DEF LocalAt
    <3> QED BY <3>2, <3>3, <3>4, Zenon
  <2>2. CASE Read(p)
    <3>1. PICK f \in Fd, n \in 1 .. MaxLen :
             /\ fds[p][f] # None
             /\ With(p, [Local(fds[p][f].pipe, "read") EXCEPT !.len = n])
      BY <2>2, Zenon DEF Read
    <3> DEFINE b == [Local(fds[p][f].pipe, "read") EXCEPT !.len = n]
    <3>2. b \in Locals /\ b.next = "read" /\ b.len \in 1 .. MaxLen BY <3>1, FdType, ReadLocal
    <3>3. pc' = [pc EXCEPT ![p] = "pipe_read"] /\ arg' = [arg EXCEPT ![p] = b]
      BY <3>1, <2>2 DEF Read, Go, With
    <3> HIDE DEF b
    <3>4. LocalAt("pipe_read", b) BY <3>2 DEF LocalAt
    <3> QED BY <3>2, <3>3, <3>4, Zenon
  <2> QED BY <2>1, <2>2
<1>2. l \in Labels BY <1>1 DEF Labels
<1>3. /\ pc' \in [Proc -> Labels \cup {None}]
      /\ arg' \in [Proc -> Locals \cup {None}]
      /\ \A x \in Proc : LocalAt(pc'[x], arg'[x])
  BY <1>1, <1>2, LocalStep, Zenon
<1>4. UNCHANGED <<cores, pipe, mask, fds, state, waiters, table, out>> BY DEF Write, Read
<1> QED BY <1>3, <1>4 DEF PTypes

\* Close keeps the types.
LEMMA CloseTypes == ASSUME PTypes, NEW p \in Proc, Close(p) PROVE PTypes'
<1>1. PICK f \in Fd : /\ fds[p][f] # None /\ fds' = [fds EXCEPT ![p][f] = None]
                      /\ With(p, CloseLocal(fds[p][f]))
  BY Zenon DEF Close
<1> DEFINE b == CloseLocal(fds[p][f])
<1>2. b \in Locals /\ LocalAt("close", b) /\ "close" \in Labels
  BY <1>1, FdType, CloseFields DEF Labels
<1> HIDE DEF b
<1>3. pc' = [pc EXCEPT ![p] = "close"] /\ arg' = [arg EXCEPT ![p] = b]
  BY <1>1, Zenon DEF Close, Go, With, b
<1>4. /\ pc' \in [Proc -> Labels \cup {None}]
      /\ arg' \in [Proc -> Locals \cup {None}]
      /\ \A x \in Proc : LocalAt(pc'[x], arg'[x])
  BY <1>2, <1>3, LocalStep, Zenon
<1>5. fds' \in [Proc -> [Fd -> Descs \cup {None}]] BY <1>1 DEF PTypes
<1>6. UNCHANGED <<cores, pipe, mask, state, waiters, table, out>> BY DEF Close
<1> QED BY <1>4, <1>5, <1>6 DEF PTypes

\* Giving up the end keeps the types.
LEMMA CloseEndTypes == ASSUME PTypes, NEW p \in Proc, CloseEnd(p) \/ HangUp(p) PROVE PTypes'
<1> DEFINE a == arg[p]
<1>1. pc[p] \in {"close", "hangup"} BY DEF CloseEnd, HangUp, At
<1>2. pc[p] \in Path BY <1>1 DEF Path, Labels
<1>3. a \in Locals /\ LocalAt(pc[p], a) /\ InCall(pc[p]) BY <1>2, AtPath
<1>4. a.i \in Pipe /\ a.e \in Ends BY <1>3 DEF Locals
<1>5. a.next = (IF a.e = "w" THEN "wake" ELSE "leave") BY <1>1, <1>3, Zenon DEF LocalAt
<1>6. PICK l \in {"hangup", "token_end", a.next} : pc' = [pc EXCEPT ![p] = l]
  BY DEF CloseEnd, HangUp, Go
<1>7. arg' = arg BY DEF CloseEnd, HangUp
<1>8. LocalAt(l, a) /\ l \in Labels
  <2>1. a.next # "read" BY <1>5
  <2>2. CASE l = a.next BY <2>1, <2>2, <1>3, AnyPoint
  <2>3. CASE l \in {"hangup", "token_end"}
    <3>1. LocalAt("hangup", a) BY <1>3, <1>5, <2>1, Zenon DEF LocalAt
    <3>2. LocalAt("token_end", a) BY <1>3, <1>5, <2>1 DEF LocalAt
    <3> QED BY <2>3, <3>1, <3>2, Zenon DEF Labels
  <2> QED BY <1>6, <2>2, <2>3
<1>9. /\ pc' \in [Proc -> Labels \cup {None}]
      /\ arg' \in [Proc -> Locals \cup {None}]
      /\ \A x \in Proc : LocalAt(pc'[x], arg'[x])
  BY <1>6, <1>7, <1>8, LocalMove, Zenon
<1>10. pipe' \in [Pipe -> GoodPipe]
  <2>1. CASE HangUp(p) BY <2>1 DEF HangUp, PTypes
  <2>2. CASE CloseEnd(p)
    <3>1. pipe[a.i] \in GoodPipe BY <1>4, Zenon DEF PTypes
    <3>2. Dropped(pipe[a.i], a.e) \in GoodPipe BY <3>1, <1>4, DroppedGood, Zenon
    <3>3. pipe' = [pipe EXCEPT ![a.i] = Dropped(pipe[a.i], a.e)] BY <2>2 DEF CloseEnd
    <3> QED BY <3>2, <3>3, Zenon DEF PTypes
  <2> QED BY <2>1, <2>2
<1>11. mask' \in [Pipe -> SUBSET {"IN", "OUT", "HUP", "ERR"}]
  <2>1. Hangup(a.e) \subseteq {"IN", "OUT", "HUP", "ERR"} BY DEF Hangup
  <2>2. mask \in [Pipe -> SUBSET {"IN", "OUT", "HUP", "ERR"}] BY DEF PTypes
  <2>3. CASE HangUp(p)
    <3>1. mask' = [mask EXCEPT ![a.i] = @ \cup Hangup(a.e)] BY <2>3 DEF HangUp
    <3>2. mask[a.i] \cup Hangup(a.e) \in SUBSET {"IN", "OUT", "HUP", "ERR"} BY <1>4, <2>1, <2>2, Zenon
    <3> QED BY <3>1, <3>2, <2>2, Zenon
  <2>4. CASE CloseEnd(p) BY <2>2, <2>4, Zenon DEF CloseEnd
  <2> QED BY <2>3, <2>4
<1>12. UNCHANGED <<cores, fds, state, waiters, table, out>> BY DEF CloseEnd, HangUp
<1> QED BY <1>9, <1>10, <1>11, <1>12, Zenon DEF PTypes

-----------------------------------------------------------------------------
\* Copies.
LEMMA DupSetTypes ==
  ASSUME PTypes, NEW p \in Proc, NEW src \in Descs, NEW new \in Fd, DupSet(p, src, new)
  PROVE  /\ fds' \in [Proc -> [Fd -> Descs \cup {None}]]
         /\ pipe' \in [Pipe -> GoodPipe]
<1>1. src.pipe \in Pipe /\ src.end \in Ends BY DEF Descs
<1>2. pipe[src.pipe] \in GoodPipe BY <1>1 DEF PTypes
<1>3. Added(pipe[src.pipe], src.end) \in GoodPipe BY <1>1, <1>2, AddedGood
<1>4. pipe' = [pipe EXCEPT ![src.pipe] = Added(pipe[src.pipe], src.end)] BY DEF DupSet
<1>5. fds' = [fds EXCEPT ![p][new] = src] BY DEF DupSet
<1>6. pipe' \in [Pipe -> GoodPipe] BY <1>3, <1>4, Zenon DEF PTypes
<1>7. fds' \in [Proc -> [Fd -> Descs \cup {None}]] BY <1>5 DEF PTypes
<1> QED BY <1>6, <1>7

\* Dup2 keeps the types.
LEMMA Dup2Types == ASSUME PTypes, NEW p \in Proc, Dup2(p) PROVE PTypes'
<1>1. PICK old \in Fd, new \in Fd :
         LET src == fds[p][old]
         IN /\ old # new /\ src # None
            /\ IF fds[p][new] = None
               THEN DupSet(p, src, new) /\ UNCHANGED <<pc, arg>>
               ELSE /\ fds' = [fds EXCEPT ![p][new] = None]
                    /\ With(p, [CloseLocal(fds[p][new]) EXCEPT !.dup = <<src, new>>])
                    /\ Go(p, "close") /\ UNCHANGED pipe
  BY Zenon DEF Dup2
<1> DEFINE src == fds[p][old]
<1>2. src \in Descs BY <1>1, FdType
<1>3. UNCHANGED <<cores, mask, state, waiters, table, out>> BY DEF Dup2
<1>4. CASE fds[p][new] = None
  <2>1. DupSet(p, src, new) /\ UNCHANGED <<pc, arg>> BY <1>1, <1>4
  <2>2. fds' \in [Proc -> [Fd -> Descs \cup {None}]] /\ pipe' \in [Pipe -> GoodPipe]
    BY <1>2, <2>1, DupSetTypes, Zenon
  <2> QED BY <1>3, <2>1, <2>2 DEF PTypes
<1>5. CASE fds[p][new] # None
  <2> DEFINE b == [CloseLocal(fds[p][new]) EXCEPT !.dup = <<src, new>>]
  <2>1. /\ fds' = [fds EXCEPT ![p][new] = None] /\ pipe' = pipe
        /\ pc' = [pc EXCEPT ![p] = "close"] /\ arg' = [arg EXCEPT ![p] = b]
    BY <1>1, <1>5 DEF Go, With
  <2>2. fds[p][new] \in Descs BY <1>5, FdType
  <2>3. b \in Locals /\ LocalAt("close", b) BY <1>2, <2>2, DupFields, Zenon
  <2>4. "close" \in Labels BY DEF Labels
  <2> HIDE DEF b
  <2>5. /\ pc' \in [Proc -> Labels \cup {None}]
        /\ arg' \in [Proc -> Locals \cup {None}]
        /\ \A x \in Proc : LocalAt(pc'[x], arg'[x])
    BY <2>1, <2>3, <2>4, LocalStep, Zenon
  <2>6. fds' \in [Proc -> [Fd -> Descs \cup {None}]] BY <2>1, Zenon DEF PTypes
  <2> QED BY <1>3, <2>1, <2>5, <2>6 DEF PTypes
<1> QED BY <1>4, <1>5

\* dup2 remembers the descriptor it is to set.
LEMMA DupPending ==
  ASSUME PTypes, NEW p \in Proc, At(p, "dup")
  PROVE  arg[p].dup[1] \in Descs /\ arg[p].dup[2] \in Fd /\ arg[p].dup # None
<1>1. pc[p] \in Path /\ pc[p] = "dup" BY DEF Path, Labels, At
<1>2. arg[p] \in Locals /\ arg[p].dup # None BY <1>1, AtPath DEF LocalAt
<1> QED BY <1>2 DEF Locals

\* The second half of dup2 keeps the types.
LEMMA Dup2SetTypes == ASSUME PTypes, NEW p \in Proc, Dup2Set(p) PROVE PTypes'
<1>1. arg[p].dup[1] \in Descs /\ arg[p].dup[2] \in Fd BY DupPending DEF Dup2Set
<1>2. fds' \in [Proc -> [Fd -> Descs \cup {None}]] /\ pipe' \in [Pipe -> GoodPipe]
  BY <1>1, DupSetTypes DEF Dup2Set
<1>3. /\ pc' \in [Proc -> Labels \cup {None}]
      /\ arg' \in [Proc -> Locals \cup {None}]
      /\ \A x \in Proc : LocalAt(pc'[x], arg'[x])
  BY ReturnStep DEF Dup2Set
<1>4. UNCHANGED <<cores, mask, state, waiters, table, out>> BY DEF Dup2Set
<1> QED BY <1>2, <1>3, <1>4 DEF PTypes

\* Dup keeps the types.
LEMMA DupTypes == ASSUME PTypes, NEW p \in Proc, Dup(p) PROVE PTypes'
<1>1. PICK old \in Fd, new \in Fd : fds' = [fds EXCEPT ![p][new] = fds[p][old]]
  BY Zenon DEF Dup, FreeFd
<1>2. fds' \in [Proc -> [Fd -> Descs \cup {None}]] BY <1>1 DEF PTypes
<1>3. UNCHANGED <<cores, pipe, mask, pc, arg, state, waiters, table, out>> BY Zenon DEF Dup
<1> QED BY <1>2, <1>3 DEF PTypes

\* What a spawned child adds to a pipe.
Inherited(p, i) ==
  LET r == IF Pointing(p, i, "r") = {} THEN pipe[i] ELSE Added(pipe[i], "r")
  IN IF Pointing(p, i, "w") = {} THEN r ELSE Added(r, "w")

\* A child counts once at each end it inherits, however often it has it open.
LEMMA InheritedGood ==
  ASSUME PTypes, NEW p, NEW i \in Pipe
  PROVE  LET q == pipe[i]  z == Inherited(p, i)
         IN /\ z \in GoodPipe /\ Contents(z) = Contents(q)
            /\ available_read(z) = available_read(q) /\ z.active = q.active
            /\ z.readers = IF q.active /\ Pointing(p, i, "r") # {} THEN q.readers + 1 ELSE q.readers
            /\ z.writers = IF q.active /\ Pointing(p, i, "w") # {} THEN q.writers + 1 ELSE q.writers
<1> DEFINE q == pipe[i]
           r == IF Pointing(p, i, "r") = {} THEN q ELSE Added(q, "r")
           z == Inherited(p, i)
<1>1. q \in GoodPipe BY DEF PTypes
<1>2. "r" \in Ends /\ "w" \in Ends BY Zenon DEF Ends
<1>3. /\ r \in GoodPipe /\ Contents(r) = Contents(q)
      /\ available_read(r) = available_read(q) /\ r.active = q.active
      /\ r.readers = (IF q.active /\ Pointing(p, i, "r") # {} THEN q.readers + 1 ELSE q.readers)
      /\ r.writers = q.writers
  <2>1. CASE Pointing(p, i, "r") = {} BY <2>1, <1>1, Zenon
  <2>2. CASE Pointing(p, i, "r") # {}
    <3>1. r = Added(q, "r") BY <2>2
    <3> QED BY <2>2, <3>1, <1>1, <1>2, AddedGood, Zenon
  <2> QED BY <2>1, <2>2, Zenon
<1>4. z = IF Pointing(p, i, "w") = {} THEN r ELSE Added(r, "w") BY DEF Inherited
<1>5. z = Inherited(p, i) BY Zenon
<1> HIDE DEF r, z, q
<1>6. CASE Pointing(p, i, "w") = {} BY <1>3, <1>4, <1>5, <1>6, Zenon DEF q
<1>7. CASE Pointing(p, i, "w") # {}
  <2>1. z = Added(r, "w") BY <1>4, <1>7
  <2>2. /\ z \in GoodPipe /\ Contents(z) = Contents(r)
        /\ available_read(z) = available_read(r) /\ z.active = r.active
        /\ z.readers = r.readers
        /\ z.writers = IF r.active THEN r.writers + 1 ELSE r.writers
    BY <2>1, <1>2, <1>3, AddedGood, Zenon
  <2> QED BY <2>2, <1>3, <1>5, <1>7 DEF q
<1> QED BY <1>6, <1>7

\* Spawn keeps the types.
LEMMA SpawnTypes == ASSUME PTypes, NEW p \in Proc, Spawn(p) PROVE PTypes'
<1>1. PICK q \in Proc : /\ pc[q] = None /\ pc' = [pc EXCEPT ![q] = "user"]
                        /\ fds' = [fds EXCEPT ![q] = fds[p]]
                        /\ pipe' = [i \in Pipe |-> Inherited(p, i)]
  BY Zenon DEF Spawn, At, Go, Inherited
<1>2. UNCHANGED <<cores, mask, arg, state, waiters, table, out>> BY DEF Spawn
<1>3. LocalAt("user", arg[q]) /\ "user" \in Labels BY DEF LocalAt, InCall, Labels
<1>4. /\ pc' \in [Proc -> Labels \cup {None}]
      /\ arg' \in [Proc -> Locals \cup {None}]
      /\ \A x \in Proc : LocalAt(pc'[x], arg'[x])
  BY <1>1, <1>2, <1>3, LocalMove, Zenon
<1>5. \A i \in Pipe : Inherited(p, i) \in GoodPipe BY InheritedGood
<1>6. pipe' \in [Pipe -> GoodPipe] BY <1>1, <1>5
<1>7. fds' \in [Proc -> [Fd -> Descs \cup {None}]] BY <1>1, Zenon DEF PTypes
<1> QED BY <1>2, <1>4, <1>6, <1>7 DEF PTypes

\* The beginning and the end of an exit keep the types.
LEMMA ExitTypes == ASSUME PTypes, NEW p \in Proc, Exit(p) \/ ExitDone(p) PROVE PTypes'
<1>1. PICK l \in {"exit", "zombie"} : pc' = [pc EXCEPT ![p] = l] BY DEF Exit, ExitDone, Go
<1>2. LocalAt(l, arg[p]) /\ l \in Labels BY <1>1, Zenon DEF LocalAt, InCall, Labels
<1>3. arg' = arg BY DEF Exit, ExitDone
<1>4. /\ pc' \in [Proc -> Labels \cup {None}]
      /\ arg' \in [Proc -> Locals \cup {None}]
      /\ \A x \in Proc : LocalAt(pc'[x], arg'[x])
  BY <1>1, <1>2, <1>3, LocalMove, Zenon
<1>5. state' \in [Proc -> Pipe \cup {None}] /\ waiters' \in [Pipe -> SUBSET Proc]
  BY Zenon DEF Exit, ExitDone, PTypes
<1>6. table' \in Proc \cup {None} BY DEF Exit, ExitDone
<1>7. UNCHANGED <<cores, pipe, mask, fds, out>> BY DEF Exit, ExitDone
<1> QED BY <1>4, <1>5, <1>6, <1>7 DEF PTypes

\* Giving up one end in an exit keeps the types.
LEMMA ExitEndTypes == ASSUME PTypes, NEW p \in Proc, ExitEnd(p) PROVE PTypes'
<1>1. PICK f \in Fd :
         /\ fds[p][f] # None
         /\ LET d == fds[p][f]  q == Dropped(pipe[d.pipe], d.end)
            IN /\ pipe' = [pipe EXCEPT ![d.pipe] = q]
               /\ fds' = [fds EXCEPT ![p][f] = None]
               /\ IF Refs(q, d.end) = 0
                  THEN Go(p, "exit_hangup") /\ With(p, CloseLocal(d))
                  ELSE UNCHANGED <<pc, arg>>
  BY Zenon DEF ExitEnd
<1> DEFINE d == fds[p][f]
           q == Dropped(pipe[d.pipe], d.end)
           b == CloseLocal(d)
<1>2. d \in Descs /\ d.pipe \in Pipe /\ d.end \in Ends BY <1>1, FdType
<1>3. pipe[d.pipe] \in GoodPipe BY <1>2, Zenon DEF PTypes
<1>4. q \in GoodPipe BY <1>2, <1>3, DroppedGood, Zenon
<1>5. pipe' = [pipe EXCEPT ![d.pipe] = q] /\ fds' = [fds EXCEPT ![p][f] = None] BY <1>1
<1>6. pipe' \in [Pipe -> GoodPipe] BY <1>4, <1>5, Zenon DEF PTypes
<1>7. fds' \in [Proc -> [Fd -> Descs \cup {None}]] BY <1>5 DEF PTypes
<1>8. UNCHANGED <<cores, mask, state, waiters, table, out>> BY Zenon DEF ExitEnd
<1>9. /\ pc' \in [Proc -> Labels \cup {None}]
      /\ arg' \in [Proc -> Locals \cup {None}]
      /\ \A x \in Proc : LocalAt(pc'[x], arg'[x])
  <2>1. CASE UNCHANGED <<pc, arg>> BY <2>1 DEF PTypes
  <2>2. CASE pc' = [pc EXCEPT ![p] = "exit_hangup"] /\ arg' = [arg EXCEPT ![p] = b]
    <3>1. b \in Locals /\ LocalAt("exit_hangup", b) BY <1>2, CloseFields
    <3>2. "exit_hangup" \in Labels BY DEF Labels
    <3> HIDE DEF b
    <3> QED BY <2>2, <3>1, <3>2, LocalStep, Zenon
  <2> QED BY <1>1, <2>1, <2>2 DEF Go, With
<1> QED BY <1>6, <1>7, <1>8, <1>9 DEF PTypes

\* The hang-up published in an exit keeps the types.
LEMMA ExitHangUpTypes == ASSUME PTypes, NEW p \in Proc, ExitHangUp(p) PROVE PTypes'
<1> DEFINE a == arg[p]
<1>1. pc[p] = "exit_hangup" BY DEF ExitHangUp, At
<1>2. pc[p] \in Path BY <1>1 DEF Path, Labels
<1>3. a \in Locals /\ (a.next = "read" => a.len \in 1 .. MaxLen) BY <1>2, AtPath DEF LocalAt
<1>4. a.i \in Pipe BY <1>3 DEF Locals
<1>5. LocalAt("exit_token", a) /\ "exit_token" \in Labels BY <1>3, AnyPoint
<1>6. pc' = [pc EXCEPT ![p] = "exit_token"] /\ arg' = arg BY DEF ExitHangUp, Go
<1>7. /\ pc' \in [Proc -> Labels \cup {None}]
      /\ arg' \in [Proc -> Locals \cup {None}]
      /\ \A x \in Proc : LocalAt(pc'[x], arg'[x])
  BY <1>5, <1>6, LocalMove, Zenon
<1>8. mask' \in [Pipe -> SUBSET {"IN", "OUT", "HUP", "ERR"}]
  <2>1. Hangup(a.e) \subseteq {"IN", "OUT", "HUP", "ERR"} BY DEF Hangup
  <2>2. mask \in [Pipe -> SUBSET {"IN", "OUT", "HUP", "ERR"}] BY DEF PTypes
  <2>3. mask' = [mask EXCEPT ![a.i] = @ \cup Hangup(a.e)] BY DEF ExitHangUp
  <2>4. mask[a.i] \cup Hangup(a.e) \in SUBSET {"IN", "OUT", "HUP", "ERR"} BY <1>4, <2>1, <2>2
  <2> QED BY <2>2, <2>3, <2>4, Zenon
<1>9. UNCHANGED <<cores, pipe, fds, state, waiters, table, out>> BY DEF ExitHangUp
<1> QED BY <1>7, <1>8, <1>9, Zenon DEF PTypes

\* A descriptor table with two descriptors set.
LEMMA TableTypes ==
  ASSUME NEW t \in [Fd -> Descs \cup {None}], NEW x \in Descs, NEW y \in Descs, NEW r, NEW w
  PROVE  [[t EXCEPT ![r] = x] EXCEPT ![w] = y] \in [Fd -> Descs \cup {None}]
BY Zenon

\* SysPipe keeps the types.
LEMMA SysPipeTypes == ASSUME PTypes, NEW p \in Proc, SysPipe(p) PROVE PTypes'
<1> DEFINE t == fds[p]
           New == [EmptyPipe EXCEPT !.active = TRUE, !.readers = 1, !.writers = 1]
<1>1. PICK i \in Pipe :
         /\ pipe' = [pipe EXCEPT ![i] = New]
         /\ fds' = [fds EXCEPT ![p] =
              IF Cardinality({f \in Fd : t[f] = None}) < 2 THEN t
              ELSE LET r == CHOOSE f \in FreeFd(t) : TRUE
                       u == [t EXCEPT ![r] = Desc(i, "r")]
                       w == CHOOSE f \in FreeFd(u) : TRUE
                   IN [u EXCEPT ![w] = Desc(i, "w")]]
  BY Zenon DEF SysPipe
<1>2. New \in GoodPipe BY NewGood, Zenon
<1> HIDE DEF New
<1>3. pipe' \in [Pipe -> GoodPipe] BY <1>1, <1>2 DEF PTypes
<1> DEFINE r == CHOOSE f \in FreeFd(t) : TRUE
           u == [t EXCEPT ![r] = Desc(i, "r")]
           w == CHOOSE f \in FreeFd(u) : TRUE
           v == [u EXCEPT ![w] = Desc(i, "w")]
<1>4. t \in [Fd -> Descs \cup {None}] BY DEF PTypes
<1>5. Desc(i, "r") \in Descs /\ Desc(i, "w") \in Descs BY DEF Desc, Descs, Ends
<1>6. v \in [Fd -> Descs \cup {None}] BY <1>4, <1>5, TableTypes, Zenon
<1>7. fds' = [fds EXCEPT ![p] = IF Cardinality({f \in Fd : t[f] = None}) < 2 THEN t ELSE v]
  BY <1>1
<1> HIDE DEF v, u
<1>8. fds' \in [Proc -> [Fd -> Descs \cup {None}]] BY <1>4, <1>6, <1>7 DEF PTypes
<1>9. UNCHANGED <<cores, mask, pc, arg, state, waiters, table, out>> BY DEF SysPipe
<1> QED BY <1>3, <1>8, <1>9 DEF PTypes

-----------------------------------------------------------------------------
\* The initial state has the types.
LEMMA InitTypes == Init => PTypes
<1> SUFFICES ASSUME Init PROVE PTypes OBVIOUS
<1>1. cores \in Nat BY PipesAssumption DEF Init
<1>2. pipe \in [Pipe -> GoodPipe] BY EmptyGood DEF Init
<1>3. pc \in [Proc -> Labels \cup {None}] /\ \A p \in Proc : ~InCall(pc[p])
  BY DEF Init, Labels, InCall
<1>4. \A p \in Proc : LocalAt(pc[p], arg[p]) BY <1>3 DEF LocalAt
<1>5. /\ mask \in [Pipe -> SUBSET {"IN", "OUT", "HUP", "ERR"}]
      /\ fds \in [Proc -> [Fd -> Descs \cup {None}]]
      /\ arg \in [Proc -> Locals \cup {None}]
      /\ state \in [Proc -> Pipe \cup {None}]
      /\ waiters \in [Pipe -> SUBSET Proc]
      /\ table \in Proc \cup {None} /\ out \in Seq(Byte)
  BY DEF Init
<1> QED BY <1>1, <1>2, <1>3, <1>4, <1>5 DEF PTypes

\* Every step keeps the types.
LEMMA NextTypes == ASSUME PTypes, [Next]_vars PROVE PTypes'
<1>1. CASE UNCHANGED vars BY <1>1 DEF vars, PTypes
<1>2. ASSUME NEW p \in Proc, Calls(p) PROVE PTypes'
  BY <1>2, SysPipeTypes, StartTypes, CloseTypes, Dup2Types, ExitTypes, DupTypes, SpawnTypes, Zenon
     DEF Calls
<1>3. ASSUME NEW p \in Proc, Steps(p) PROVE PTypes'
  BY <1>3, PublishTypes, WakeTypes, ReaderTypes, PipeWriteTypes, PipeReadTypes, CloseEndTypes,
     Dup2SetTypes, ExitEndTypes, ExitHangUpTypes, ExitTypes
     DEF Steps
<1> QED BY <1>1, <1>2, <1>3, Zenon DEF Next

\* The state of the pipes keeps its types, on any number of cores: above all, a slot is in use
\* exactly while one of its ends is counted (pipe.rs: pipe_close_reader, pipe_close_writer).
THEOREM PipeTypesOK == Spec => []PTypes
<1>1. PTypes /\ [Next]_vars => PTypes' BY NextTypes
<1> QED BY <1>1, InitTypes, PTL DEF Spec

\* One end of pipe j is given up, or one more is counted.
Drops(j, x) == pipe' = [pipe EXCEPT ![j] = Dropped(pipe[j], x)]
Adds(j, x) == pipe' = [pipe EXCEPT ![j] = Added(pipe[j], x)]

-----------------------------------------------------------------------------
(***************************************************************************)
(* A pipe is a bounded queue.                                              *)
(***************************************************************************)
View == <<InUse, Held, out>>

\* The queue of pipe i after a step that replaces that pipe alone.
LEMMA HeldStep ==
  ASSUME PTypes, NEW i \in Pipe, NEW q, pipe' = [pipe EXCEPT ![i] = q]
  PROVE  /\ Held' = [Held EXCEPT ![i] = Contents(q)]
         /\ (q.active <=> pipe[i].active) => InUse' = InUse
         /\ q.active => InUse' = InUse \cup {i}
         /\ ~q.active => InUse' = InUse \ {i}
         /\ Held[i] = Contents(pipe[i])
<1>1. pipe \in [Pipe -> GoodPipe] BY DEF PTypes
<1>2. pipe'[i] = q /\ \A j \in Pipe \ {i} : pipe'[j] = pipe[j] BY <1>1
<1>3. Held' = [j \in Pipe |-> Contents(pipe'[j])] BY DEF Held, Contents, available_read
<1>4. Held' = [Held EXCEPT ![i] = Contents(q)]
  <2> DEFINE H == [Held EXCEPT ![i] = Contents(q)]
  <2>0. Held = [j \in Pipe |-> Contents(pipe[j])] BY DEF Held
  <2>1. ASSUME NEW j \in Pipe PROVE Contents(pipe'[j]) = H[j]
    <3>1. CASE j = i BY <1>2, <2>0, <3>1
    <3>2. CASE j # i
      <4>1. H[j] = Held[j] BY <2>0, <3>2
      <4>2. pipe'[j] = pipe[j] BY <1>2, <3>2
      <4> QED BY <2>0, <4>1, <4>2
    <3> QED BY <3>1, <3>2
  <2>2. H = [j \in Pipe |-> H[j]] BY Zenon DEF Held
  <2> QED BY <1>3, <2>1, <2>2, Zenon
<1>5. InUse' = {j \in Pipe : pipe'[j].active} BY DEF InUse
<1>6. (q.active <=> pipe[i].active) => InUse' = InUse BY <1>2, <1>5, Zenon DEF InUse
<1>7. q.active => InUse' = InUse \cup {i} BY <1>2, <1>5, Zenon DEF InUse
<1>8. ~q.active => InUse' = InUse \ {i} BY <1>2, <1>5, Zenon DEF InUse
<1> QED BY <1>4, <1>6, <1>7, <1>8 DEF Held

\* A step that leaves the rings alone is a stutter of the queue.
LEMMA ViewKept == ASSUME UNCHANGED <<pipe, out>> PROVE UNCHANGED View
BY DEF View, InUse, Held, Contents, available_read

\* A pipe whose bytes are kept: a stutter, or the release of the slot.
LEMMA SameBytes ==
  ASSUME PTypes, NEW i \in Pipe, NEW q, pipe' = [pipe EXCEPT ![i] = q], out' = out,
         Contents(q) = Contents(pipe[i]), q.active => pipe[i].active
  PROVE  Queue!Next \/ UNCHANGED View
<1>1. Held' = Held BY HeldStep DEF Held
<1>2. CASE q.active <=> pipe[i].active
  <2>1. InUse' = InUse BY <1>2, HeldStep, Zenon
  <2> QED BY <1>1, <2>1 DEF View
<1>3. CASE ~q.active /\ pipe[i].active
  <2>1. InUse' = InUse \ {i} /\ i \in InUse BY <1>3, HeldStep, Zenon DEF InUse
  <2>2. Queue!Release(i) BY <1>1, <2>1 DEF Queue!Release
  <2> QED BY <2>2 DEF Queue!Next
<1> QED BY <1>2, <1>3

\* A write appends to the queue as many bytes as there is room for.
LEMMA PutStep ==
  ASSUME PTypes, NEW p \in Proc, PipeWrite(p)
  PROVE  Queue!Next \/ UNCHANGED View
<1> DEFINE a == arg[p]
           i == a.i
           d == a.data
           q == write(pipe[i], d)
<1>1. pc[p] = "pipe_write" /\ pc[p] \in Path BY DEF PipeWrite, At, Path, Labels
<1>2. a \in Locals /\ LocalAt("pipe_write", a) /\ InCall("pipe_write") BY <1>1, AtPath, Zenon
<1>3. i \in Pipe /\ d \in Datum BY <1>2 DEF Locals, LocalAt
<1>4. d \in Seq(Byte) BY <1>3, DatumSeq
<1>5. pipe[i] \in GoodPipe BY <1>3 DEF PTypes
<1>6. CASE ~pipe[i].active
  <2>1. UNCHANGED <<pipe, out>> BY <1>6 DEF PipeWrite
  <2> QED BY <2>1, ViewKept
<1>7. CASE pipe[i].active
  <2>1. pipe' = [pipe EXCEPT ![i] = q] /\ out' = out BY <1>7, Zenon DEF PipeWrite
  <2>2. q.active <=> pipe[i].active BY <1>4, <1>5, WriteGood
  <2>3. Contents(q) = Contents(pipe[i])
                        \o SubSeq(d, 1, Smaller(Len(d), SIZE - 1 - Len(Contents(pipe[i]))))
    BY <1>4, <1>5, WriteAppends, Zenon DEF GoodPipe
  <2> HIDE DEF q
  <2>4. /\ Held' = [Held EXCEPT ![i] = Contents(q)] /\ InUse' = InUse
        /\ Held[i] = Contents(pipe[i])
    BY <1>3, <2>1, <2>2, HeldStep, Zenon
  <2>5. i \in InUse BY <1>3, <1>7 DEF InUse
  <2>6. Held' = [Held EXCEPT ![i] =
           @ \o SubSeq(d, 1, Queue!Smaller(Len(d), SIZE - 1 - Len(@)))]
    BY <2>3, <2>4, Zenon DEF Smaller, Queue!Smaller
  <2> HIDE DEF i, d
  <2>7. Queue!Put(i, d) BY <2>1, <2>4, <2>5, <2>6, Zenon DEF Queue!Put
  <2> QED BY <1>3, <2>7 DEF Queue!Next
<1> QED BY <1>6, <1>7

\* A read takes bytes from the front of the queue.
LEMMA TakeStep ==
  ASSUME PTypes, NEW p \in Proc, PipeRead(p)
  PROVE  Queue!Next \/ UNCHANGED View
<1> DEFINE a == arg[p]
           i == a.i
           n == a.len
           q == read(pipe[i], n).pipe
           d == read(pipe[i], n).bytes
           c == Contents(pipe[i])
<1>1. pc[p] = "pipe_read" /\ pc[p] \in Path BY DEF PipeRead, At, Path, Labels
<1>2. a \in Locals /\ LocalAt("pipe_read", a) /\ InCall("pipe_read") BY <1>1, AtPath, Zenon
<1>3. i \in Pipe /\ n \in 1 .. MaxLen /\ n \in Nat BY <1>2 DEF Locals, LocalAt
<1>5. pipe[i] \in GoodPipe BY <1>3 DEF PTypes
<1>6. CASE ~pipe[i].active
  <2>1. UNCHANGED <<pipe, out>> BY <1>6 DEF PipeRead
  <2> QED BY <2>1, ViewKept
<1>7. CASE pipe[i].active
  <2>1. pipe' = [pipe EXCEPT ![i] = q] /\ out' = d BY <1>7 DEF PipeRead
  <2>2. q.active <=> pipe[i].active BY <1>3, <1>5, ReadGood, Zenon
  <2>3. /\ d = SubSeq(c, 1, Smaller(n, Len(c)))
        /\ Contents(q) = SubSeq(c, Smaller(n, Len(c)) + 1, Len(c))
    BY <1>3, <1>5, ReadTakes, Zenon DEF GoodPipe
  <2> HIDE DEF q, d
  <2>4. /\ Held' = [Held EXCEPT ![i] = Contents(q)] /\ InUse' = InUse /\ Held[i] = c
    BY <1>3, <2>1, <2>2, HeldStep, Zenon
  <2>5. i \in InUse BY <1>3, <1>7, Zenon DEF InUse
  <2>6. Queue!Smaller(n, Len(Held[i])) = Smaller(n, Len(c)) BY <2>4 DEF Smaller, Queue!Smaller
  <2> HIDE DEF i, n, c
  <2>7. Queue!Take(i, n) BY <2>1, <2>3, <2>4, <2>5, <2>6 DEF Queue!Take
  <2> QED BY <1>3, <2>7, Zenon DEF Queue!Next
<1> QED BY <1>6, <1>7

\* A slot nobody uses, and a new pipe, hold no bytes.
LEMMA EmptyContents ==
  Contents(EmptyPipe) = <<>>
  /\ Contents([EmptyPipe EXCEPT !.active = TRUE, !.readers = 1, !.writers = 1]) = <<>>
<1>1. SIZE \in Nat /\ SIZE > 1 BY PipesAssumption
<1> DEFINE n == [EmptyPipe EXCEPT !.active = TRUE, !.readers = 1, !.writers = 1]
<1>2. EmptyPipe \in PipeRec /\ EmptyPipe.head = 0 /\ EmptyPipe.tail = 0
  BY EmptyGood DEF GoodPipe, EmptyPipe
<1>3. n \in PipeRec BY NewGood DEF GoodPipe
<1>4. n.head = 0 /\ n.tail = 0 BY <1>2 DEF PipeRec
<1> HIDE DEF n
<1>5. available_read(EmptyPipe) = 0 /\ available_read(n) = 0
  BY <1>1, <1>2, <1>4, AvailRange DEF Gap
<1>6. /\ Contents(EmptyPipe) \in Seq(Byte) /\ Len(Contents(EmptyPipe)) = 0
      /\ Contents(n) \in Seq(Byte) /\ Len(Contents(n)) = 0
  BY <1>2, <1>3, <1>5, ContentsSeq
<1>7. Contents(EmptyPipe) = <<>> /\ Contents(n) = <<>> BY <1>6
<1> QED BY <1>7, Zenon DEF n

\* SysPipe opens an empty queue.
LEMMA CreateStep ==
  ASSUME PTypes, NEW p \in Proc, SysPipe(p)
  PROVE  Queue!Next
<1> DEFINE New == [EmptyPipe EXCEPT !.active = TRUE, !.readers = 1, !.writers = 1]
<1>1. PICK i \in Pipe : ~pipe[i].active /\ pipe' = [pipe EXCEPT ![i] = New] BY Zenon DEF SysPipe
<1>2. Contents(New) = <<>> BY EmptyContents
<1>3. New.active BY EmptyGood DEF GoodPipe, PipeRec
<1> HIDE DEF New
<1>4. Held' = [Held EXCEPT ![i] = <<>>] /\ InUse' = InUse \cup {i}
  <2>1. Held' = [Held EXCEPT ![i] = Contents(New)] BY <1>1, HeldStep, Zenon
  <2>2. InUse' = InUse \cup {i} BY <1>1, <1>3, HeldStep, Zenon
  <2> QED BY <1>2, <2>1, <2>2
<1>5. i \notin InUse /\ out' = out BY <1>1 DEF InUse, SysPipe
<1>6. Queue!Create(i) BY <1>4, <1>5 DEF Queue!Create
<1> QED BY <1>6 DEF Queue!Next

\* A step that changes pipes only in their counters.
LEMMA CountsStep ==
  ASSUME PTypes, PTypes', out' = out,
         \A i \in Pipe : /\ Contents(pipe'[i]) = Contents(pipe[i])
                         /\ pipe'[i].active <=> pipe[i].active
  PROVE  UNCHANGED View
<1>1. Held' = [i \in Pipe |-> Contents(pipe'[i])] BY DEF Held, Contents, available_read
<1>2. Held' = Held BY <1>1 DEF Held
<1>3. InUse' = InUse BY Zenon DEF InUse
<1> QED BY <1>2, <1>3, Zenon DEF View

\* Giving up one end keeps the bytes, and frees the slot with the last end.
LEMMA DropStep ==
  ASSUME PTypes, NEW d \in Descs, out' = out,
         pipe' = [pipe EXCEPT ![d.pipe] = Dropped(pipe[d.pipe], d.end)]
  PROVE  Queue!Next \/ UNCHANGED View
<1> DEFINE i == d.pipe
           q == Dropped(pipe[i], d.end)
<1>1. i \in Pipe /\ d.end \in Ends BY DEF Descs
<1>2. pipe[i] \in GoodPipe BY <1>1, Zenon DEF PTypes
<1>3. Contents(q) = Contents(pipe[i]) /\ (q.active => pipe[i].active)
  BY <1>1, <1>2, DroppedGood
<1> HIDE DEF q
<1>4. pipe' = [pipe EXCEPT ![i] = q] BY DEF q
<1> HIDE DEF i
<1> QED BY <1>1, <1>3, <1>4, SameBytes, Zenon

\* Setting a descriptor leaves the bytes alone.
LEMMA DupSetStep ==
  ASSUME PTypes, NEW p \in Proc, NEW s \in Descs, NEW new, DupSet(p, s, new), out' = out
  PROVE  Queue!Next \/ UNCHANGED View
<1> DEFINE i == s.pipe
           q == Added(pipe[i], s.end)
<1>1. i \in Pipe /\ s.end \in Ends BY DEF Descs
<1>2. pipe[i] \in GoodPipe BY <1>1, Zenon DEF PTypes
<1>3. Contents(q) = Contents(pipe[i]) /\ q.active = pipe[i].active
  BY <1>1, <1>2, AddedGood
<1>4. q.active => pipe[i].active BY <1>3, Zenon
<1>5. pipe' = [pipe EXCEPT ![i] = q] BY DEF DupSet
<1> HIDE DEF q, i
<1> QED BY <1>1, <1>3, <1>4, <1>5, SameBytes, Zenon

\* Giving up an end leaves the bytes alone, or closes the queue.
LEMMA CloseEndStep ==
  ASSUME PTypes, NEW p \in Proc, CloseEnd(p)
  PROVE  Queue!Next \/ UNCHANGED View
<1> DEFINE d == Desc(arg[p].i, arg[p].e)
<1>1. pc[p] \in Path BY DEF CloseEnd, At, Path, Labels
<1>2. arg[p] \in Locals BY <1>1, AtPath
<1>3. d \in Descs /\ d.pipe = arg[p].i /\ d.end = arg[p].e BY <1>2, Zenon DEF Locals, Descs, Desc
<1>4. pipe' = [pipe EXCEPT ![d.pipe] = Dropped(pipe[d.pipe], d.end)] /\ out' = out
  BY <1>3, Zenon DEF CloseEnd
<1> QED BY <1>3, <1>4, DropStep, Zenon

\* So does the second half of dup2.
LEMMA Dup2SetStep ==
  ASSUME PTypes, NEW p \in Proc, Dup2Set(p)
  PROVE  Queue!Next \/ UNCHANGED View
<1>1. arg[p].dup[1] \in Descs BY DupPending DEF Dup2Set
<1> QED BY <1>1, DupSetStep DEF Dup2Set

\* So does an exit that gives up one end.
LEMMA ExitEndStep ==
  ASSUME PTypes, NEW p \in Proc, ExitEnd(p)
  PROVE  Queue!Next \/ UNCHANGED View
<1>1. PICK f \in Fd :
         /\ fds[p][f] # None
         /\ pipe' = [pipe EXCEPT ![fds[p][f].pipe] = Dropped(pipe[fds[p][f].pipe], fds[p][f].end)]
  BY Zenon DEF ExitEnd
<1>2. fds[p][f] \in Descs BY <1>1, FdType, Zenon
<1>3. out' = out BY DEF ExitEnd
<1> QED BY <1>1, <1>2, <1>3, DropStep, Zenon

\* A spawn leaves the bytes alone.
LEMMA SpawnStep ==
  ASSUME PTypes, PTypes', NEW p \in Proc, Spawn(p)
  PROVE  UNCHANGED View
<1>1. pipe' = [i \in Pipe |-> Inherited(p, i)] /\ out' = out BY DEF Spawn, Inherited
<1>2. ASSUME NEW i \in Pipe
      PROVE  Contents(pipe'[i]) = Contents(pipe[i]) /\ (pipe'[i].active <=> pipe[i].active)
  <2>1. pipe'[i] = Inherited(p, i) BY <1>1, Zenon
  <2>2. Contents(Inherited(p, i)) = Contents(pipe[i]) BY InheritedGood, Zenon
  <2>3. Inherited(p, i).active = pipe[i].active BY InheritedGood
  <2> QED BY <2>1, <2>2, <2>3, Zenon
<1> QED BY <1>1, <1>2, CountsStep

\* Every step of the pipes is a step of the queue, or leaves the queue as it is.
LEMMA QueueStep ==
  ASSUME PTypes, [Next]_vars
  PROVE  Queue!Next \/ UNCHANGED View
<1>0. PTypes' BY NextTypes
<1>t. /\ pipe \in [Pipe -> GoodPipe] /\ fds \in [Proc -> [Fd -> Descs \cup {None}]]
      /\ arg \in [Proc -> Locals \cup {None}]
  BY DEF PTypes
<1>1. CASE UNCHANGED vars BY <1>1, ViewKept DEF vars
<1>2. ASSUME NEW p \in Proc, Calls(p) PROVE Queue!Next \/ UNCHANGED View
  <2>1. CASE SysPipe(p) BY <2>1, CreateStep
  <2>2. CASE Write(p) \/ Read(p) \/ Close(p) \/ Exit(p) \/ Dup(p)
    <3>1. UNCHANGED <<pipe, out>> BY <2>2 DEF Write, Read, Close, Exit, Dup
    <3> QED BY <3>1, ViewKept, Zenon
  <2>3. CASE Dup2(p)
    <3>1. CASE UNCHANGED pipe BY <2>3, <3>1, ViewKept DEF Dup2
    <3>2. CASE \E old, new \in Fd : fds[p][old] # None /\ DupSet(p, fds[p][old], new)
      <4>1. PICK old, new \in Fd : fds[p][old] # None /\ DupSet(p, fds[p][old], new) BY <3>2
      <4> DEFINE s == fds[p][old]
      <4>2. s \in Descs BY <1>t, <4>1
      <4> QED BY <2>3, <4>1, <4>2, DupSetStep DEF Dup2
    <3> QED BY <2>3, <3>1, <3>2 DEF Dup2
  <2>4. CASE Spawn(p) BY <1>0, <2>4, SpawnStep, Zenon
  <2> QED BY <1>2, <2>1, <2>2, <2>3, <2>4 DEF Calls
<1>3. ASSUME NEW p \in Proc, Steps(p) PROVE Queue!Next \/ UNCHANGED View
  <2>1. CASE PipeWrite(p) BY <2>1, PutStep
  <2>2. CASE PipeRead(p) BY <2>2, TakeStep, Zenon
  <2>3. CASE PublishIn(p) \/ PublishOut(p) \/ WakeToken(p) \/ WakeLook(p) \/ WakeSweep(p)
             \/ NoBytes(p) \/ ReturnEof(p) \/ MarkWaiter(p) \/ Block(p) \/ Resume(p) \/ HangUp(p)
             \/ CloseDone(p) \/ ExitHangUp(p) \/ ExitDone(p)
    <3>1. UNCHANGED <<pipe, out>>
      BY <2>3, Zenon DEF PublishIn, PublishOut, WakeToken, WakeLook, WakeSweep, NoBytes, ReturnEof,
                  MarkWaiter, Block, Resume, HangUp, CloseDone, ExitHangUp, ExitDone
    <3> QED BY <3>1, ViewKept, Zenon
  <2>4. CASE CloseEnd(p) BY <2>4, CloseEndStep
  <2>5. CASE Dup2Set(p) BY <2>5, Dup2SetStep
  <2>6. CASE ExitEnd(p) BY <2>6, ExitEndStep
  <2> QED BY <1>3, <2>1, <2>2, <2>3, <2>4, <2>5, <2>6 DEF Steps
<1> QED BY <1>1, <1>2, <1>3 DEF Next

\* Pipes are bounded queues of bytes (pipe.rs: Pipe::write stores what fits, Pipe::read gives
\* what there is, in order), whatever the processes on any number of cores do with them.
THEOREM PipesAreQueues == Spec => PipeIsQueue
<1>1. Init => Queue!Init
  <2> SUFFICES ASSUME Init PROVE Queue!Init OBVIOUS
  <2>1. pipe = [i \in Pipe |-> EmptyPipe] /\ out = <<>> BY DEF Init
  <2>2. \A i \in Pipe : Contents(pipe[i]) = <<>> BY <2>1, EmptyContents
  <2>3. Held = [i \in Pipe |-> <<>>] BY <2>2 DEF Held
  <2>4. \A i \in Pipe : ~pipe[i].active BY <2>1 DEF EmptyPipe
  <2>5. InUse = {} BY <2>4 DEF InUse
  <2> QED BY <2>1, <2>3, <2>5 DEF Queue!Init
<1>2. PTypes /\ [Next]_vars => [Queue!Next]_<<InUse, Held, out>> BY QueueStep DEF View
<1> QED BY <1>1, <1>2, PipeTypesOK, PTL DEF Spec, PipeIsQueue, Queue!Spec
=============================================================================
