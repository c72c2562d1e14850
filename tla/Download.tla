------------------------------ MODULE Download ------------------------------
(* The image download of morpheus-net-stack (mainloop/): one loop steps a state
   machine Init -> GptPrep -> LinkWait -> DHCP -> DNS -> Connect -> HTTP ->
   Manifest -> Done, over smoltcp, and streams the body through the static write
   buffer of disk_writer.rs to a VirtIO block device. A byte of the body is its
   index in the body, 0 is padding and Old is what the disk held before. One
   step of the loop is one action; the clock, the server and the device move
   between steps. A request whose wait timed out stays with the device. *)
EXTENDS Integers, Sequences, FiniteSets

CONSTANTS SECTOR, BUFFER_SIZE, RECV, HeaderBuf, MAX_IN_FLIGHT,
          Partitions, FirstUsable, LastUsable, ALIGN, Needed, Targets, Responses,
          LINK_TIMEOUT, STABILIZE, DHCP, DNS, TCP_CONNECT, HTTP_IDLE, MaxFaults

VARIABLES
    st,      \* current_state
    ready,   \* validated, completed, link_established, got_ip, query_handle, connect_started
    age,     \* ticks since the state's clock was started (or last saw activity), -1 before
    ctx,     \* Context: the request, actual_start_sector, what was resolved, the counters
    net,     \* smoltcp and the server: link, address slot, TCP state, bytes received and read
    http,    \* HttpState: phase, content_length, bytes_received
    w,       \* disk_writer.rs: WRITE_BUFFER, BUFFER_FILL, NEXT_SECTOR, TOTAL_WRITTEN
    inflight,\* requests the device still has, or has completed and nobody polled
    disk,    \* sectors
    gpt,     \* which of the four GPT structures hold the new partition
    mani,    \* the manifest on disk: <<first, end, size>>, or <<>>
    faults   \* history: disk requests that failed or timed out

vars == <<st, ready, age, ctx, net, http, w, inflight, disk, gpt, mani, faults>>

Old == -1

Terminal == {"Done", "Failed"}

Lesser(a, b) == IF a < b THEN a ELSE b

CeilDiv(a, b) == (a + b - 1) \div b

\* total_sectors of the device: the backup table lies behind the usable sectors.
TotalSectors == LastUsable + 5

Sectors == 0 .. TotalSectors - 1

\* Context::new: the state before the first step, for every request and every answer of a server.
Init ==
    /\ st = "Init" /\ ready = FALSE /\ age = -1
    /\ \E write, blk, named \in BOOLEAN, mode \in {"skip", "store"}, t \in Targets :
         ctx = [write |-> write, blk |-> blk, named |-> named, mode |-> mode, target |-> t,
                start |-> t, dns |-> FALSE, ip |-> FALSE, downloaded |-> 0, written |-> 0]
    /\ \E slot \in BOOLEAN, r \in Responses :
         net = [link |-> FALSE, slot |-> slot, addr |-> FALSE, tcp |-> "Closed",
                got |-> 0, read |-> 0, resp |-> r]
    /\ http = [phase |-> "SendRequest", clen |-> Old, received |-> 0]
    /\ w = [buf |-> [i \in 1 .. BUFFER_SIZE |-> 0], fill |-> 0, next |-> 0, total |-> 0]
    /\ inflight = {}
    /\ disk = [s \in Sectors |-> [i \in 1 .. SECTOR |-> Old]]
    /\ gpt = {} /\ mani = <<>> /\ faults = 0

\* A state starts its clock in its first step.
Started == IF age = -1 THEN 0 ELSE age

Quiet == UNCHANGED <<http, w, inflight, disk, gpt, mani, faults>>

Continue(r) == st' = st /\ ready' = r /\ age' = Started

Transition(s) == st' = s /\ ready' = FALSE /\ age' = -1

Fail == Transition("Failed")

\* InitState: the URL is taken apart in the first step, the second one moves on. A bad scheme fails.
InitStep ==
    /\ st = "Init"
    /\ \/ ready /\ Transition("GptPrep")
       \/ ~ready /\ (Continue(TRUE) \/ Fail)
    /\ Quiet /\ UNCHANGED <<ctx, net>>

-----------------------------------------------------------------------------
(* GptPrep: claim the range of the image, elsewhere when it overlaps. *)

Overlaps(s, e) == \E p \in Partitions : s <= p[2] /\ p[1] <= e

\* Mutant: only the first sector of the range is looked up.
verify_range_freeFirst(s, e) == ~Overlaps(s, s) /\ s >= FirstUsable /\ e <= LastUsable

verify_range_free(s, e) == ~Overlaps(s, e) /\ s >= FirstUsable /\ e <= LastUsable

\* The free ranges find_free_space looks at: before, between and behind the partitions.
Gaps ==
    LET Edge == {p[1] : p \in Partitions} \cup {LastUsable + 1}
        From == {p[2] + 1 : p \in Partitions} \cup {FirstUsable}
        least(x) == IF x[1] = FirstUsable \/ x[2] = LastUsable + 1 THEN 1 ELSE 2
    IN {<<x[1], x[2] - 1>> : x \in {y \in From \X Edge :
            y[2] - y[1] >= least(y) /\ ~Overlaps(y[1], y[2] - 1)}}

\* The largest of them, the first one of several.
find_free_space ==
    CHOOSE g \in Gaps : \A h \in Gaps : \/ g[2] - g[1] > h[2] - h[1]
                                        \/ g[2] - g[1] = h[2] - h[1] /\ g[1] <= h[1]

\* verify_or_find_space: the first sector of the range to use, or none.
Claimed ==
    IF verify_range_free(ctx.target, ctx.target + Needed - 1) THEN {ctx.target}
    ELSE IF Gaps # {} /\ find_free_space[2] - find_free_space[1] + 1 >= Needed
         THEN {CeilDiv(find_free_space[1], ALIGN) * ALIGN}
         ELSE {}

\* write_gpt_both writes the primary copy before it touches the backup.
GptWrites == <<"primary header", "primary array", "backup header", "backup array">>

\* create_partition refuses a range outside the usable area; a failed write leaves a prefix.
CreatePartition(s) ==
    {{GptWrites[i] : i \in 1 .. n} :
        n \in IF s >= FirstUsable /\ s + Needed - 1 <= LastUsable /\ Needed > 1 THEN 0 .. 4 ELSE {0}}

GptStep ==
    /\ st = "GptPrep"
    /\ \/ ready /\ Transition("LinkWait") /\ UNCHANGED <<ctx, gpt>>
       \/ ~ready /\ ~(ctx.write /\ ctx.blk) /\ Continue(TRUE) /\ UNCHANGED <<ctx, gpt>>
       \/ ~ready /\ ctx.write /\ ctx.blk /\ Fail /\ UNCHANGED <<ctx, gpt>>
       \/ /\ ~ready /\ ctx.write /\ ctx.blk
          /\ \E s \in Claimed : ctx' = [ctx EXCEPT !.start = s] /\ gpt' \in CreatePartition(s)
          /\ Continue(TRUE)
    /\ UNCHANGED <<net, http, w, inflight, disk, mani, faults>>

-----------------------------------------------------------------------------
(* The network states. What smoltcp and the network answer is open. *)

\* LinkWaitState: a link must hold for STABILIZE; without one the machine goes on after the timeout.
LinkStep ==
    /\ st = "LinkWait"
    /\ \/ ready /\ Started >= STABILIZE /\ Transition("Dhcp")
       \/ ready /\ Started < STABILIZE /\ Continue(TRUE)
       \/ ~ready /\ net.link /\ st' = st /\ ready' = TRUE /\ age' = 0
       \/ ~ready /\ ~net.link /\ Started >= LINK_TIMEOUT /\ Transition("Dhcp")
       \/ ~ready /\ ~net.link /\ Started < LINK_TIMEOUT /\ Continue(FALSE)
    /\ Quiet /\ UNCHANGED <<ctx, net>>

\* DhcpState: a lease fills the address slot the interface has, and brings a name server or not.
DhcpStep ==
    /\ st = "Dhcp"
    /\ \/ Started > DHCP /\ Fail /\ UNCHANGED <<ctx, net>>
       \/ Started <= DHCP /\ ready /\ Transition("Dns") /\ UNCHANGED <<ctx, net>>
       \/ Started <= DHCP /\ ~ready /\ Continue(FALSE) /\ UNCHANGED <<ctx, net>>
       \/ /\ Started <= DHCP /\ ~ready /\ Continue(TRUE)
          /\ net' = [net EXCEPT !.addr = net.slot]
          /\ \E d \in BOOLEAN : ctx' = [ctx EXCEPT !.dns = d]
    /\ Quiet

\* DnsState: a host that is an address needs no query; otherwise one query, which may fail or stay pending.
DnsStep ==
    /\ st = "Dns"
    /\ \/ Started > DNS /\ Fail /\ UNCHANGED ctx
       \/ Started <= DNS /\ ~ctx.named /\ Transition("Connect") /\ ctx' = [ctx EXCEPT !.ip = TRUE]
       \/ Started <= DNS /\ ctx.named /\ Fail /\ UNCHANGED ctx
       \/ Started <= DNS /\ ctx.named /\ ctx.dns /\ Continue(TRUE) /\ UNCHANGED ctx
       \/ /\ Started <= DNS /\ ctx.named /\ ctx.dns /\ ready /\ net.addr
          /\ Transition("Connect") /\ ctx' = [ctx EXCEPT !.ip = TRUE]
    /\ Quiet /\ UNCHANGED net

\* DiskWriter::new at the sector of the request.
NewWriter == [w EXCEPT !.fill = 0, !.next = ctx.target, !.total = 0]

\* ConnectState: smoltcp refuses to connect without an address; the HTTP state starts on Established.
ConnectStep ==
    /\ st = "Connect"
    /\ \/ Started > TCP_CONNECT /\ Fail /\ UNCHANGED <<net, w, http>>
       \/ Started <= TCP_CONNECT /\ ~ready /\ Fail /\ UNCHANGED <<net, w, http>>
       \/ /\ Started <= TCP_CONNECT /\ ~ready /\ net.addr
          /\ Continue(TRUE) /\ net' = [net EXCEPT !.tcp = "SynSent"] /\ UNCHANGED <<w, http>>
       \/ /\ Started <= TCP_CONNECT /\ ready /\ net.tcp = "Established"
          /\ Transition("Http") /\ w' = NewWriter /\ UNCHANGED <<net, http>>
       \/ /\ Started <= TCP_CONNECT /\ ready /\ net.tcp = "Closed"
          /\ Fail /\ UNCHANGED <<net, w, http>>
       \/ /\ Started <= TCP_CONNECT /\ ready /\ net.tcp \in {"SynSent", "CloseWait"}
          /\ Continue(TRUE) /\ UNCHANGED <<net, w, http>>
    /\ UNCHANGED <<ctx, inflight, disk, gpt, mani, faults>>

-----------------------------------------------------------------------------
(* disk_writer.rs over the VirtIO block driver. An outcome is a record of the
   writer, the requests, the disk and the faults counted. *)

\* n sectors of the buffer, at first.
Stored(d, first, n, buf) ==
    [s \in DOMAIN d |-> IF s \in first .. first + n - 1
                        THEN [i \in 1 .. SECTOR |-> buf[(s - first) * SECTOR + i]] ELSE d[s]]

\* The buffer was written and is empty again; its bytes are counted, not its sectors.
Flushed(o, n) ==
    [o EXCEPT !.disk = Stored(@, o.w.next, n, o.w.buf), !.ok = TRUE,
              !.w = [@ EXCEPT !.fill = 0, !.next = @ + n, !.total = @ + o.w.fill]]

\* flush_buffer: drain completions, submit, wait. It succeeds, or it fails and the buffer stays:
\* the queue is full, the request is refused or reports an error, or the wait times out.
flush_buffer(o) ==
    LET n == CeilDiv(o.w.fill, SECTOR)
        waiting == {r \in o.inflight : ~r.done}
        polled == [o EXCEPT !.inflight = waiting]
        failed == [polled EXCEPT !.ok = FALSE, !.faults = @ + 1]
        late == [sector |-> o.w.next, n |-> n, id |-> o.faults, done |-> FALSE]
    IN IF Cardinality(waiting) = MAX_IN_FLIGHT \/ o.w.next + n > TotalSectors THEN {failed}
       ELSE IF o.faults >= MaxFaults THEN {Flushed(polled, n)}
       ELSE {Flushed(polled, n), failed, [failed EXCEPT !.inflight = @ \cup {late}]}

\* buffer_write: fill the buffer, flush it when it is full, and drop the rest when that fails.
RECURSIVE buffer_write(_, _)
buffer_write(o, data) ==
    IF data = <<>> THEN {o}
    ELSE LET k == Lesser(Len(data), BUFFER_SIZE - o.w.fill)
             filled == [o EXCEPT !.consumed = @ + k,
                                 !.w = [@ EXCEPT !.fill = @ + k,
                                        !.buf = [i \in 1 .. BUFFER_SIZE |->
                                            IF i \in o.w.fill + 1 .. o.w.fill + k
                                            THEN data[i - o.w.fill] ELSE @[i]]]]
             rest == SubSeq(data, k + 1, Len(data))
         IN IF filled.w.fill < BUFFER_SIZE THEN buffer_write(filled, rest)
            ELSE UNION {IF f.ok THEN buffer_write(f, rest) ELSE {f} : f \in flush_buffer(filled)}

\* Mutant: the rest of the buffer is not padded.
flush_remainingUnpadded(o) == IF o.w.fill = 0 THEN {[o EXCEPT !.ok = TRUE]} ELSE flush_buffer(o)

\* flush_remaining: pad the rest of the buffer, flush; nothing to do for an empty buffer.
flush_remaining(o) ==
    IF o.w.fill = 0 THEN {[o EXCEPT !.ok = TRUE]}
    ELSE flush_buffer([o EXCEPT !.w.buf = [i \in 1 .. BUFFER_SIZE |-> IF i > o.w.fill THEN 0 ELSE @[i]]])

Outcome == [w |-> w, inflight |-> inflight, disk |-> disk, faults |-> faults, ok |-> TRUE, consumed |-> 0]

Writes == ctx.write /\ ctx.blk

\* The body bytes first .. last go to the writer, if there is one.
Consume(first, last) ==
    IF Writes THEN buffer_write(Outcome, [i \in 1 .. last - first + 1 |-> first + i - 1]) ELSE {Outcome}

-----------------------------------------------------------------------------
(* HttpState *)

resp == net.resp

may_recv == net.tcp = "Established" \/ net.got > net.read

Keep == st' = st /\ UNCHANGED ready

\* SendRequest waits until the socket may send.
HttpSend ==
    /\ st = "Http" /\ http.phase = "SendRequest" /\ Started <= HTTP_IDLE
    /\ \/ net.tcp \in {"Established", "CloseWait"} /\ Keep
          /\ http' = [http EXCEPT !.phase = "ReceiveHeaders"] /\ age' = 0
       \/ net.tcp \in {"Established", "CloseWait"} /\ Fail /\ UNCHANGED http
       \/ net.tcp = "Closed" /\ Continue(ready) /\ UNCHANGED http
    /\ UNCHANGED <<ctx, net, w, inflight, disk, gpt, mani, faults>>

Apply(o) == w' = o.w /\ inflight' = o.inflight /\ disk' = o.disk /\ faults' = o.faults

\* ReceiveHeaders: read into the space left; behind the end of the headers the body has begun.
HttpHeaders ==
    /\ st = "Http" /\ http.phase = "ReceiveHeaders" /\ Started <= HTTP_IDLE
    /\ LET n == Lesser(net.got - net.read, HeaderBuf - net.read)
           len == net.read + n
           body == len - resp.header
       IN \/ ~may_recv /\ Fail /\ Quiet /\ UNCHANGED <<ctx, net>>
          \/ may_recv /\ net.read = HeaderBuf /\ Fail /\ Quiet /\ UNCHANGED <<ctx, net>>
          \/ may_recv /\ net.read < HeaderBuf /\ n = 0 /\ Continue(ready) /\ Quiet /\ UNCHANGED <<ctx, net>>
          \/ /\ may_recv /\ n > 0 /\ body < 0 /\ Keep /\ age' = 0
             /\ net' = [net EXCEPT !.read = len] /\ Quiet /\ UNCHANGED ctx
          \/ /\ may_recv /\ n > 0 /\ body >= 0 /\ ~resp.ok /\ Fail
             /\ net' = [net EXCEPT !.read = len] /\ Quiet /\ UNCHANGED ctx
          \/ /\ may_recv /\ n > 0 /\ body >= 0 /\ resp.ok /\ Keep /\ age' = 0
             /\ net' = [net EXCEPT !.read = len]
             /\ http' = [phase |-> "ReceiveBody", clen |-> resp.clen, received |-> body]
             /\ \E o \in Consume(1, body) :
                  /\ Apply(o)
                  /\ ctx' = [ctx EXCEPT !.downloaded = body, !.written = @ + o.consumed]
             /\ UNCHANGED <<gpt, mani>>

\* The end of the download: flush, and hand over to the manifest; a failed flush fails it,
\* unless the length was unknown.
Complete(o, received, strict) ==
    IF ~Writes THEN Transition("Manifest") /\ Apply(o) /\ ctx' = [ctx EXCEPT !.downloaded = received]
    ELSE \E f \in flush_remaining(o) :
           /\ Apply(f)
           /\ IF f.ok \/ ~strict
              THEN Transition("Manifest") /\ ctx' = [ctx EXCEPT !.downloaded = received, !.written = f.w.total]
              ELSE Fail /\ ctx' = [ctx EXCEPT !.downloaded = received, !.written = @ + o.consumed]

\* Mutant: a connection closed early ends the download as if the length were unknown.
HttpClosedAnyway ==
    /\ st = "Http" /\ http.phase = "ReceiveBody" /\ Started <= HTTP_IDLE
    /\ ~may_recv
    /\ Complete(Outcome, http.received, FALSE)
    /\ UNCHANGED <<net, http, gpt, mani>>

\* ReceiveBody on a closed socket: complete, complete by close, or closed too early.
HttpClosed ==
    /\ st = "Http" /\ http.phase = "ReceiveBody" /\ Started <= HTTP_IDLE
    /\ ~may_recv
    /\ \/ http.clen # Old /\ http.received >= http.clen /\ Complete(Outcome, http.received, TRUE)
       \/ http.clen = Old /\ Complete(Outcome, http.received, FALSE)
       \/ http.clen > http.received /\ Fail /\ UNCHANGED <<ctx, w, inflight, disk, faults>>
    /\ UNCHANGED <<net, http, gpt, mani>>

\* Mutant: a read that returns nothing counts as activity.
HttpBodyBusy ==
    /\ st = "Http" /\ http.phase = "ReceiveBody" /\ Started <= HTTP_IDLE /\ may_recv
    /\ LET n == Lesser(net.got - net.read, RECV)
           received == http.received + n
       IN /\ net' = [net EXCEPT !.read = @ + n]
          /\ http' = [http EXCEPT !.received = received]
          /\ \E o \in Consume(http.received + 1, received) :
               IF http.clen # Old /\ received >= http.clen
               THEN Complete(o, received, TRUE)
               ELSE Keep /\ Apply(o) /\ age' = 0
                    /\ ctx' = [ctx EXCEPT !.downloaded = received, !.written = @ + o.consumed]
    /\ UNCHANGED <<gpt, mani>>

\* ReceiveBody: read, count, write, and complete once the announced length is there.
HttpBody ==
    /\ st = "Http" /\ http.phase = "ReceiveBody" /\ Started <= HTTP_IDLE /\ may_recv
    /\ LET n == Lesser(net.got - net.read, RECV)
           received == http.received + n
       IN /\ net' = [net EXCEPT !.read = @ + n]
          /\ http' = [http EXCEPT !.received = received]
          /\ \E o \in Consume(http.received + 1, received) :
               IF http.clen # Old /\ received >= http.clen
               THEN Complete(o, received, TRUE)
               ELSE Keep /\ Apply(o) /\ age' = (IF n = 0 THEN Started ELSE 0)
                    /\ ctx' = [ctx EXCEPT !.downloaded = received, !.written = @ + o.consumed]
    /\ UNCHANGED <<gpt, mani>>

\* The idle check runs before the phase is looked at.
HttpTimeout ==
    /\ st = "Http" /\ Started > HTTP_IDLE /\ Fail
    /\ Quiet /\ UNCHANGED <<ctx, net>>

-----------------------------------------------------------------------------
(* The manifest and the end. *)

\* ManifestState::from_context: the range recorded starts at the claimed sector.
Range == <<ctx.start, ctx.start + CeilDiv(ctx.downloaded, SECTOR), ctx.downloaded>>

\* write_fat32 or write_raw_sector; either needs the device, and either may fail.
ManifestStep ==
    /\ st = "Manifest"
    /\ \/ ready /\ Transition("Done") /\ UNCHANGED mani
       \/ ~ready /\ ctx.mode = "skip" /\ Continue(TRUE) /\ UNCHANGED mani
       \/ ~ready /\ ctx.mode # "skip" /\ ctx.blk /\ Continue(TRUE) /\ mani' = Range
       \/ ~ready /\ ctx.mode # "skip" /\ Fail /\ UNCHANGED mani
    /\ UNCHANGED <<ctx, net, http, w, inflight, disk, gpt, faults>>

\* download_with_config steps the current state; Done reboots and Failed returns.
Step ==
    \/ InitStep \/ GptStep \/ LinkStep \/ DhcpStep \/ DnsStep \/ ConnectStep
    \/ HttpSend \/ HttpHeaders \/ HttpClosed \/ HttpBody \/ HttpTimeout \/ ManifestStep

\* The clock passes while a state waits; no timeout is longer than the cap.
Tick ==
    /\ st \notin Terminal /\ age \in 0 .. HTTP_IDLE
    /\ age' = age + 1
    /\ UNCHANGED <<st, ready, ctx, net, http, w, inflight, disk, gpt, mani, faults>>

\* The network and the server: a link, a handshake, bytes, the end of the stream or a reset.
Environment ==
    /\ st \notin Terminal
    /\ \/ st = "LinkWait" /\ ~net.link /\ net' = [net EXCEPT !.link = TRUE]
       \/ net.tcp = "SynSent" /\ \E s \in {"Established", "Closed"} : net' = [net EXCEPT !.tcp = s]
       \/ /\ net.tcp = "Established" /\ http.phase # "SendRequest"
          /\ \E n \in 1 .. resp.header + resp.body - net.got : net' = [net EXCEPT !.got = @ + n]
       \/ /\ net.tcp = "Established"
          /\ \E s \in {"CloseWait", "Closed"} : net' = [net EXCEPT !.tcp = s]
    /\ UNCHANGED <<st, ready, age, ctx, http, w, inflight, disk, gpt, mani, faults>>

\* The device serves a request whose wait timed out, from whatever the buffer holds by then.
Device ==
    /\ st \notin Terminal
    /\ \E r \in inflight :
         /\ ~r.done
         /\ inflight' = (inflight \ {r}) \cup {[r EXCEPT !.done = TRUE]}
         /\ disk' = Stored(disk, r.sector, r.n, w.buf)
    /\ UNCHANGED <<st, ready, age, ctx, net, http, w, gpt, mani, faults>>

Next == Step \/ Tick \/ Environment \/ Device

\* The loop never sleeps and the time stamp counter never stops.
Spec == Init /\ [][Next]_vars /\ WF_vars(Step) /\ WF_vars(Tick)

-----------------------------------------------------------------------------
\* The body, padded to whole sectors, lies at first.
ImageAt(first, size) == \A i \in 1 .. CeilDiv(size, SECTOR) * SECTOR :
    disk[first + ((i - 1) \div SECTOR)][((i - 1) % SECTOR) + 1] = (IF i <= size THEN i ELSE 0)

\* Unless the disk failed a request, a recorded image is wholly on the disk where the writer
\* put it, and the counter reported as written is its size (http.rs, disk_writer.rs).
ImageIntact ==
    mani # <<>> /\ Writes /\ faults = 0
        => ImageAt(ctx.target, mani[3]) /\ ctx.written = ctx.downloaded

\* A download only ends well with all the bytes the server announced (http.rs).
CompleteIsWhole ==
    st \in {"Manifest", "Done"} /\ http.clen # Old => ctx.downloaded >= http.clen

\* A partition that was there keeps its sectors, when the requested range was free and
\* holds the body: neither the writer nor a late request writes past what was received.
OthersUntouched ==
    ctx.start = ctx.target /\ http.received <= Needed * SECTOR
        => \A p \in Partitions : \A s \in p[1] .. p[2] : \A i \in 1 .. SECTOR : disk[s][i] = Old

\* Every download ends: every state that waits has a timeout, and activity is bounded by the body.
Ends == <>(st \in Terminal)

=============================================================================
