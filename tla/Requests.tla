------------------------------ MODULE Requests ------------------------------
(***************************************************************************)
(* What the virtio devices do with a request: the walk of its descriptors  *)
(* and the transfer of its data, in internal/dev/virtio_*.go.  Guest memory *)
(* is the units in DOMAIN mem; any other address is a bus error.  A unit    *)
(* holds a tuple that says what it is.  The device's side is a record s:    *)
(*   mem, disk, rx (host data that wait), out (data sent to the host),     *)
(*   res, scanout, cursor (of the display), rnd (entropy drawn so far),    *)
(*   failed, fault (the last transfer met a bus error).                    *)
(* A handler takes s and the descriptors of a chain and gives [s, len].    *)
(***************************************************************************)
EXTENDS Integers, SequencesExt

CONSTANTS
    Header,      \* units of a disk request's header: its type, its sector
    NetHeader,   \* units before a frame (virtioNetHdrLen)
    Event,       \* units of an input event (8 bytes)
    IdLen,       \* units of the disk's identity
    DescSize,    \* units of a descriptor (16 bytes)
    MaxTable,    \* descriptors of an indirect table (1024)
    LenMod,      \* 2^32, for lengths
    MaxRequest,  \* units of a display request that are read (4096 bytes)
    Fb           \* the framebuffer: [base, w, h, stride]

ASSUME RequestsAssumption == /\ NetHeader \in Nat \ {0} /\ Event \in Nat \ {0}
                             /\ DescSize \in Nat \ {0} /\ MaxTable \in Nat /\ LenMod \in Nat \ {0}

Least(a, b) == IF a < b THEN a ELSE b
Zeros(n) == [i \in 1 .. n |-> <<"zero", 0, 0>>]

(***************************************************************************)
(* A table maps the numbers it holds to descriptors; tables maps addresses  *)
(* to tables, 0 to the queue's own.                                         *)
(***************************************************************************)
Descriptors == [addr : Nat, len : Nat, next : BOOLEAN, write : BOOLEAN, indirect : BOOLEAN, to : Nat]
(* readDirectChain: at most `limit' descriptors, none twice.                *)
Walked_Nested(table, head, limit) ==
    LET Follow(w) ==
            IF w.stop THEN w
            ELSE IF w.id >= limit \/ w.id \in w.seen \/ w.id \notin DOMAIN table
            THEN [w EXCEPT !.stop = TRUE]
            ELSE LET d == table[w.id]
                 IN  [id |-> d.to, seen |-> w.seen \cup {w.id}, out |-> Append(w.out, d),
                      stop |-> ~d.next, ok |-> ~d.next]
        Walk[i \in 0 .. limit] ==
            IF i = 0 THEN [id |-> head, seen |-> {}, out |-> <<>>, stop |-> FALSE, ok |-> FALSE]
            ELSE Follow(Walk[i - 1])
    IN  Walk[limit]
Walked(table, head, limit) ==
    LET Follow(w) ==
            IF w.stop THEN w
            ELSE IF w.id >= limit \/ w.id \in w.seen \/ w.id \notin DOMAIN table
                    \/ table[w.id].indirect
            THEN [w EXCEPT !.stop = TRUE]
            ELSE LET d == table[w.id]
                 IN  [id |-> d.to, seen |-> w.seen \cup {w.id}, out |-> Append(w.out, d),
                      stop |-> ~d.next, ok |-> ~d.next]
        Walk[i \in 0 .. limit] ==
            IF i = 0 THEN [id |-> head, seen |-> {}, out |-> <<>>, stop |-> FALSE, ok |-> FALSE]
            ELSE Follow(Walk[i - 1])
    IN  Walk[limit]
readIndirectChain(tables, d) ==
    LET limit == d.len \div DescSize
        table == IF d.addr \in DOMAIN tables THEN tables[d.addr] ELSE <<>>
    IN  IF d.len = 0 \/ d.len % DescSize # 0 \/ limit > MaxTable
        THEN [ok |-> FALSE, out |-> <<>>] ELSE Walked(table, 0, limit)
readChain(tables, num, head) ==
    IF head >= num \/ head \notin DOMAIN tables[0] THEN [ok |-> FALSE, out |-> <<>>]
    ELSE IF tables[0][head].indirect THEN readIndirectChain(tables, tables[0][head])
    ELSE Walked(tables[0], head, num)

(***************************************************************************)
(* Transfers, unit by unit until a bus error.                               *)
(***************************************************************************)
Reachable(mem, addr, n) ==
    CHOOSE k \in 0 .. n : /\ \A i \in 0 .. k - 1 : addr + i \in DOMAIN mem
                          /\ k = n \/ addr + k \notin DOMAIN mem
copyToGuest(s, addr, cells) ==
    LET n == Reachable(s.mem, addr, Len(cells))
    IN  [s EXCEPT !.mem = [u \in DOMAIN @ |->
                              IF u \in addr .. addr + n - 1 THEN cells[u - addr + 1] ELSE @[u]],
                  !.fault = n < Len(cells)]
Fetch(s, addr, n) == [i \in 1 .. n |-> s.mem[addr + i - 1]]
Mapped(s, d) == Reachable(s.mem, d.addr, d.len) = d.len
fail(s) == [s EXCEPT !.failed = TRUE]

(* A handler goes over descriptors with a record p: s, the length used, how *)
(* far it is in its data, whether all is well and whether it stops.         *)
Over(Step(_, _), s, descs, at) ==
    LET After(p, d) == IF p.done THEN p ELSE Step(p, d)
        Done[i \in 0 .. Len(descs)] ==
            IF i = 0 THEN [s |-> s, used |-> 0, at |-> at, ok |-> TRUE, done |-> FALSE]
            ELSE After(Done[i - 1], descs[i])
    IN  Done[Len(descs)]
Stop(p, s) == [p EXCEPT !.s = s, !.ok = FALSE, !.done = TRUE]
Readable(d) == ~d.write /\ d.len > 0
Writable(d) == d.write /\ d.len > 0
Result(s, len) == [s |-> s, len |-> len]
Used(p) == Result(p.s, p.used)

(***************************************************************************)
(* The disk: a header, data, a status.                                      *)
(***************************************************************************)
setStatus(s, descs, status) ==
    LET at == {i \in DOMAIN descs : Writable(descs[i])}
        last == CHOOSE i \in at : \A j \in at : j <= i
    IN  IF at = {} THEN s ELSE copyToGuest(s, descs[last].addr, <<<<"status", status, 0>>>>)

(* Each data descriptor moves the place on the disk forward.                *)
Overwritten(disk, at, cells) ==
    [i \in DOMAIN disk |-> IF i \in at + 1 .. at + Len(cells) THEN cells[i - at] ELSE disk[i]]
DiskStep_SamePlace(type, p, d) ==
    LET end == p.at + d.len
        read == copyToGuest(p.s, d.addr, SubSeq(p.s.disk, p.at + 1, end))
    IN  IF d.write # (type = "in") \/ end > Len(p.s.disk) THEN Stop(p, p.s)
        ELSE IF type = "in"
        THEN IF read.fault THEN Stop(p, fail(read))
             ELSE [p EXCEPT !.s = read, !.used = @ + d.len, !.at = end]
        ELSE IF ~Mapped(p.s, d) THEN Stop(p, fail(p.s))
        ELSE [p EXCEPT !.s.disk = Overwritten(@, p.at, Fetch(p.s, d.addr, d.len))]
DiskStep(type, p, d) ==
    LET end == p.at + d.len
        read == copyToGuest(p.s, d.addr, SubSeq(p.s.disk, p.at + 1, end))
    IN  IF d.write # (type = "in") \/ end > Len(p.s.disk) THEN Stop(p, p.s)
        ELSE IF type = "in"
        THEN IF read.fault THEN Stop(p, fail(read))
             ELSE [p EXCEPT !.s = read, !.used = @ + d.len, !.at = end]
        ELSE IF ~Mapped(p.s, d) THEN Stop(p, fail(p.s))
        ELSE [p EXCEPT !.s.disk = Overwritten(@, p.at, Fetch(p.s, d.addr, d.len)), !.at = end]
(* Only the first data descriptor is told the identity.                     *)
IdStep(p, d) ==
    LET n == Least(d.len, IdLen)
        told == copyToGuest(p.s, d.addr, [i \in 1 .. n |-> <<"id", i, 0>>])
    IN  IF ~d.write \/ told.fault THEN Stop(p, IF d.write THEN told ELSE p.s)
        ELSE [p EXCEPT !.s = told, !.used = n, !.done = TRUE]

(* What cannot be read of a header is 0: a read, of sector 0.               *)
Field(s, u, none) == IF u \in DOMAIN s.mem THEN s.mem[u][2] ELSE none
processRequest(s, descs) ==
    LET type == Field(s, descs[1].addr, "in")
        sector == Field(s, descs[1].addr + 1, 0)
        Step(p, d) == IF type = "id" THEN IdStep(p, d) ELSE DiskStep(type, p, d)
        data == IF type \in {"in", "out", "id"} THEN SubSeq(descs, 2, Len(descs) - 1) ELSE <<>>
        p == Over(Step, s, data, sector)
        ok == p.ok /\ type \in {"in", "out", "id", "flush"}
    IN  IF Len(descs) < 2 \/ descs[1].len < Header
        THEN Result(setStatus(s, descs, "ioerr"), 1)
        ELSE IF ~Writable(descs[Len(descs)])
        THEN Result(setStatus(s, descs, "ioerr"), 0)
        ELSE Result(setStatus(p.s, descs, IF ok THEN "ok" ELSE "ioerr"), 1 + p.used)

(***************************************************************************)
(* The console: a stream of characters each way.                            *)
(***************************************************************************)
consoleConsumeTx(s, descs) ==
    LET Step(p, d) ==
            IF ~Readable(d) THEN p
            ELSE IF ~Mapped(p.s, d) THEN Stop(p, fail(p.s))
            ELSE [p EXCEPT !.s.out = @ \o Fetch(p.s, d.addr, d.len), !.used = @ + d.len]
    IN  Used(Over(Step, s, descs, 0))
consoleFillRx_KeepInput(s, descs) ==
    LET Step(p, d) ==
            LET n == Least(d.len, Len(p.s.rx))
                given == copyToGuest(p.s, d.addr, SubSeq(p.s.rx, 1, n))
            IN  IF ~Writable(d) THEN p
                ELSE IF given.fault THEN Stop(p, fail(given))
                ELSE [p EXCEPT !.s = given, !.used = @ + n, !.done = n = Len(p.s.rx)]
    IN  Used(Over(Step, s, descs, 0))
consoleFillRx(s, descs) ==
    LET Step(p, d) ==
            LET n == Least(d.len, Len(p.s.rx))
                given == copyToGuest(p.s, d.addr, SubSeq(p.s.rx, 1, n))
            IN  IF ~Writable(d) THEN p
                ELSE IF given.fault THEN Stop(p, fail(given))
                ELSE [p EXCEPT !.s = [given EXCEPT !.rx = SubSeq(@, n + 1, Len(@))],
                               !.used = @ + n, !.done = n = Len(p.s.rx)]
    IN  Used(Over(Step, s, descs, 0))

(***************************************************************************)
(* The network card: frames behind a header, whole or not at all.           *)
(***************************************************************************)
netConsumeTx(s, descs) ==
    LET Step(p, d) ==
            IF ~Readable(d) THEN p
            ELSE IF ~Mapped(p.s, d) THEN Stop(p, fail(p.s))
            ELSE [p EXCEPT !.used = @ + d.len]
        p == Over(Step, s, descs, 0)
        raw == FlattenSeq([i \in DOMAIN descs |->
                   IF Readable(descs[i]) THEN Fetch(s, descs[i].addr, descs[i].len) ELSE <<>>])
        frame == IF Len(raw) < NetHeader THEN raw ELSE SubSeq(raw, NetHeader + 1, Len(raw))
    IN  IF ~p.ok THEN Used(p)
        ELSE Result(IF frame = <<>> THEN s ELSE [s EXCEPT !.out = Append(@, frame)], p.used)
netFillRx(s, descs) ==
    LET payload == Zeros(NetHeader) \o s.rx[1]
        Step(p, d) ==
            LET n == Least(d.len, Len(payload) - p.at)
                given == copyToGuest(p.s, d.addr, SubSeq(payload, p.at + 1, p.at + n))
            IN  IF ~Writable(d) THEN p
                ELSE IF given.fault THEN Stop(p, fail(given))
                ELSE [p EXCEPT !.s = given, !.at = @ + n]
        p == Over(Step, s, descs, 0)
    IN  IF ~p.ok \/ p.at < Len(payload) THEN Result(p.s, 0)
        ELSE Result([p.s EXCEPT !.rx = Tail(@)], p.at)

(***************************************************************************)
(* Entropy: a byte drawn is never drawn again.                              *)
(***************************************************************************)
fillRequest(s, descs) ==
    LET Step(p, d) ==
            LET given == copyToGuest(p.s, d.addr, [i \in 1 .. d.len |-> <<"rnd", p.s.rnd + i, 0>>])
                drawn == Least(d.len, Reachable(p.s.mem, d.addr, d.len) + 1)
                after == [given EXCEPT !.rnd = @ + drawn]
            IN  IF ~Writable(d) THEN p
                ELSE IF given.fault THEN Stop(p, fail(after))
                ELSE [p EXCEPT !.s = after, !.used = @ + d.len]
    IN  Used(Over(Step, s, descs, 0))

(***************************************************************************)
(* Input events: as many as fit.  The length used so far is taken off the   *)
(* length of every descriptor, and is an offset into every one.             *)
(***************************************************************************)
EventCells(e) == [i \in 1 .. Event |-> <<"event", e, i>>]
fillEvent(s, descs) ==
    LET Put(p, d) ==
            LET given == copyToGuest([p.s EXCEPT !.rx = Tail(@)], d.addr + p.used,
                                     EventCells(p.s.rx[1]))
            IN  IF (d.len - p.used) % LenMod < Event \/ p.s.rx = <<>> THEN p
                ELSE IF given.fault THEN Stop(p, fail(given))
                ELSE [p EXCEPT !.s = given, !.used = @ + Event, !.done = given.rx = <<>>]
        More(p, d) == IF p.done THEN p ELSE Put(p, d)
        Events(p, d) ==
            LET Done[i \in 0 .. Len(p.s.rx)] == IF i = 0 THEN p ELSE More(Done[i - 1], d)
            IN  Done[Len(p.s.rx)]
        Step(p, d) == IF ~d.write \/ d.len < Event THEN p ELSE Events(p, d)
    IN  Used(Over(Step, s, descs, 0))
consumeStatus(s, descs) ==
    LET Step(p, d) ==
            IF d.write \/ d.len < Event THEN p
            ELSE IF ~Mapped(p.s, d) THEN Stop(p, fail(p.s))
            ELSE [p EXCEPT !.s.out = @ \o [i \in 1 .. d.len \div Event |->
                                               p.s.mem[d.addr + (i - 1) * Event]],
                           !.used = @ + d.len]
    IN  Used(Over(Step, s, descs, 0))

(***************************************************************************)
(* The display.  A request is a command and its argument, a response its    *)
(* type and, for the display's size, a mode; a pixel is a unit.             *)
(***************************************************************************)
readRequestBytes(s, descs) ==
    LET Step(p, d) ==
            LET n == Least(d.len, MaxRequest - Len(p.s.out))
                k == Reachable(p.s.mem, d.addr, n)
                took == [p.s EXCEPT !.out = @ \o Fetch(p.s, d.addr, k)]
            IN  IF d.write THEN p
                ELSE IF k < n THEN Stop(p, fail(took)) ELSE [p EXCEPT !.s = took]
        p == Over(Step, [s EXCEPT !.out = <<>>], descs, 0)
    IN  [req |-> p.s.out, failed |-> ~p.ok]

(* The rows of a resource, as far as its memory goes and the screen shows;  *)
(* the two do not overlap.                                                  *)
copyResourceToFramebuffer(s, id) ==
    LET r == s.res[id]
        shown == Least(Least(r.w, Fb.w), Fb.stride)
        Row(y) == [x \in 1 .. Least(shown, r.length - y * r.w) |->
                      [from |-> r.backing + y * r.w + x - 1, to |-> Fb.base + y * Fb.stride + x - 1]]
        rows == {y \in 0 .. Least(r.h, Fb.h) - 1 : y * r.w < r.length}
        pixels == FlattenSeq([i \in 1 .. Cardinality(rows) |-> Row(i - 1)])
        bad == {i \in DOMAIN pixels : {pixels[i].from, pixels[i].to} \ DOMAIN s.mem # {}}
        last == IF bad = {} THEN Len(pixels) ELSE (CHOOSE i \in bad : \A j \in bad : i <= j) - 1
        Copied == [u \in DOMAIN s.mem |->
                      IF \E i \in 1 .. last : pixels[i].to = u
                      THEN s.mem[pixels[CHOOSE i \in 1 .. last : pixels[i].to = u].from]
                      ELSE s.mem[u]]
    IN  IF id \notin DOMAIN s.res \/ id = 0 \/ Fb.w = 0 THEN s
        ELSE IF 0 \in {r.backing, r.length, r.w, r.h} THEN s
        ELSE [s EXCEPT !.mem = Copied, !.failed = @ \/ bad # {}]

NoResource == [w |-> 0, h |-> 0, backing |-> 0, length |-> 0]
Bound(res, id, r) == [i \in DOMAIN res \cup {id} |-> IF i = id THEN r ELSE res[i]]
Of(res, id) == IF id \in DOMAIN res THEN res[id] ELSE NoResource
handleCursorCommand(s, a) == [s EXCEPT !.cursor = [res |-> a.id, at |-> a.at]]
(* What a command does; one without its argument does nothing.              *)
gpuEffect(s, cmd, a) ==
    CASE cmd = "create" -> [s EXCEPT !.res = Bound(@, a.id, [NoResource EXCEPT !.w = a.w, !.h = a.h])]
      [] cmd = "attach" -> [s EXCEPT !.res =
             Bound(@, a.id, IF a.entries = 0 THEN Of(@, a.id)
                           ELSE [Of(@, a.id) EXCEPT !.backing = a.backing, !.length = a.length])]
      [] cmd = "scanout" -> [s EXCEPT !.scanout = [w |-> a.w, h |-> a.h, id |-> a.id]]
      [] cmd = "transfer" -> copyResourceToFramebuffer(s, a.id)
      [] cmd = "flush" -> copyResourceToFramebuffer(s, IF a.id = 0 THEN s.scanout.id ELSE a.id)
      [] cmd = "unref" -> [s EXCEPT !.res = [i \in DOMAIN @ \ {a.id} |-> @[i]]]
      [] cmd = "detach" -> [s EXCEPT !.res =
             Bound(@, a.id, [Of(@, a.id) EXCEPT !.backing = 0, !.length = 0])]
      [] cmd \in {"cursor", "move"} -> handleCursorCommand(s, a)
      [] OTHER -> s

Header1(type) == <<<<"resp", type, 0>>>>
displayInfoResponse(s) == Header1("display") \o <<<<"mode", s.scanout.w, s.scanout.h>>>>
GpuCommands == {"create", "attach", "scanout", "transfer", "flush", "unref", "detach", "cursor", "move"}
gpuResponseForQueue(s, req) ==
    LET cmd == req[1][2]
    IN  IF req = <<>> THEN [s |-> s, resp |-> Header1("error")]
        ELSE IF cmd = "info" THEN [s |-> s, resp |-> displayInfoResponse(s)]
        ELSE IF cmd \notin GpuCommands THEN [s |-> fail(s), resp |-> Header1("error")]
        ELSE [s |-> IF Len(req) < 2 THEN s ELSE gpuEffect(s, cmd, req[2][2]), resp |-> Header1("ok")]
writeResponseBytes(s, descs, resp) ==
    LET Step(p, d) ==
            LET n == Least(d.len, Len(resp) - p.at)
                given == copyToGuest(p.s, d.addr, SubSeq(resp, p.at + 1, p.at + n))
                k == Reachable(p.s.mem, d.addr, n)
            IN  IF ~Writable(d) \/ n = 0 THEN p
                ELSE IF given.fault THEN Stop([p EXCEPT !.used = @ + k], fail(given))
                ELSE [p EXCEPT !.s = given, !.used = @ + n, !.at = @ + n]
    IN  Used(Over(Step, s, descs, 0))
handleCommand(s, descs) ==
    LET asked == readRequestBytes(s, descs)
        r == gpuResponseForQueue([s EXCEPT !.failed = @ \/ asked.failed], asked.req)
    IN  writeResponseBytes(r.s, descs, r.resp)
=============================================================================
