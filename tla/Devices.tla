------------------------------ MODULE Devices -------------------------------
(***************************************************************************)
(* One virtio device of internal/dev and the serial port, with the driver  *)
(* and the host on their other sides.  The driver writes the registers,    *)
(* makes chains available and notifies; a write runs the device at once,   *)
(* shown here a request at a time.  Ring indices and the suppression of    *)
(* interrupts are in Virtqueue; here a queue is the heads made available.  *)
(***************************************************************************)
EXTENDS VirtioRegs, Requests, Uart

CONSTANTS
    Scenarios      \* a sequence of machines: device, memory, descriptors, what may happen

(* A write is a sequence of bytes, at an offset in the window; a table      *)
(* holds descriptors.                                                       *)
ASSUME DevicesAssumption ==
    LET all == Scenarios
    IN  \A i \in DOMAIN all :
            /\ all[i].kind \in Kinds /\ all[i].live \in BOOLEAN /\ all[i].num \in 0 .. 255
            /\ \A w \in all[i].writes : w[1] \in Nat /\ w[2] \in Seq(0 .. 255)
            /\ 0 \in DOMAIN all[i].tables
            /\ \A a \in DOMAIN all[i].tables : \A d \in DOMAIN all[i].tables[a] :
                  all[i].tables[a][d] \in Descriptors

VARIABLES
    sc,            \* the scenario
    regs,          \* the registers
    dev,           \* the requests' side
    visiting,      \* the queues the write at hand has the device look at
    posted,        \* per queue, the heads made available
    used,          \* completions: [q, head, len]
    uart, handling,   \* the serial port; the driver's interrupt handler
    changes,       \* register writes so far
    (* History. *)
    given,         \* what the host fed in, but what a reset made the device drop
    got,           \* what the driver found in completed buffers
    typed,         \* characters the driver read from the serial port
    believed,      \* per place of the disk, what the driver may find there
    lent,          \* per resource, the memory lent to the display
    shadow         \* per register byte, the byte last written

device == <<regs, dev, visiting, posted, used, got, believed, lent>>
port == <<uart, handling, typed>>
vars == <<sc, device, port, changes, given, shadow>>

kind == sc.kind
Queues == 0 .. QueueCount(kind) - 1
(* The registers once a driver has set the device up.                      *)
LiveQueue(num) == [NoQueue EXCEPT !.num = <<num, 0, 0, 0>>, !.ready = TRUE,
                                  !.addr = [a \in AddrRegs |-> One4]]
LiveRegs(k, num) == [NewRegs(k) EXCEPT !.features = <<Zero4, One4>>, !.status = <<15, 0, 0, 0>>,
                                       !.queue = [q \in DOMAIN @ |-> LiveQueue(num)]]
(* Its own record of that, by place and byte: one page of features, queues. *)
LiveNotes(num) ==
    [k \in {<<1, \h20 + i>> : i \in 0 .. 3}
          \cup {<<q, a + i>> : q \in Queues, a \in {\h38, \h44} \cup AddrRegs, i \in 0 .. 3} |->
        IF k[2] = \h38 THEN num ELSE IF k[2] \in {\h20, \h44} \cup AddrRegs THEN 1 ELSE 0]
NewDevice(s) == [mem |-> s.mem, disk |-> s.disk, rx |-> <<>>, out |-> <<>>, res |-> <<>>,
                 scanout |-> [w |-> 1024, h |-> 768, id |-> 0], cursor |-> [res |-> 0, at |-> 0],
                 rnd |-> 0, failed |-> FALSE, fault |-> FALSE]

Init ==
    /\ LET all == Scenarios IN \E i \in DOMAIN all : sc = all[i]
    /\ regs = IF sc.live THEN LiveRegs(kind, sc.num) ELSE NewRegs(kind)
    /\ dev = NewDevice(sc)
    /\ posted = [q \in Queues |-> <<>>]
    /\ visiting = <<>> /\ used = <<>>
    /\ uart = NewUart /\ handling = "none"
    /\ changes = 0
    /\ given = <<>> /\ got = <<>> /\ typed = <<>>
    /\ believed = [i \in DOMAIN sc.disk |-> {sc.disk[i]}]
    /\ lent = <<>>
    /\ shadow = IF sc.live THEN LiveNotes(sc.num) ELSE <<>>

-----------------------------------------------------------------------------
(* What a chain means to the driver that wrote it: a queue's descriptors,   *)
(* or those of the table that the first one names.                          *)
Start(head) == IF sc.tables[0][head].indirect THEN [t |-> sc.tables[0][head].addr, i |-> 0]
               ELSE [t |-> 0, i |-> head]
Meant(head) ==
    LET s == Start(head)
        table == sc.tables[s.t]
        Nexts(S, n) == S \cup {table[i].to : i \in {j \in S \cap DOMAIN table : table[j].next}}
    IN  {table[i] : i \in DOMAIN table \cap
            FoldFunction(LAMBDA n, S : Nexts(S, n), {s.i}, [n \in DOMAIN table |-> n])}
(* It ends, and is a plain list.                                            *)
Ends(head) == /\ \E d \in Meant(head) : ~d.next
              /\ \A d \in Meant(head) : ~d.indirect
Units(descs, write) ==
    UNION {d.addr .. d.addr + d.len - 1 : d \in {e \in descs : e.write = write}}

(* The units that it lends in a chain's order, and what is there.           *)
Places(descs, write) ==
    LET part(d) == IF d.write = write THEN [i \in 1 .. d.len |-> d.addr + i - 1] ELSE <<>>
        Upto[i \in 0 .. Len(descs)] == IF i = 0 THEN <<>> ELSE Upto[i - 1] \o part(descs[i])
    IN  Upto[Len(descs)]
Cells(descs, write, mem) ==
    LET at == Places(descs, write)
    IN  [i \in DOMAIN at |-> IF at[i] \in DOMAIN mem THEN mem[at[i]] ELSE <<"error", 0, 0>>]
Chain(head) == readChain(sc.tables, sc.num, head).out
Data(head, write, mem) == Cells(Chain(head), write, mem)
First(n, seq) == SubSeq(seq, 1, n)

(* The devices that pass on streams: the host feeds in characters, frames   *)
(* or events.  What a driver lends them to write in overlaps no other such  *)
(* buffer of the chain and nothing it sends; a frame it sends has a header; *)
(* an event's buffer is one descriptor, in memory, for the input device     *)
(* drops an event that it cannot write.                                     *)
Streams == {"console", "net", "rng", "input"}
Cell == {"data", "zero", "char", "rnd", "event", "error"} \X Nat \X Nat
Characters == {"char"} \X Nat \X {0}
Datum(k) == CASE k = "net" -> Seq(Characters) [] k = "input" -> Nat [] OTHER -> Characters
Span(d) == d.addr .. d.addr + d.len - 1
DriverOK(m) ==
    LET chain(h) == readChain(m.tables, m.num, h[2])
        coming(h) == {i \in DOMAIN chain(h).out : chain(h).out[i].write}
        going(h) == DOMAIN chain(h).out \ coming(h)
        at(h, i) == Span(chain(h).out[i])
    IN  /\ DOMAIN m.mem \subseteq Nat /\ m.mem \in [DOMAIN m.mem -> Cell]
        /\ \A data \in m.feeds : data \in Seq(Datum(m.kind))
        /\ \A h \in m.heads : h \in (0 .. QueueCount(m.kind) - 1) \X Nat
        /\ \A h \in m.heads : h[1] = 0 =>
              /\ \A i, j \in coming(h) : i # j => at(h, i) \cap at(h, j) = {}
              /\ \A g \in m.heads : g[1] = 1 =>
                    \A i \in coming(h), j \in going(g) : at(h, i) \cap at(g, j) = {}
              /\ m.kind = "input" =>
                    /\ Len(chain(h).out) <= 1
                    /\ \A i \in coming(h) : /\ at(h, i) \subseteq DOMAIN m.mem
                                            /\ chain(h).out[i].len < LenMod
        /\ \A h \in m.heads : m.kind = "net" /\ h[1] = 1 /\ chain(h).ok =>
              NetHeader <= Len(Places(chain(h).out, FALSE))
ASSUME DriverAssumption ==
    LET all == Scenarios IN \A i \in DOMAIN all : all[i].kind \in Streams => DriverOK(all[i])

-----------------------------------------------------------------------------
(* The driver's notes on a completion: what it found in the buffers ...     *)
Fed(q) == q = 0 /\ kind \in {"console", "net", "input"}
Found(q, head, r) ==
    LET cells == First(r.len, Data(head, TRUE, r.s.mem))
    IN  IF ~Fed(q) /\ kind # "rng" THEN <<>>
        ELSE IF kind = "net" THEN <<SubSeq(cells, NetHeader + 1, Len(cells))>> ELSE cells

(* ... what the disk may hold now: what was written and acknowledged, or,   *)
(* after an error, that or what was there before ...                        *)
DiskRequest(head, mem) ==
    LET told == Data(head, FALSE, mem)
        back == Data(head, TRUE, mem)
        whole == Len(told) >= Header /\ back # <<>>
    IN  [type |-> IF whole THEN told[1][2] ELSE "none", sector |-> IF whole THEN told[2][2] ELSE 0,
         data |-> SubSeq(told, Header + 1, Len(told)),
         ok |-> whole /\ back[Len(back)] = <<"status", "ok", 0>>, read |-> First(Len(back) - 1, back)]
Believed(head, mem) ==
    LET r == DiskRequest(head, mem)
        new(i) == r.data[i - r.sector]
    IN  [i \in DOMAIN believed |->
            IF r.type # "out" \/ i \notin r.sector + 1 .. r.sector + Len(r.data) THEN believed[i]
            ELSE IF r.ok THEN {new(i)} ELSE believed[i] \cup {new(i)}]

(* ... and which memory it lent to the display and did not take back.       *)
Lent(head, mem) ==
    LET told == Data(head, FALSE, mem)
        a == told[2][2]
    IN  IF Len(told) < 2 \/ told[1] \notin {<<"cmd", c, 0>> : c \in {"create", "attach", "detach", "unref"}}
        THEN lent
        ELSE [i \in DOMAIN lent \cup {a.id} |->
                IF i # a.id THEN lent[i]
                ELSE IF told[1][2] = "attach" THEN a.backing .. a.backing + a.length - 1 ELSE {}]

-----------------------------------------------------------------------------
blkHandle(s, q, chain) == processRequest(s, chain)
consoleHandle(s, q, chain) == IF q = 0 THEN consoleFillRx(s, chain) ELSE consoleConsumeTx(s, chain)
netHandle(s, q, chain) == IF q = 0 THEN netFillRx(s, chain) ELSE netConsumeTx(s, chain)
inputHandle(s, q, chain) == IF q = 0 THEN fillEvent(s, chain) ELSE consumeStatus(s, chain)
Handled(q, head) ==
    LET chain == readChain(sc.tables, sc.num, head)
        s == [dev EXCEPT !.failed = FALSE, !.fault = FALSE]
    IN  IF ~chain.ok THEN Result(fail(s), 0)
        ELSE CASE kind = "blk" -> blkHandle(s, q, chain.out)
               [] kind = "console" -> consoleHandle(s, q, chain.out)
               [] kind = "net" -> netHandle(s, q, chain.out)
               [] kind = "rng" -> fillRequest(s, chain.out)
               [] kind = "input" -> inputHandle(s, q, chain.out)
               [] kind = "gpu" -> handleCommand(s, chain.out)

(* The head the device serves next, if there is anything to do.             *)
Waiting(q) ==
    IF /\ queueReady(regs, q) /\ regs.queue[q].last < Len(posted[q])
       /\ Fed(q) => dev.rx # <<>>
    THEN {posted[q][regs.queue[q].last + 1]} ELSE {}

(* The device serves a request, and goes on until nothing waits or a fed    *)
(* queue got an empty buffer; the network card keeps that one.              *)
Serve ==
    /\ visiting # <<>>
    /\ \E head \in Waiting(Head(visiting)) : \E r \in {Handled(Head(visiting), head)} :
          LET q == Head(visiting)
              stops == Fed(q) /\ r.len = 0
              status == IF r.s.failed THEN With(regs.status[1], Failed) ELSE regs.status[1]
          IN  /\ dev' = r.s
              /\ visiting' = IF stops THEN Tail(visiting) ELSE visiting
              /\ IF stops /\ kind = "net"
                 THEN regs' = [regs EXCEPT !.status[1] = status] /\ UNCHANGED used
                 ELSE /\ regs' = [regs EXCEPT !.status[1] = status, !.isr = 1,
                                              !.queue[q].last = @ + 1]
                      /\ used' = Append(used, [q |-> q, head |-> head, len |-> r.len])
              /\ got' = got \o (IF r.len = 0 THEN <<>> ELSE Found(q, head, r))
              /\ believed' = IF kind = "blk" /\ Ends(head) THEN Believed(head, r.s.mem) ELSE believed
              /\ lent' = IF kind = "gpu" /\ Ends(head) THEN Lent(head, dev.mem) ELSE lent
    /\ UNCHANGED <<sc, posted, port, changes, given, shadow>>
Done ==
    /\ visiting # <<>> /\ Waiting(Head(visiting)) = {}
    /\ visiting' = Tail(visiting)
    /\ UNCHANGED <<sc, regs, dev, posted, used, got, believed, lent, port, changes, given, shadow>>

-----------------------------------------------------------------------------
(* A reset of the network card drops the frames that wait, that of the      *)
(* input device its events, that of the display its resources.              *)
netReset(s) == [s EXCEPT !.rx = <<>>]
inputReset(s) == [s EXCEPT !.rx = <<>>, !.out = <<>>]
gpuReset(s) == [s EXCEPT !.res = <<>>, !.scanout.id = 0, !.cursor = [res |-> 0, at |-> 0]]
Cleared(s) == CASE kind = "net" -> netReset(s)
                [] kind = "input" -> inputReset(s)
                [] kind = "gpu" -> gpuReset(s)
                [] OTHER -> s

(* The driver's own record of the registers, byte by byte, from the last    *)
(* reset.  A byte belongs to a place: a page of features, a queue, or the   *)
(* device.                                                                  *)
Noted(s, a) == IF a \in DOMAIN s THEN s[a] ELSE 0
NotedWord(s, place, a) == [i \in 1 .. 4 |-> Noted(s, <<place, a + i - 1>>)]
Place(s, a) ==
    CASE a = \h20 -> Small(NotedWord(s, 0, \h24))
      [] a \in {\h38, \h44} /\ kind # "blk" -> Small(NotedWord(s, 0, \h30))
      [] a \in AddrRegs /\ QueueCount(kind) = 2 -> Small(NotedWord(s, 0, \h30))
      [] OTHER -> 0
Exists(s, a) ==
    CASE a = \h20 -> Place(s, a) < 2
      [] a \in {\h38, \h44} /\ kind = "blk" -> Small(NotedWord(s, 0, \h30)) = 0
      [] (a \in {\h38, \h44} /\ kind # "blk") \/ a \in AddrRegs -> Place(s, a) < QueueCount(kind)
      [] OTHER -> a \in {\h14, \h24, \h30}
Keep(s, p, a, word) ==
    [k \in DOMAIN s \cup {<<p, a + i>> : i \in 0 .. 3} |->
        IF k[1] = p /\ k[2] \in a .. a + 3 THEN word[k[2] - a + 1] ELSE s[k]]
Forget(s, q) == [k \in {k \in DOMAIN s : k[2] < \h38 \/ k[1] # q} |-> s[k]]
Note(off, v) ==
    LET a == off - (off % 4)
        p == Place(shadow, a)
        byte(i) == IF i >= off /\ i < off + Len(v) THEN v[i - off + 1] ELSE Noted(shadow, <<p, i>>)
        word == [i \in 1 .. 4 |-> byte(a + i - 1)]
    IN  IF kind = "blk" /\ off % 4 # 0 THEN shadow
        ELSE IF a = \hc0 /\ word # Zero4 THEN Forget(shadow, Small(NotedWord(shadow, 0, \h30)))
        ELSE IF ~Exists(shadow, a) THEN shadow
        ELSE Keep(shadow, p, a, IF a = \h44 /\ word # Zero4 THEN One4 ELSE word)

(* The driver writes a register.                                            *)
WriteRegister(off, v) ==
    LET w == Write(kind, regs, off, v)
    IN  /\ visiting = <<>> /\ changes < sc.changes
        /\ changes' = changes + 1
        /\ regs' = w.regs
        /\ visiting' = w.visits
        /\ dev' = IF w.reset THEN Cleared(dev) ELSE dev
        /\ lent' = IF w.reset THEN <<>> ELSE lent
        /\ shadow' = IF w.reset THEN <<>> ELSE Note(off, v)
        /\ given' = First(Len(given) - (Len(dev.rx) - Len(dev'.rx)), given)
        /\ UNCHANGED <<sc, posted, used, got, believed, port>>

(* It makes a chain available that it is not still waiting for.             *)
InFlight(q) == {posted[q][i] : i \in regs.queue[q].last + 1 .. Len(posted[q])}
Post(q, head) ==
    /\ visiting = <<>> /\ Len(posted[q]) < sc.posts /\ head \notin InFlight(q)
    /\ posted' = [posted EXCEPT ![q] = Append(@, head)]
    /\ UNCHANGED <<sc, regs, dev, visiting, used, got, believed, lent, port, changes, given, shadow>>

(* The host has data: characters for both consoles (Emulator.input), a      *)
(* frame, events.  The device looks for a buffer at once.                   *)
Inject(data) ==
    /\ visiting = <<>> /\ Len(given) < sc.inputs
    /\ given' = given \o data
    /\ dev' = [dev EXCEPT !.rx = @ \o data]
    /\ visiting' = <<0>>
    /\ uart' = IF kind = "console" THEN uartInject(uart, data) ELSE uart
    /\ UNCHANGED <<sc, regs, posted, used, got, believed, lent, handling, typed, changes, shadow>>

-----------------------------------------------------------------------------
(* The serial port.  Its interrupt is a source of the PLIC: a claim takes   *)
(* it, whatever the port still has; the handler goes on until it read that  *)
(* nothing waits.                                                           *)
UartRead(off) ==
    /\ uart' = uartRead(uart, off)
    /\ typed' = IF off = 0 /\ uartRead(uart, off) # uart THEN Append(typed, uartValue(uart, off)) ELSE typed
    /\ handling' = IF off = 5 /\ handling # "none" /\ uartValue(uart, off) = 96
                   THEN "empty" ELSE handling
    /\ UNCHANGED <<sc, device, changes, given, shadow>>
UartWrite(off, v) ==
    /\ changes < sc.changes /\ changes' = changes + 1
    /\ uart' = uartWrite(uart, off, v)
    /\ UNCHANGED <<sc, device, handling, typed, given, shadow>>
Claim ==
    /\ uart.irq /\ handling = "none"
    /\ uart' = [uart EXCEPT !.irq = FALSE]
    /\ handling' = "claimed"
    /\ UNCHANGED <<sc, device, typed, changes, given, shadow>>
Complete ==
    /\ handling = "empty" /\ handling' = "none"
    /\ UNCHANGED <<sc, device, uart, typed, changes, given, shadow>>

Port ==
    /\ sc.uart
    /\ \/ \E off \in {0, 1, 2, 5} : UartRead(off)
       \/ \E off \in {0, 1, 3}, v \in {0, 1, 128} : UartWrite(off, v)
       \/ Claim \/ Complete

Next ==
    \/ Serve \/ Done \/ Port
    \/ \E w \in sc.writes : WriteRegister(w[1], w[2])
    \/ \E h \in sc.heads : Post(h[1], h[2])
    \/ \E data \in sc.feeds : Inject(data)

Spec == Init /\ [][Next]_vars

-----------------------------------------------------------------------------
(* Whatever the width, the offset and the order of the writes, and whatever *)
(* queue or page was selected between them, a driver reads in every device  *)
(* the bytes it last wrote there, or zeros after a reset: a write disturbs  *)
(* no other byte, queue or page.                                            *)
ReadsSeeWrites ==
    \A a \in {\h14, \h20, \h24, \h30, \h38, \h44, \h80, \h94} :
        \A w \in {<<0, 4>>, <<1, 1>>, <<2, 4>>, <<0, 8>>} :
            LET off == a + w[1]
                word == IF kind = "blk" /\ off % 4 # 0 THEN Zero4
                        ELSE NotedWord(shadow, Place(shadow, a), a)
            IN  Read(kind, regs, off, w[2])
                = [i \in 1 .. w[2] |-> IF w[1] + i <= 4 THEN word[w[1] + i] ELSE 0]

(* Serving a request, a device stores only where the chain lets it write,   *)
(* and says to have used no more than that (a queue that transmits reports  *)
(* the length it read).  The display also fills its screen, with what the   *)
(* driver lent it and did not take back.  A chain that does not end or that *)
(* nests a table has no effect at all.                                      *)
Transmits(q) == q = 1 /\ kind \in {"console", "net", "input"}
Changed == {u \in DOMAIN dev.mem : dev'.mem[u] # dev.mem[u]}
Screen == Fb.base .. Fb.base + Fb.h * Fb.stride - 1
OnScreen(u) == u \in Screen /\ \E id \in DOMAIN lent' : \E x \in lent'[id] \cap DOMAIN dev.mem :
                                   dev'.mem[u] = dev.mem[x]
KeepsTo(head) ==
    LET mine == Units(Meant(head), TRUE)
    IN  /\ \A u \in Changed : u \in mine \/ (kind = "gpu" /\ OnScreen(u))
        /\ Ends(head) \/ [dev' EXCEPT !.failed = dev.failed, !.fault = dev.fault] = dev
        /\ used' = used \/ mine = {} \/ Transmits(used'[Len(used')].q)
              \/ used'[Len(used')].len <= Cardinality(mine)
DeviceKeepsToChains ==
    [][IF visiting = <<>> \/ Waiting(Head(visiting)) = {} THEN Changed = {}
       ELSE \A head \in Waiting(Head(visiting)) : KeepsTo(head)]_vars

(* Every character typed, frame or event reaches the guest once, whole and  *)
(* in order, however its buffers are cut and whichever of them cannot be    *)
(* written (an event's can), and so does what the guest sends; no byte of   *)
(* entropy is served twice.  A character that waits in the serial port is   *)
(* announced to the guest, unless its handler is still at work.             *)
Sent(u) == First(u.len, Data(u.head, FALSE, dev.mem))
Framed(u) == LET frame == SubSeq(Sent(u), NetHeader + 1, u.len)
             IN  IF frame = <<>> \/ u.len < Len(Data(u.head, FALSE, dev.mem)) THEN <<>> ELSE <<frame>>
Transmitted(What(_)) ==
    FlattenSeq([i \in DOMAIN used |-> IF used[i].q = 1 THEN What(used[i]) ELSE <<>>])
StreamsInOrder ==
    /\ kind \in {"console", "net"} => got \o dev.rx = given
    /\ kind = "input" => got \o FlattenSeq([i \in DOMAIN dev.rx |-> EventCells(dev.rx[i])])
                         = FlattenSeq([i \in DOMAIN given |-> EventCells(given[i])])
    /\ kind = "rng" => \A i, j \in DOMAIN got : i < j => got[i][2] < got[j][2]
    /\ kind = "console" => dev.out = Transmitted(Sent)
    /\ kind = "net" => dev.out = Transmitted(Framed)
    /\ kind = "console" => typed \o uart.rx = given
    /\ DataReady(uart) => uart.irq \/ handling # "none"

(* The disk holds what the driver wrote: a read that reports success gives  *)
(* back the last write that did, and a place whose write failed holds that  *)
(* or what it held before.                                                  *)
DiskKeepsWrites ==
    [][kind = "blk" /\ used' # used => LET head == used'[Len(used')].head
                                           r == DiskRequest(head, dev'.mem)
       IN  /\ \A i \in DOMAIN believed : dev'.disk[i] \in believed'[i]
           /\ Ends(head) /\ r.type = "in" /\ r.ok =>
                \A i \in DOMAIN r.read : r.read[i] \in believed'[r.sector + i]]_vars
=============================================================================
