----------------------------- MODULE VirtioRegs -----------------------------
(***************************************************************************)
(* The register files of internal/dev/virtio_*.go: what each device answers *)
(* to a read and does with a write, of any width, at any offset.  A word is *)
(* four bytes, the lowest first; a value written or read is such a tuple.   *)
(***************************************************************************)
EXTENDS Naturals, Sequences

CONSTANTS
    Capacity       \* sectors of the disk, below 256

Kinds == {"blk", "console", "net", "rng", "input", "gpu"}
Zero4 == <<0, 0, 0, 0>>
One4 == <<1, 0, 0, 0>>

(* partialRead32, partialWrite32: what lies beyond the word is left out.    *)
partialRead32(w, o, size) == [i \in 1 .. size |-> IF o + i <= Len(w) THEN w[o + i] ELSE 0]
partialWrite32(w, o, size, v) ==
    [i \in 1 .. 4 |-> IF o < i /\ i <= o + size THEN v[i - o] ELSE w[i]]

Has(byte, bit) == (byte \div bit) % 2 = 1
With(byte, bit) == IF Has(byte, bit) THEN byte ELSE byte + bit
Without(byte, bit) == IF Has(byte, bit) THEN byte - bit ELSE byte
Subset(a, b) == \A i \in 1 .. 4, k \in 0 .. 7 : Has(a[i], 2 ^ k) => Has(b[i], 2 ^ k)

DriverOk == 4
FeaturesOk == 8
Failed == 128

DeviceId == [blk |-> 2, console |-> 3, net |-> 1, rng |-> 4, input |-> 18, gpu |-> 16]
QueueCount(kind) == IF kind \in {"blk", "rng"} THEN 1 ELSE 2
QueueMax == 128

deviceFeatures(kind, sel) ==
    CASE sel = 0 -> <<IF kind = "console" THEN 1 ELSE IF kind = "net" THEN 32 ELSE 0,
                      IF kind = "blk" THEN 2 ELSE 0, IF kind = "net" THEN 1 ELSE 0, 48>>
      [] sel = 1 -> One4
      [] OTHER -> Zero4
(* The number in a word, as far as it selects something.                    *)
Small(w) == IF w[2] + w[3] + w[4] = 0 THEN w[1] ELSE 256

AddrRegs == {\h80, \h84, \h90, \h94, \ha0, \ha4}
NoQueue == [num |-> Zero4, ready |-> FALSE, addr |-> [a \in AddrRegs |-> Zero4], last |-> 0]
NewRegs(kind) ==
    [dfs |-> Zero4, drs |-> Zero4, features |-> <<Zero4, Zero4>>, qsel |-> Zero4,
     queue |-> [q \in 0 .. QueueCount(kind) - 1 |-> NoQueue],
     isr |-> 0, status |-> Zero4, gen |-> 0, config |-> <<0, 0>>]

featuresAccepted(kind, r) ==
    /\ \A sel \in {0, 1} : Subset(r.features[sel + 1], deviceFeatures(kind, sel))
    /\ Has(r.features[2][1], 1)
queueReady(r, q) ==
    LET x == r.queue[q]
        at(a) == x.addr[a] # Zero4 \/ x.addr[a + 4] # Zero4
    IN  /\ Has(r.status[1], DriverOk)
        /\ x.ready /\ Small(x.num) \in 1 .. QueueMax
        /\ at(\h80) /\ at(\h90) /\ at(\ha0)

(* The queue that a register speaks of: the selected one, if it exists.     *)
(* The devices with one queue let its addresses be reached whatever is      *)
(* selected, and the disk its size and readiness be read.                   *)
Selected_First(kind, r, a, reading) == {0}
Selected(kind, r, a, reading) ==
    IF \/ QueueCount(kind) = 1 /\ a \in AddrRegs
       \/ kind = "blk" /\ reading /\ a \in {\h38, \h44}
    THEN {0} ELSE {Small(r.qsel)} \cap DOMAIN r.queue

(* The word behind each register, {} if there is none.                      *)
QueueWord(x, a) ==
    CASE a = \h38 -> x.num
      [] a = \h44 -> IF x.ready THEN One4 ELSE Zero4
      [] OTHER -> x.addr[a]
Word(kind, r, a) ==
    CASE a = \h00 -> {<<\h76, \h69, \h72, \h74>>}
      [] a = \h04 -> {<<2, 0, 0, 0>>}
      [] a = \h08 -> {<<DeviceId[kind], 0, 0, 0>>}
      [] a = \h0c -> {<<\h4d, \h57, \h56, \h52>>}
      [] a = \h10 -> {deviceFeatures(kind, Small(r.dfs))}
      [] a = \h14 -> {r.dfs}
      [] a = \h20 -> {r.features[s + 1] : s \in {Small(r.drs)} \cap {0, 1}}
      [] a = \h24 -> {r.drs}
      [] a = \h30 -> {r.qsel}
      [] a = \h34 -> IF Small(r.qsel) \in DOMAIN r.queue THEN {<<QueueMax, 0, 0, 0>>} ELSE {}
      [] a \in {\h38, \h44} \cup AddrRegs ->
            {QueueWord(r.queue[q], a) : q \in Selected(kind, r, a, TRUE)}
      [] a = \h60 -> {<<r.isr, 0, 0, 0>>}
      [] a = \h70 -> {r.status}
      [] a = \hfc -> {<<r.gen, 0, 0, 0>>}
      [] OTHER -> {}

(* The configuration space, where it is not made of words.  configData is   *)
(* one byte long here where the code gives a name or a bitmap: its length   *)
(* and its first byte.                                                      *)
Mac == <<2, \h72, \h76, \h77, 0, 1>>
configData(select, subsel) ==
    CASE select = 1 -> <<22, \h72>>
      [] select = 2 -> <<13, \h72>>
      [] select = 3 -> <<8, 6>>
      [] select = \h10 -> <<1, 0>>
      [] select = \h11 -> IF subsel = 1 THEN <<96, \hfe>> ELSE IF subsel = 2 THEN <<1, 3>> ELSE <<1, 6>>
      [] OTHER -> <<0, 0>>
readConfig(r, o, size) ==
    LET data == configData(r.config[1], r.config[2])
        cfg == <<r.config[1], r.config[2], data[1], 0, 0, 0, 0, 0, data[2]>>
    IN  partialRead32(cfg, o, size)

(* A register, or what a device answers elsewhere.                          *)
Zeros8 == <<0, 0, 0, 0, 0, 0, 0, 0>>
ReadOr(kind, r, off, size, other) ==
    LET words == Word(kind, r, off - (off % 4))
    IN  IF words = {} THEN other
        ELSE partialRead32(CHOOSE w \in words : TRUE, off % 4, size)
Nothing(size) == partialRead32(<<>>, 0, size)

(* The disk knows aligned offsets only, the others the word around any.     *)
blkRead(r, off, size) ==
    LET config == IF off \in \h100 .. \h107
                  THEN partialRead32([Zeros8 EXCEPT ![1] = Capacity], off - \h100, size)
                  ELSE Nothing(size)
    IN  IF off % 4 = 0 THEN ReadOr("blk", r, off, size, config) ELSE config
consoleRead(r, off, size) ==
    LET a == off - (off % 4)
    IN  ReadOr("console", r, off, size,
               IF a = \h100 THEN partialRead32(<<80, 0, 25, 0>>, off % 4, size)
               ELSE IF a = \h104 THEN partialRead32(One4, off % 4, size) ELSE Nothing(size))
netRead(r, off, size) ==
    ReadOr("net", r, off, size,
           IF off \in \h100 .. \h105 THEN partialRead32(<<Mac[off - \hff]>>, 0, size)
           ELSE IF off \in \h106 .. \h107 THEN partialRead32(One4, off - \h106, size)
           ELSE Nothing(size))
rngRead(r, off, size) == ReadOr("rng", r, off, size, Nothing(size))
inputRead(r, off, size) ==
    ReadOr("input", r, off, size,
           IF off \in \h100 .. \h17f THEN readConfig(r, off - \h100, size) ELSE Nothing(size))
gpuRead(r, off, size) ==
    ReadOr("gpu", r, off, size,
           IF off - (off % 4) = \h108 THEN partialRead32(One4, off % 4, size) ELSE Nothing(size))
Read(kind, r, off, size) ==
    CASE kind = "blk" -> blkRead(r, off, size)
      [] kind = "console" -> consoleRead(r, off, size)
      [] kind = "net" -> netRead(r, off, size)
      [] kind = "rng" -> rngRead(r, off, size)
      [] kind = "input" -> inputRead(r, off, size)
      [] kind = "gpu" -> gpuRead(r, off, size)

(***************************************************************************)
(* Writes.  A device's result is its registers, whether it was reset, and   *)
(* the queues it then looks at, in that order.                              *)
(***************************************************************************)
NewStatus(kind, r, w) ==
    LET agreed == Has(w[1], FeaturesOk) /\ featuresAccepted(kind, r)
        b == IF agreed THEN w[1] ELSE Without(w[1], FeaturesOk)
    IN  [w EXCEPT ![1] = IF Has(b, DriverOk) /\ ~agreed THEN With(b, Failed) ELSE b]
reset(kind, r) == [NewRegs(kind) EXCEPT !.gen = r.gen]
SetReady(x, ready) == [x EXCEPT !.ready = ready, !.last = IF ready THEN @ ELSE 0]

WriteQueue(x, a, New(_)) ==
    CASE a = \h38 -> [x EXCEPT !.num = New(@)]
      [] a = \h44 -> SetReady(x, New(IF x.ready THEN One4 ELSE Zero4) # Zero4)
      [] OTHER -> [x EXCEPT !.addr[a] = New(@)]
WriteWord(kind, r, a, New(_)) ==
    CASE a = \h14 -> [r EXCEPT !.dfs = New(@)]
      [] a = \h20 -> [r EXCEPT !.features = [i \in 1 .. 2 |->
                         IF i = Small(r.drs) + 1 THEN New(@[i]) ELSE @[i]]]
      [] a = \h24 -> [r EXCEPT !.drs = New(@)]
      [] a = \h30 -> [r EXCEPT !.qsel = New(@)]
      [] a \in {\h38, \h44} \cup AddrRegs ->
            [r EXCEPT !.queue = [q \in DOMAIN @ |->
                IF q \in Selected(kind, r, a, FALSE) THEN WriteQueue(@[q], a, New) ELSE @[q]]]
      [] a = \h64 -> [r EXCEPT !.isr = IF Has(New(Zero4)[1], 1) THEN 0 ELSE @]
      [] a = \h70 -> IF New(r.status) = Zero4 THEN reset(kind, r)
                     ELSE [r EXCEPT !.status = NewStatus(kind, r, New(@))]
      [] a = \hc0 /\ New(Zero4) # Zero4 /\ Selected(kind, r, a, FALSE) # {} ->
            [r EXCEPT !.isr = 0, !.queue = [q \in DOMAIN @ |->
                IF q \in Selected(kind, r, a, FALSE) THEN NoQueue ELSE @[q]]]
      [] OTHER -> r

Named(off, v) == Small(partialWrite32(Zero4, off % 4, Len(v), v))
Wrote(kind, r, off, v) ==
    LET New(cur) == partialWrite32(cur, off % 4, Len(v), v)
        a == off - (off % 4)
    IN  [regs |-> WriteWord(kind, r, a, New), reset |-> a = \h70 /\ New(r.status) = Zero4, visits |-> <<>>]
Visits(w, queues) == [w EXCEPT !.visits = queues]
At(off, a) == off - (off % 4) = a
(* A notification names the queue it is for.                                *)
Notifies(w, off, v, queues) ==
    IF At(off, \h50) /\ Named(off, v) \in queues THEN Visits(w, <<Named(off, v)>>) ELSE w
(* The write made the selected queue ready, or left it so.                  *)
Readied(kind, w, off, q) ==
    At(off, \h44) /\ q \in Selected(kind, w.regs, \h44, FALSE) /\ w.regs.queue[q].ready

blkWrite(r, off, v) ==
    IF off % 4 # 0 THEN [regs |-> r, reset |-> FALSE, visits |-> <<>>]
    ELSE Notifies(Wrote("blk", r, off, v), off, v, {0})
consoleWrite(r, off, v) == Notifies(Wrote("console", r, off, v), off, v, {0, 1})
netWrite(r, off, v) ==
    LET w == Wrote("net", r, off, v)
    IN  IF (At(off, \h44) /\ 0 \in Selected("net", r, \h44, FALSE)) \/ (At(off, \h70) /\ ~w.reset)
        THEN Visits(w, <<0>>) ELSE Notifies(w, off, v, {0, 1})
rngWrite(r, off, v) ==
    LET w == Wrote("rng", r, off, v)
    IN  IF Readied("rng", w, off, 0) \/ (At(off, \h70) /\ ~w.reset)
        THEN Visits(w, <<0>>) ELSE Notifies(w, off, v, {0})
(* The input device also keeps what selects its configuration.              *)
inputWrite(r, off, v) ==
    LET w == Wrote("input", r, off, v)
        chosen == off \in {\h100, \h101} /\ Len(v) = 1
    IN  IF Readied("input", w, off, 0) THEN Visits(w, <<0>>)
        ELSE IF At(off, \h70) /\ ~w.reset THEN Visits(w, <<0, 1>>)
        ELSE IF chosen
        THEN [w EXCEPT !.regs.config[off - \hff] = v[1], !.regs.gen = (@ + 1) % 256]
        ELSE Notifies(w, off, v, {0, 1})
gpuWrite(r, off, v) ==
    LET w == Wrote("gpu", r, off, v)
    IN  IF \E q \in {0, 1} : Readied("gpu", w, off, q)
        THEN Visits(w, <<CHOOSE q \in {0, 1} : Readied("gpu", w, off, q)>>)
        ELSE Notifies(w, off, v, {0, 1})
Write(kind, r, off, v) ==
    CASE kind = "blk" -> blkWrite(r, off, v)
      [] kind = "console" -> consoleWrite(r, off, v)
      [] kind = "net" -> netWrite(r, off, v)
      [] kind = "rng" -> rngWrite(r, off, v)
      [] kind = "input" -> inputWrite(r, off, v)
      [] kind = "gpu" -> gpuWrite(r, off, v)
=============================================================================
