------------------------------- MODULE Memory -------------------------------
(***************************************************************************)
(* Memory as the harts see it: an instruction's access goes through        *)
(* translation (module Mmu), physical memory protection (module Pmp) and   *)
(* the bus (module Bus) to DRAM or a device, in the order of readVirtual,  *)
(* writeVirtual and readVirtualFetch; the atomic instructions of           *)
(* exec_amo.go are made of those.  Harts take turns in one goroutine, so   *)
(* an instruction is one action; devices write DRAM between instructions   *)
(* or inside the register write that started them.                         *)
(*                                                                         *)
(* One unit of memory holds a data word, a table entry, an instruction     *)
(* parcel or a protection grain, all of them numbers.                      *)
(* What a fault does to the hart is module Hart's; here the context a hart *)
(* accesses memory in is set freely (SetContext).                          *)
(***************************************************************************)
EXTENDS Pmp, Mmu, Bus, FiniteSets

CONSTANTS
    WordMod,      \* data words are modulo 2^w (2^32 in the code)
    WordBits,     \* w
    MaxSeq,       \* bound: recorded accesses
    Setups        \* the machines to start from and what they do, see Setup

NoResv == VaMod
Dram == DramBase .. DramBase + DramSize - 1
Words == 0 .. WordMod - 1
Units(addr, size) == addr .. addr + size - 1

(* A device region: the accesses it refuses, and what it writes to DRAM    *)
(* when its register is written.                                           *)
DmaWrite == [addr : Dram, val : Nat]
Region == [base : Nat, size : Nat, name : STRING, fails : SUBSET AccessOps,
           writes : Seq(DmaWrite)]

(* A setup: the harts, the initial memory, the contexts software puts a    *)
(* hart in, the instructions it runs, the values it writes to the          *)
(* protection registers, the counter word only atomic additions touch, the *)
(* writes of a device and the viewer's moves.  A counter is untranslated,  *)
(* and an SC to it fails, as no LR reserves it.                            *)
AmoFns == {"swap", "add", "xor", "and", "or", "min", "max", "minu", "maxu"}
Operations(harts) ==
    {op \in [hart : harts, kind : {"fetch", "load", "store", "lr", "sc", "amo"},
             fn : AmoFns \cup {""}, va : Vas, size : {1, 2}, val : Nat] :
        op.kind = "amo" => op.fn \in AmoFns}
CounterApart(s) ==
    /\ \A h \in s.harts : \A c \in s.contexts[h] : c.satp # "sv39"
    /\ \A w \in s.dma : w.addr # s.counter
    /\ \A i \in DOMAIN Regions : \A j \in DOMAIN Regions[i].writes :
          Regions[i].writes[j].addr # s.counter
    /\ \A op \in s.ops :
          op.kind \in {"store", "sc", "amo"} /\ s.counter \in Units(op.va, op.size) =>
            \/ op.kind = "amo" /\ op.fn = "add" /\ op.va = s.counter /\ op.size = 1
            \/ op.kind = "sc" /\ \A r \in s.ops : r.kind = "lr" /\ r.hart = op.hart
                                                     => r.va # op.va
IsSetup(s) ==
    /\ s.mem \in [Dram -> Words]
    /\ s.counter \in Dram \cup {NoResv}
    /\ s.contexts \in [s.harts -> SUBSET Context]
    /\ s.ops \subseteq Operations(s.harts)
    /\ s.cfgs \subseteq [Entries -> PmpCfg] /\ s.addrs \subseteq Entries \X Nat
    /\ s.dma \subseteq DmaWrite
    /\ s.watches \subseteq Watchpoint /\ s.traced \subseteq BOOLEAN
    /\ s.counter # NoResv => CounterApart(s)

ASSUME MemoryAssumption ==
    /\ WordBits \in Nat
    /\ WordMod = 2 ^ WordBits
    /\ WordMod \in Nat \ {0} /\ WordMod % 128 = 0    \* a word holds an entry's flags
    /\ \A i \in 0 .. 2 * WordBits : 2 ^ i \in Nat \ {0}    \* as in PmpAssumption
    /\ MaxSeq \in Nat
    /\ Regions \in Seq(Region)
    /\ \A s \in Setups : IsSetup(s)

VARIABLES
    setup,        \* the setup of this behaviour, never changed
    mem,          \* DRAM: [units -> word]
    ctx,          \* [Harts -> Context]
    pmp,          \* [Harts -> PmpState]
    resv,         \* [Harts -> virtual address or NoResv], the LR reservation
    bus,          \* watchpoints and rings, see Bus
    added,        \* history: what completed additions added to the counter
    touched       \* history: per bit, the leaf entries completed accesses used
                  \* and software has not rewritten since

vars == <<setup, mem, ctx, pmp, resv, bus, added, touched>>

MachineCtx(root) == [mode |-> "M", mpp |-> "U", mprv |-> FALSE, sum |-> FALSE,
                     mxr |-> FALSE, satp |-> "bare", root |-> root]

Init ==
    /\ setup \in Setups
    /\ mem = setup.mem
    /\ ctx = [h \in setup.harts |-> MachineCtx(CHOOSE p \in Ppns : TRUE)]
    /\ pmp = [h \in setup.harts |-> PmpReset]
    /\ resv = [h \in setup.harts |-> NoResv]
    /\ bus = NewBus
    /\ added = 0
    /\ touched = [a |-> {}, d |-> {}]

(***************************************************************************)
(* The bus.  A state s of an instruction in progress carries what it may   *)
(* change; a failed step keeps what was changed before it failed.          *)
(***************************************************************************)
State(h) == [mem |-> mem, bus |-> bus, pmp |-> pmp[h], fault |-> "none", value |-> 0,
             touched |-> touched]
Failed(s, fault) == [s EXCEPT !.fault = fault]

DramValue(m, addr, size) == IF size = 1 THEN m[addr] ELSE m[addr] + WordMod * m[addr + 1]
DramStored(m, addr, size, v) ==
    IF size = 1 THEN [m EXCEPT ![addr] = v % WordMod]
    ELSE [m EXCEPT ![addr] = v % WordMod, ![addr + 1] = (v \div WordMod) % WordMod]

DramWrite(s, addr, size, v) ==
    [s EXCEPT !.mem = DramStored(s.mem, addr, size, v),
              !.bus = DramAccess(s.bus, "write", addr, size),
              !.touched = [a |-> s.touched.a \ Units(addr, size),
                           d |-> s.touched.d \ Units(addr, size)]]

(* What a device does when its register is read or written: it answers or  *)
(* fails, and a device that owns queues may write DRAM first.              *)
DeviceWrites(s, list) ==
    LET done[i \in 0 .. Len(list)] ==
            IF i = 0 THEN s ELSE DramWrite(done[i - 1], list[i].addr, 1, list[i].val)
    IN  done[Len(list)]

BusRead(s, addr, size) ==
    LET i == findRegion(addr, size)
    IN  CASE InDRAM(addr, size) ->
               [s EXCEPT !.bus = DramAccess(s.bus, "read", addr, size),
                         !.value = DramValue(s.mem, addr, size)]
          [] ~InDRAM(addr, size) /\ i # 0 ->
               LET ok == "read" \notin Regions[i].fails
               IN  [s EXCEPT !.bus = EndMmio(checkWatchpoint(s.bus, "read", addr, size),
                                             "read", addr, ok),
                             !.fault = IF ok THEN "none" ELSE "access"]
          [] OTHER ->
               [s EXCEPT !.bus = checkWatchpoint(s.bus, "read", addr, size),
                         !.fault = "access"]

BusWrite(s, addr, size, v) ==
    LET i == findRegion(addr, size)
    IN  CASE InDRAM(addr, size) -> DramWrite(s, addr, size, v)
          [] ~InDRAM(addr, size) /\ i # 0 ->
               LET ok == "write" \notin Regions[i].fails
                   begun == [s EXCEPT !.bus = checkWatchpoint(s.bus, "write", addr, size)]
                   acted == IF ok THEN DeviceWrites(begun, Regions[i].writes) ELSE begun
               IN  [acted EXCEPT !.bus = EndMmio(acted.bus, "write", addr, ok),
                                 !.fault = IF ok THEN "none" ELSE "access"]
          [] OTHER ->
               [s EXCEPT !.bus = checkWatchpoint(s.bus, "write", addr, size),
                         !.fault = "access"]

(* ReadNoTrace: a fetch leaves no trace in the rings.                      *)
BusFetch(s, addr, size) ==
    IF InDRAM(addr, size) THEN s
    ELSE LET i == findRegion(addr, size)
         IN  IF i # 0 /\ "read" \notin Regions[i].fails THEN s ELSE Failed(s, "access")

(***************************************************************************)
(* Translation and protection.                                             *)
(***************************************************************************)
(* The entry at an address.  A device register answers a read with 0 here  *)
(* (BusRead), which is no valid entry: a walk that reaches one ends in the *)
(* page fault that a failed read gives, and no mark is written to one.     *)
(* Tables kept in registers that software can fill with valid entries,     *)
(* such as the timer's compare registers, are not modelled.                *)
PteAt(m, a) == IF InDRAM(a, 1) THEN Decode(m[a]) ELSE BusError
Tables(m) == [a \in Nat |-> PteAt(m, a)]

(* The walk's reads and its write go over the bus like any other access;   *)
(* `t' is what translate found.                                            *)
Walked(s, reads) ==
    LET read[i \in 0 .. Len(reads)] ==
            IF i = 0 THEN s ELSE [BusRead(read[i - 1], reads[i], 1) EXCEPT !.fault = "none"]
    IN  read[Len(reads)]
Marked(s, t, k) ==
    LET leaf == IF t.leaf = 0 THEN {} ELSE {t.leaf}
        used == [a |-> s.touched.a \cup leaf,
                 d |-> s.touched.d \cup (IF k = "store" THEN leaf ELSE {})]
    IN  [IF t.marks = 0 THEN s ELSE DramWrite(s, t.leaf, 1, s.mem[t.leaf] + t.marks)
           EXCEPT !.touched = used]
Translation(s, t, k) ==
    IF t.ok THEN [s |-> Marked(Walked(s, t.reads), t, k), pa |-> t.pa]
    ELSE [s |-> Failed(Walked(s, t.reads), "page"), pa |-> 0]
Translated(s, c, va, k) == Translation(s, translate(Tables(s.mem), c, va, k), k)

Protected(s, pa, size, k, priv) ==
    LET checked == [s EXCEPT !.pmp = CheckCache(s.pmp)]
    IN  IF checkPMP(s.pmp, pa, size, k, priv) THEN checked ELSE Failed(checked, "access")

(* One access that stays in its page: translated, allowed, performed.      *)
Performed(p, pa, size, k, v) ==
    CASE p.fault # "none" -> p
      [] p.fault = "none" /\ k = "fetch" -> BusFetch(p, pa, size)
      [] p.fault = "none" /\ k = "load" -> BusRead(p, pa, size)
      [] p.fault = "none" /\ k = "store" -> BusWrite(p, pa, size, v)
Accessed_StoreBeforeCheck(t, c, size, k, v) ==
    LET p == Protected(t.s, t.pa, size, k, effectivePriv(c, k))
    IN  CASE t.s.fault # "none" -> t.s
          [] t.s.fault = "none" /\ k = "store" ->
               [BusWrite(t.s, t.pa, size, v) EXCEPT !.fault = p.fault]
          [] OTHER -> Performed(p, t.pa, size, k, v)
Accessed(t, c, size, k, v) ==
    IF t.s.fault # "none" THEN t.s
    ELSE Performed(Protected(t.s, t.pa, size, k, effectivePriv(c, k)), t.pa, size, k, v)
Access(s, c, va, size, k, v) == Accessed(Translated(s, c, va, k), c, size, k, v)

(* Loads and stores are aligned, so only a fetch can run over the end of a *)
(* page; it then goes parcel by parcel.                                    *)
readVirtualFetch(s, c, va, size) ==
    IF (va % Fan) + size <= Fan THEN Access(s, c, va, size, "fetch", 0)
    ELSE LET unit[i \in 0 .. size] ==
                 CASE i = 0 -> s
                   [] i > 0 /\ unit[i - 1].fault # "none" -> unit[i - 1]
                   [] OTHER -> Access(unit[i - 1], c, (va + i - 1) % VaMod, 1,
                                      "fetch", 0)
         IN  unit[size]

load(s, c, va, size) ==
    IF va % size # 0 THEN Failed(s, "misaligned") ELSE Access(s, c, va, size, "load", 0)
store(s, c, va, size, v) ==
    IF va % size # 0 THEN Failed(s, "misaligned") ELSE Access(s, c, va, size, "store", v)

(* Step's fetch: the first parcel, then the whole of a long instruction.   *)
FetchRest(first, c, va, size) ==
    IF first.fault # "none" \/ size = 1 THEN first ELSE readVirtualFetch(first, c, va, 2)
Fetch(s, c, va, size) == FetchRest(readVirtualFetch(s, c, va, 1), c, va, size)

(***************************************************************************)
(* The atomic instructions of exec_amo.go, on words of n units.            *)
(***************************************************************************)
WordRange(n) == IF n = 1 THEN WordMod ELSE WordMod * WordMod
Signed(n, v) == IF v < WordRange(n) \div 2 THEN v ELSE v - WordRange(n)

BitOf(v, i) == (v \div 2 ^ i) % 2
Bitwise(n, table, x, y) ==
    LET sum[i \in 0 .. n * WordBits] ==
            IF i = 0 THEN 0
            ELSE sum[i - 1] + table[BitOf(x, i - 1) + BitOf(y, i - 1)] * 2 ^ (i - 1)
    IN  sum[n * WordBits]
Xor == [i \in 0 .. 2 |-> IF i = 1 THEN 1 ELSE 0]
And == [i \in 0 .. 2 |-> IF i = 2 THEN 1 ELSE 0]
Or == [i \in 0 .. 2 |-> IF i = 0 THEN 0 ELSE 1]

AmoResult(fn, n, old, src) ==
    CASE fn = "swap" -> src
      [] fn = "add" -> (old + src) % WordRange(n)
      [] fn = "xor" -> Bitwise(n, Xor, old, src)
      [] fn = "and" -> Bitwise(n, And, old, src)
      [] fn = "or" -> Bitwise(n, Or, old, src)
      [] fn = "min" -> IF Signed(n, old) < Signed(n, src) THEN old ELSE src
      [] fn = "max" -> IF Signed(n, old) > Signed(n, src) THEN old ELSE src
      [] fn = "minu" -> IF old < src THEN old ELSE src
      [] fn = "maxu" -> IF old > src THEN old ELSE src

(* The value is read and written with two accesses of one instruction: a   *)
(* location that may be read and not written faults after the read.        *)
AmoWrite_IgnoresStoreFault(read, c, op) ==
    LET new == AmoResult(op.fn, op.size, read.value, op.val % WordRange(op.size))
    IN  IF read.fault # "none" THEN read
        ELSE [store(read, c, op.va, op.size, new) EXCEPT !.value = read.value, !.fault = "none"]
AmoWrite(read, c, op) ==
    LET new == AmoResult(op.fn, op.size, read.value, op.val % WordRange(op.size))
    IN  IF read.fault # "none" THEN read
        ELSE [store([read EXCEPT !.value = 0], c, op.va, op.size, new) EXCEPT
                !.value = read.value]
Amo(s, c, op) == AmoWrite(load(s, c, op.va, op.size), c, op)

(* LR leaves a reservation of the virtual address; SC stores if it has one *)
(* and drops it, unless the store faults; another atomic instruction drops *)
(* it when it completes.  Nothing any other hart or device does is seen.   *)
HoldsReservation(h, va) == resv[h] # NoResv /\ resv[h] = va
StoreConditional(s, h, op) ==
    IF op.va % op.size = 0 /\ HoldsReservation(h, op.va)
      THEN store(s, ctx[h], op.va, op.size, op.val % WordRange(op.size))
      ELSE IF op.va % op.size # 0 THEN Failed(s, "misaligned") ELSE [s EXCEPT !.value = 1]

ReservationAfter(h, op, fault) ==
    CASE op.kind = "lr" /\ fault = "none" -> op.va
      [] op.kind = "sc" /\ fault = "none" -> NoResv
      [] op.kind = "amo" /\ fault = "none" /\ HoldsReservation(h, op.va) -> NoResv
      [] OTHER -> resv[h]

(* What instruction op of a hart does.                                     *)
Outcome(op) ==
    LET s == State(op.hart)
        c == ctx[op.hart]
    IN  CASE op.kind = "fetch" -> Fetch(s, c, op.va, op.size)
          [] op.kind \in {"load", "lr"} -> load(s, c, op.va, op.size)
          [] op.kind = "store" -> store(s, c, op.va, op.size, op.val)
          [] op.kind = "sc" -> StoreConditional(s, op.hart, op)
          [] op.kind = "amo" -> Amo(s, c, op)

AddsToCounter(op) == op.kind = "amo" /\ op.fn = "add" /\ op.va = setup.counter

Complete(op, out) ==
    /\ bus.seq < MaxSeq
    /\ mem' = out.mem
    /\ bus' = out.bus
    /\ pmp' = [pmp EXCEPT ![op.hart] = out.pmp]
    /\ resv' = [resv EXCEPT ![op.hart] = ReservationAfter(op.hart, op, out.fault)]
    /\ touched' = out.touched
    /\ added' = IF AddsToCounter(op) /\ out.fault = "none"
                  THEN (added + op.val) % WordMod ELSE added
    /\ UNCHANGED <<setup, ctx>>
Execute(op) == Complete(op, Outcome(op))

(***************************************************************************)
(* What changes the terms of an access.                                    *)
(***************************************************************************)
(* Traps, returns and writes of mstatus and satp (module Hart).            *)
SetContext(h, c) ==
    /\ ctx' = [ctx EXCEPT ![h] = c]
    /\ UNCHANGED <<setup, mem, pmp, resv, bus, added, touched>>

(* Writes of the protection registers; only machine mode reaches them.     *)
WritePmpCfg(h, g, new) ==
    /\ ctx[h].mode = "M"
    /\ pmp' = [pmp EXCEPT ![h] = pmpSetCfgCSR(pmp[h], g, new)]
    /\ UNCHANGED <<setup, mem, ctx, resv, bus, added, touched>>

WritePmpAddr(h, i, v) ==
    /\ ctx[h].mode = "M"
    /\ pmp' = [pmp EXCEPT ![h] = pmpSetAddrCSR(pmp[h], i, v)]
    /\ UNCHANGED <<setup, mem, ctx, resv, bus, added, touched>>

(* Hart.Reset.                                                             *)
HartReset(h) ==
    /\ pmp' = [pmp EXCEPT ![h] = PmpReset]
    /\ resv' = [resv EXCEPT ![h] = NoResv]
    /\ ctx' = [ctx EXCEPT ![h] = MachineCtx(CHOOSE p \in Ppns : TRUE)]
    /\ UNCHANGED <<setup, mem, bus, added, touched>>

(* A device completes a request the page brought it (a frame, a key).      *)
DeviceDma(w) ==
    /\ bus.seq < MaxSeq
    /\ LET s == DramWrite([mem |-> mem, bus |-> bus, touched |-> touched], w.addr, 1, w.val)
       IN  mem' = s.mem /\ bus' = s.bus /\ touched' = s.touched
    /\ UNCHANGED <<setup, ctx, pmp, resv, added>>

(* The viewer, and the run loop that takes the last watchpoint hit.        *)
Observe(b) ==
    /\ b # bus
    /\ bus' = b
    /\ UNCHANGED <<setup, mem, ctx, pmp, resv, added, touched>>

Viewer ==
    \/ \E w \in setup.watches, op \in {"read", "write"} :
          bus.watch[op] = <<>> /\ Observe(AddWatchpoint(bus, op, w))
    \/ \E op \in {"read", "write"} : Observe(ClearWatchpoints(bus, op))
    \/ setup.watches # {} /\ \/ Observe(ClearWatchpointHits(bus))
                             \/ Observe(ClearAccessTimeline(bus))
    \/ \E on \in setup.traced : Observe(SetTraceDRAMAccess(bus, on))

TakeWatchpoint == Observe(ClearLastWatchpoint(bus))

Next ==
    \/ \E op \in setup.ops : Execute(op)
    \/ \E h \in setup.harts : \E c \in setup.contexts[h] : SetContext(h, c)
    \/ \E h \in setup.harts, new \in setup.cfgs :
          \E g \in {i \div GroupSize : i \in Entries} : WritePmpCfg(h, g, new)
    \/ \E h \in setup.harts, a \in setup.addrs : WritePmpAddr(h, a[1], a[2])
    \/ \E h \in setup.harts : setup.cfgs # {} /\ HartReset(h)
    \/ \E w \in setup.dma : DeviceDma(w)
    \/ Viewer
    \/ TakeWatchpoint

Spec == Init /\ [][Next]_vars

(***************************************************************************)
(* What must hold.                                                         *)
(***************************************************************************)
(* Every register, ring and reservation stays in its range, whatever the   *)
(* harts, the devices and the viewer do.                                   *)
TypeOK ==
    /\ setup \in Setups
    /\ mem \in [Dram -> Words]
    /\ ctx \in [setup.harts -> Context]
    /\ pmp \in [setup.harts -> PmpState]
    /\ resv \in [setup.harts -> Vas \cup {NoResv}]
    /\ bus \in BusState
    /\ added \in Words
    /\ touched \in [a : SUBSET Dram, d : SUBSET Dram]

(* The read-outs of AccessTimeline and WatchpointHits are the newest       *)
(* entries, oldest first, across the wrap of the ring, for every limit.    *)
RingsShowNewest ==
    \A r \in {bus.events, bus.hits} : \A limit \in 0 .. r.size + 1 :
        ReadOut(r, limit) = Newest(r.log, IF limit = 0 THEN r.size ELSE limit)

(* The cached PMPActive never hides an entry in use, and never costs a     *)
(* look-up when none is, after any order of resets, register writes and    *)
(* accesses: once filled, it is what a scan of the registers would say.    *)
PmpCacheSound ==
    \A h \in setup.harts : pmp[h].active \/ pmp[h].checked
                              => pmp[h].active = AnyPmpConfigured(pmp[h].cfg)

(* Until a reset, no write moves what a locked entry protects, with one    *)
(* exception the code allows: the base of a top-of-range entry follows the *)
(* address register below it while that register's own entry is unlocked.  *)
KeepsLocked(p, q) ==
    \A i \in Entries : p.cfg[i].l =>
        /\ q.cfg[i] = p.cfg[i]
        /\ pmpRange(q, i) # pmpRange(p, i) =>
             /\ p.cfg[i].a = "tor" /\ i > 0
             /\ ~p.cfg[i - 1].l /\ q.addr[i] = p.addr[i]
LockedRegionsHold ==
    [][\A h \in setup.harts : ~HartReset(h) => KeepsLocked(pmp[h], pmp'[h])]_vars

(* Translation grants exactly what the tables in memory say: there is one  *)
(* leaf for the address, it is no misaligned superpage, it allows the      *)
(* access under SUM, MXR and MPRV, and the page is its page.  The right-   *)
(* hand side is stated without the walk.                                   *)
KindOf(op) == CASE op.kind = "fetch" -> "fetch"
                [] op.kind \in {"load", "lr"} -> "load"
                [] OTHER -> "store"
Leaves(pte, c, va) ==
    LET at(table, l) == pte[table * Fan + Vpn(va, l)]
        points(e) == e # BusError /\ e.v /\ ~e.r /\ ~e.w /\ ~e.x
        maps(e, l) == e # BusError /\ e.v /\ (e.r \/ (e.x /\ ~e.w)) /\ e.ppn % Pages(l) = 0
        top == at(c.root, 2)
        mid == at(top.ppn, 1)
        low == at(mid.ppn, 0)
    IN  CASE maps(top, 2) ->
               {[e |-> top, page |-> top.ppn + ((va \div Fan) % (Fan * Fan))]}
          [] points(top) /\ maps(mid, 1) ->
               {[e |-> mid, page |-> mid.ppn + ((va \div Fan) % Fan)]}
          [] points(top) /\ points(mid) /\ maps(low, 0) -> {[e |-> low, page |-> low.ppn]}
          [] OTHER -> {}
Grants(e, c, priv, k) ==
    /\ e.u <=> (priv = "U" \/ (k # "fetch" /\ c.sum /\ e.u))
    /\ \/ k = "fetch" /\ e.x
       \/ k = "store" /\ e.w
       \/ k = "load" /\ (e.r \/ (e.x /\ c.mxr))
AccessesFollowTables ==
    \A op \in setup.ops :
        LET c == ctx[op.hart]
            k == KindOf(op)
            priv == effectivePriv(c, k)
            t == translate(Tables(mem), c, op.va, k)
            may == {m \in Leaves(Tables(mem), c, op.va) : Grants(m.e, c, priv, k)}
        IN  priv # "M" /\ c.satp = "sv39" =>
              /\ t.ok <=> Canonical(op.va) /\ may # {}
              /\ t.ok => \A m \in may : t.pa = m.page * Fan + (op.va % Fan)

(* An instruction whose access faults has written no data word and changed *)
(* no table entry but for setting accessed and dirty bits in leaves it was *)
(* translated by: a store is all or nothing, and an atomic instruction     *)
(* that cannot write leaves no trace.                                      *)
OnlyMarked(e, f) ==
    /\ \A field \in {"v", "r", "w", "x", "u", "ppn"} : f[field] = e[field]
    /\ (e.a => f.a) /\ (e.d => f.d)
Spares(m, out) ==
    \A a \in Dram : \/ out.mem[a] = m[a]
                   \/ /\ a \in out.touched.a
                      /\ OnlyMarked(Decode(m[a]), Decode(out.mem[a]))
FaultsChangeNoData ==
    \A op \in setup.ops : LET out == Outcome(op)
                          IN  out.fault # "none" => Spares(mem, out)

(* Until software rewrites it, the entry a completed access went through   *)
(* is marked accessed, and the entry a completed store or atomic           *)
(* instruction went through is marked dirty: no written page looks clean.  *)
WrittenPagesAreDirty ==
    /\ \A a \in touched.a : Decode(mem[a]).a
    /\ \A a \in touched.d : Decode(mem[a]).d

(* The counter holds every addition that completed on any hart, and no     *)
(* addition that faulted between its read and its write.                   *)
AddsNotLost ==
    setup.counter # NoResv => mem[setup.counter] = (setup.mem[setup.counter] + added) % WordMod
=============================================================================
