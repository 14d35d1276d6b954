-------------------------------- MODULE Bus --------------------------------
(***************************************************************************)
(* The observation half of internal/mem/bus.go: watchpoints, the ring of   *)
(* their hits and the ring of recent accesses, as a record of their        *)
(* fields; and the lookup of the region an address belongs to.  The access *)
(* histogram only counts and is left out.                                  *)
(* A ring is an array filled round and round: `pos' is the next slot and   *)
(* `cnt' the slots in use; `log' is a history of what was put in since the *)
(* ring was cleared, its newest entries only.                              *)
(***************************************************************************)
EXTENDS Naturals, Integers, Sequences

CONSTANTS
    RingSize,     \* slots in the access ring (1024 in the code)
    HitSize,      \* slots in the ring of watchpoint hits (256 in the code)
    AddrMod,      \* 2^w of an address (2^64 in the code)
    DramBase, DramSize,
    Regions       \* sequence of device regions, see Region in Memory

ASSUME BusAssumption ==
    /\ RingSize \in Nat \ {0}
    /\ HitSize \in Nat \ {0}
    /\ AddrMod \in Nat \ {0}
    /\ DramBase \in Nat \ {0}
    /\ DramSize \in Nat

(* A watchpoint, a recorded access, a recorded hit, and a ring of n.       *)
AccessOps == {"read", "write"}
Watchpoint == [base : Nat, size : Nat]
AccessEvent == [seq : Nat, op : AccessOps, addr : Nat]
WatchpointHit == [seq : Nat, op : AccessOps, watch : Nat, addr : Nat]
Ring(n, E) == [slots : [0 .. n - 1 -> E \cup {<<>>}], pos : 0 .. n - 1, cnt : 0 .. n,
               size : {n}, log : Seq(E)]
BusState == [trace : BOOLEAN, watch : [read : Seq(Watchpoint), write : Seq(Watchpoint)],
             last : WatchpointHit \cup {<<>>}, seq : Nat,
             events : Ring(RingSize, AccessEvent), hits : Ring(HitSize, WatchpointHit)]

RingOf(n) == [slots |-> [i \in 0 .. n - 1 |-> <<>>], pos |-> 0, cnt |-> 0, size |-> n,
              log |-> <<>>]

Newest(log, n) == IF Len(log) <= n THEN log ELSE SubSeq(log, Len(log) - n + 1, Len(log))
Put(ring, e) ==
    [ring EXCEPT !.slots[ring.pos] = e,
                 !.pos = (ring.pos + 1) % ring.size,
                 !.cnt = IF ring.cnt < ring.size THEN ring.cnt + 1 ELSE ring.cnt,
                 !.log = Newest(Append(ring.log, e), ring.size)]

(* AccessTimeline and WatchpointHits: the newest `limit' entries, oldest   *)
(* first; no limit, or one beyond the ring, asks for all.                  *)
ReadOut_FromSlotZero(ring, limit) ==
    LET n == IF limit <= 0 \/ limit > ring.cnt THEN ring.cnt ELSE limit
    IN  [i \in 1 .. n |-> ring.slots[i - 1]]
ReadOut(ring, limit) ==
    LET n == IF limit <= 0 \/ limit > ring.cnt THEN ring.cnt ELSE limit
    IN  [i \in 1 .. n |-> ring.slots[(ring.pos - n + i - 1) % ring.size]]

(* Where an address belongs.  Ends are computed modulo the address width,  *)
(* as in the code.                                                         *)
InDRAM(addr, size) == addr >= DramBase /\ (addr - DramBase) + size <= DramSize
InRegion(r, addr, size) ==
    addr >= r.base /\ (addr + size) % AddrMod <= (r.base + r.size) % AddrMod
Candidates(addr, size) == {i \in 1 .. Len(Regions) : InRegion(Regions[i], addr, size)}
findRegion(addr, size) ==
    LET c == Candidates(addr, size)
    IN  IF c = {} THEN 0 ELSE CHOOSE i \in c : \A j \in c : i <= j

Overlaps(w, addr, size) ==
    addr < (w.base + w.size) % AddrMod /\ (addr + size) % AddrMod > w.base

NewBus == [trace |-> FALSE, watch |-> [read |-> <<>>, write |-> <<>>], last |-> <<>>,
           seq |-> 0, events |-> RingOf(RingSize), hits |-> RingOf(HitSize)]

(* checkWatchpoint: the first watchpoint that overlaps the access is       *)
(* recorded, whether or not the access then succeeds.                      *)
FirstHit(points, addr, size) ==
    {i \in 1 .. Len(points) : /\ Overlaps(points[i], addr, size)
                              /\ \A j \in 1 .. i - 1 : ~Overlaps(points[j], addr, size)}
checkWatchpoint(b, op, addr, size) ==
    LET first == FirstHit(b.watch[op], addr, size)
        hit(i) == [seq |-> b.seq + 1, op |-> op, watch |-> b.watch[op][i].base, addr |-> addr]
    IN  IF first = {} THEN b
        ELSE LET h == hit(CHOOSE i \in first : TRUE)
             IN  [b EXCEPT !.last = h, !.hits = Put(b.hits, h)]

recordAccessEvent(b, op, addr) ==
    [b EXCEPT !.seq = b.seq + 1,
              !.events = Put(b.events, [seq |-> b.seq + 1, op |-> op, addr |-> addr])]

(* A DRAM access enters the ring only while TraceDRAMAccess is on.  A      *)
(* device access enters it when the device has answered without error;     *)
(* what the device itself does to the bus happens before.                  *)
DramAccess(b, op, addr, size) ==
    LET w == checkWatchpoint(b, op, addr, size)
    IN  IF b.trace THEN recordAccessEvent(w, op, addr) ELSE w
EndMmio(b, op, addr, ok) == IF ok THEN recordAccessEvent(b, op, addr) ELSE b

(* The viewer's commands.                                                  *)
AddWatchpoint(b, op, w) ==
    IF w.size = 0 THEN b ELSE [b EXCEPT !.watch[op] = Append(@, w)]
ClearWatchpoints(b, op) == [b EXCEPT !.watch[op] = <<>>, !.last = <<>>]
ClearLastWatchpoint(b) == [b EXCEPT !.last = <<>>]
ClearWatchpointHits(b) == [b EXCEPT !.hits = RingOf(HitSize)]
ClearAccessTimeline(b) == [b EXCEPT !.events = RingOf(RingSize)]
SetTraceDRAMAccess(b, on) == [b EXCEPT !.trace = on]
=============================================================================
