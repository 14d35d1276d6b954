------------------------------ MODULE Virtqueue ------------------------------
(***************************************************************************)
(* The virtio-mmio devices of internal/dev/virtio_*.go and their split     *)
(* queues, with the driver that uses them and the interrupt between them.  *)
(*                                                                         *)
(* The six devices repeat one protocol: status handshake, queue set-up,    *)
(* notify, a loop that takes requests from the available ring and          *)
(* publishes them in the used ring, interrupt suppression, acknowledge,    *)
(* resets.  They differ in which queues wait for host data, which register *)
(* writes look at the queues again, and what a malformed chain does.       *)
(*                                                                         *)
(* A device runs inside the guest's register write or the host's call, to  *)
(* the end: each is one step.  The driver is the guest's: one hart posts   *)
(* requests while another handles the interrupt, so its steps interleave.  *)
(* Indices count modulo IdxMod (2^16) and slots modulo the queue size.     *)
(***************************************************************************)
EXTENDS Integers, Sequences

CONSTANTS
    Setups,       \* the devices, each with the driver's use of it, see Setup
    MaxData,      \* bound: host data items waiting in the device
    Room,         \* host data items that fit one chain (a frame needs a chain)
    StandardLayout \* TRUE: the driver writes its used event behind the
                   \* available ring; FALSE: where the devices read it

QueueIds == {0, 1}

Kinds == {"blk", "console", "net", "rng", "input", "gpu"}

(* The device, and what its driver chooses: the queue sizes, 0 for a queue *)
(* it does not set up, the features it accepts, and whether it is sloppy:  *)
(* it may skip the negotiation and post malformed chains.  idxMod stands   *)
(* for 2^16.                                                               *)
Setup == [kind : Kinds, num : [QueueIds -> Nat], idxMod : Nat \ {0},
          features : SUBSET {"VERSION_1", "EVENT_IDX", "OTHER"},
          sloppy : BOOLEAN]

ASSUME VirtqueueAssumption ==
    /\ Setups \subseteq Setup
    /\ \A s \in Setups, q \in QueueIds :
          s.num[q] = 0 \/ (s.num[q] < s.idxMod /\ s.idxMod % s.num[q] = 0)
    /\ MaxData \in Nat
    /\ Room \in Nat \ {0}
    /\ StandardLayout \in BOOLEAN

VARIABLES
    setup,        \* which device and driver this is; never changes
    features,     \* driverFeatures
    status,       \* status, of the bits below
    queue,        \* [QueueIds -> ready, lastAvail], the device's virtQueue
    data,         \* host data waiting: console rx, net rxFrames, input events
    irq,          \* interruptStatus # 0
    pending,      \* the source's pending bit in the PLIC
    ring,         \* [QueueIds -> the queue's rings and flags in guest memory]
    isr,          \* the interrupt handler between its claim and its ack
    driver        \* [QueueIds -> the driver's own state]

devVars == <<setup, features, status, queue, data, irq, pending>>
vars == <<setup, features, status, queue, data, irq, pending, ring, isr, driver>>

device == setup.kind
Num == setup.num
IdxMod == setup.idxMod

StatusBits == {"FEATURES_OK", "DRIVER_OK", "FAILED"}
Offered == {"VERSION_1", "EVENT_IDX"}
Indices == 0 .. IdxMod - 1
Slots(q) == 0 .. Num[q] - 1
EventIdx == "EVENT_IDX" \in features

-----------------------------------------------------------------------------
(* How the devices differ.                                                 *)

QueuesOf(d) == IF d \in {"blk", "rng"} THEN {0} ELSE {0, 1}

InUse == {q \in QueuesOf(device) : Num[q] # 0}

(* Queues whose buffers are filled with host data.                         *)
ReceiveQueues(d) == IF d \in {"console", "net", "input"} THEN {0} ELSE {}

(* Queues looked at again when software writes QueueReady or Status.       *)
ReadyScans(d, q) == CASE d \in {"rng", "net", "input"} -> {q} \cap {0}
                      [] d = "gpu" -> {q}
                      [] OTHER -> {}

StatusScans_NotNet(d) == CASE d = "rng" -> {0}
                           [] d = "input" -> {0, 1}
                           [] OTHER -> {}

StatusScans(d) == CASE d \in {"rng", "net"} -> {0}
                    [] d = "input" -> {0, 1}
                    [] OTHER -> {}

-----------------------------------------------------------------------------
(* One visit of the device to queue q, with d host data items waiting.     *)

Waiting(q) == (ring[q].availIdx - queue[q].lastAvail) % IdxMod

HeadAt(q, i) == ring[q].avail[((queue[q].lastAvail + i) % IdxMod) % Num[q]]

BadAt(q, i) == HeadAt(q, i) \in ring[q].bad

(* The chains before the first malformed one.                              *)
GoodRun(q) ==
    IF \E i \in 0 .. Waiting(q) - 1 : BadAt(q, i)
    THEN CHOOSE i \in 0 .. Waiting(q) - 1 :
            BadAt(q, i) /\ \A j \in 0 .. i - 1 : ~BadAt(q, j)
    ELSE Waiting(q)

Fit == IF device = "net" THEN 1 ELSE Room

Lesser(a, b) == IF a < b THEN a ELSE b

(* Chains that d items fill, if none is malformed.                         *)
Needed(d) == (d + Fit - 1) \div Fit

(* The loop of a receive queue meets a malformed chain.                    *)
MeetsBad(q, d) == GoodRun(q) < Lesser(Waiting(q), Needed(d))

(* How many chains a visit completes.  A request queue completes all, with *)
(* length 0 if malformed.  A receive queue stops when the data are used    *)
(* up; a malformed chain also ends the loop, completed by the console and  *)
(* the input device and left in the ring by the network device.            *)
RequestServed(q) == Waiting(q)

ReceiveServed(q, d) ==
    IF MeetsBad(q, d)
    THEN GoodRun(q) + (IF device = "net" THEN 0 ELSE 1)
    ELSE Lesser(Waiting(q), Needed(d))

Served(q, d) == IF q \in ReceiveQueues(device) THEN ReceiveServed(q, d)
                ELSE RequestServed(q)

(* The data that stay, and whether fail() was called.                      *)
Consumed(q, d) ==
    IF q \in ReceiveQueues(device)
    THEN Lesser(d, Fit * Lesser(GoodRun(q), Needed(d))) ELSE 0

Fails(q, d) == IF q \in ReceiveQueues(device) THEN MeetsBad(q, d)
               ELSE GoodRun(q) < Waiting(q)

(* virtqNeedEvent: did the used index just pass the event index?           *)
NeedEvent_Early(event, new, old) ==
    (new - event) % IdxMod < (new - old) % IdxMod

NeedEvent(event, new, old) ==
    (new - event - 1) % IdxMod < (new - old) % IdxMod

(* shouldInterrupt, for each of n completions in turn.                     *)
ShouldInterrupt(q, n) ==
    IF EventIdx
    THEN \E i \in 0 .. n - 1 :
            NeedEvent(ring[q].event, (ring[q].usedIdx + i + 1) % IdxMod,
                                     (ring[q].usedIdx + i) % IdxMod)
    ELSE n > 0 /\ ~ring[q].noInterrupt

(* n heads copied from the available ring to the used ring.                *)

Publish_NextSlot(q, n) ==
    LET Offset(s) == (s - ring[q].usedIdx - 1) % Num[q]
    IN [ring[q] EXCEPT
          !.used = [s \in Slots(q) |-> IF Offset(s) < n THEN HeadAt(q, Offset(s))
                                       ELSE @[s]],
          !.usedIdx = (@ + n) % IdxMod]

Publish(q, n) ==
    LET Offset(s) == (s - ring[q].usedIdx) % Num[q]
    IN [ring[q] EXCEPT
          !.used = [s \in Slots(q) |-> IF Offset(s) < n THEN HeadAt(q, Offset(s))
                                       ELSE @[s]],
          !.usedIdx = (@ + n) % IdxMod]

(* The device looks at the queues S; st, qs and d are its status, queues   *)
(* and data after what the caller changed first.                           *)
Visit(S, st, qs, d) ==
    LET Live == {q \in S \cap InUse :
                    "DRIVER_OK" \in st /\ qs[q].ready}
        N(q) == IF q \in Live THEN Served(q, d) ELSE 0
        Signal == \E q \in Live : ShouldInterrupt(q, N(q))
    IN /\ ring' = [q \in QueueIds |-> Publish(q, N(q))]
       /\ queue' = [q \in QueueIds |->
                      [qs[q] EXCEPT !.lastAvail = (@ + N(q)) % IdxMod]]
       /\ data' = d - (IF 0 \in Live THEN Consumed(0, d) ELSE 0)
       /\ status' = IF \E q \in Live : Fails(q, d) THEN st \cup {"FAILED"}
                    ELSE st
       /\ irq' = (irq \/ Signal)
       /\ pending' = (pending \/ Signal)

-----------------------------------------------------------------------------
NoQueue == [ready |-> FALSE, lastAvail |-> 0]

EmptyRing(q) == [availIdx |-> 0, avail |-> [s \in Slots(q) |-> 0],
                 usedIdx |-> 0, used |-> [s \in Slots(q) |-> 0],
                 event |-> 0, noInterrupt |-> FALSE, bad |-> {}]

NewDriver == [seen |-> 0, phase |-> "asleep", inflight |-> {}, kick |-> FALSE]

Init == /\ setup \in Setups
        /\ features = {}
        /\ status = {}
        /\ queue = [q \in QueueIds |-> NoQueue]
        /\ data = 0
        /\ irq = FALSE
        /\ pending = FALSE
        /\ ring = [q \in QueueIds |-> EmptyRing(q)]
        /\ isr = "idle"
        /\ driver = [q \in QueueIds |-> NewDriver]

-----------------------------------------------------------------------------
(* Register writes, as the driver makes them, and the host's calls.        *)

(* DriverFeatures: the driver writes them before it has set a status.      *)
WriteFeatures ==
    /\ status = {}
    /\ features' = setup.features
    /\ UNCHANGED <<setup, status, queue, data, irq, pending, ring, isr, driver>>

(* Status: FEATURES_OK does not stick unless the features are accepted,    *)
(* and DRIVER_OK without it also sets FAILED, but stays.                   *)
FeaturesAccepted == "VERSION_1" \in features /\ features \subseteq Offered

Negotiated(s) ==
    LET kept == IF FeaturesAccepted THEN s ELSE s \ {"FEATURES_OK"}
    IN IF "DRIVER_OK" \in kept /\ "FEATURES_OK" \notin kept
       THEN kept \cup {"FAILED"} ELSE kept

InOrder(bit) == IF bit = "FEATURES_OK" THEN FeaturesAccepted
                ELSE "FEATURES_OK" \in status

WriteStatus(bit) ==
    /\ setup.sloppy \/ InOrder(bit)
    /\ bit \notin status
    /\ Visit(StatusScans(device), Negotiated(status \cup {bit}), queue, data)
    /\ UNCHANGED <<setup, features, isr, driver>>

(* QueueReady, after the driver set the size and the addresses.            *)
StartQueue(q) ==
    /\ q \in InUse
    /\ ~queue[q].ready
    /\ Visit(ReadyScans(device, q), status,
             [queue EXCEPT ![q].ready = TRUE], data)
    /\ UNCHANGED <<setup, features, isr, driver>>

QueueReady(q) == "DRIVER_OK" \in status /\ queue[q].ready

(* The driver need not repeat a notification that came before the queue    *)
(* was set up, if the device looks at the queue when the part of the setup *)
(* arrives that is missing, be it QueueReady or the status DRIVER_OK.      *)
MayNotifyEarly(q) ==
    \/ device \in {"rng", "net", "input"} /\ q = 0
    \/ device = "input" /\ queue[q].ready
    \/ device = "gpu" /\ "DRIVER_OK" \in status

(* QueueNotify, which the driver owes for every request it has posted.     *)
(* The device does nothing for a queue that is not set up: the other       *)
(* devices forget such a notification, and the driver still owes it.       *)
Notify(q) ==
    /\ driver[q].kick
    /\ QueueReady(q) \/ MayNotifyEarly(q)
    /\ Visit({q}, status, queue, data)
    /\ driver' = [driver EXCEPT ![q].kick = FALSE]
    /\ UNCHANGED <<setup, features, isr>>

(* Inject, InjectFrame, InjectEvent: n more items from the host.           *)

Inject(n) ==
    /\ 0 \in ReceiveQueues(device)
    /\ data + n <= MaxData
    /\ Visit({0}, status, queue, data + n)
    /\ UNCHANGED <<setup, features, isr, driver>>

Quiet == isr = "idle" /\ \A q \in QueueIds : driver[q].phase = "asleep"

(* QueueReady 0: the device forgets its place; the driver clears the rings.*)
StopQueue_KeepPlace(q) ==
    /\ Quiet
    /\ queue[q].ready
    /\ queue' = [queue EXCEPT ![q].ready = FALSE]
    /\ ring' = [ring EXCEPT ![q] = EmptyRing(q)]
    /\ driver' = [driver EXCEPT ![q] = NewDriver]
    /\ UNCHANGED <<setup, features, status, data, irq, pending, isr>>

StopQueue(q) ==
    /\ Quiet
    /\ queue[q].ready
    /\ queue' = [queue EXCEPT ![q] = NoQueue]
    /\ ring' = [ring EXCEPT ![q] = EmptyRing(q)]
    /\ driver' = [driver EXCEPT ![q] = NewDriver]
    /\ UNCHANGED <<setup, features, status, data, irq, pending, isr>>

(* QueueReset also withdraws the interrupt, whichever queue raised it: the *)
(* driver has to look at its other queues itself.                          *)
ResetQueue(q) ==
    /\ Quiet
    /\ queue[q].ready
    /\ queue' = [queue EXCEPT ![q] = NoQueue]
    /\ irq' = FALSE
    /\ pending' = FALSE
    /\ ring' = [ring EXCEPT ![q] = EmptyRing(q)]
    /\ driver' = [p \in QueueIds |->
                    IF p = q THEN NewDriver
                    ELSE [driver[p] EXCEPT !.phase = "draining"]]
    /\ UNCHANGED <<setup, features, status, data, isr>>

(* Status 0: the device is as new, except that the console keeps the bytes *)
(* typed at it.                                                            *)
Reset ==
    /\ Quiet
    /\ status # {}
    /\ features' = {}
    /\ status' = {}
    /\ queue' = [q \in QueueIds |-> NoQueue]
    /\ data' = IF device = "console" THEN data ELSE 0
    /\ irq' = FALSE
    /\ pending' = FALSE
    /\ ring' = [q \in QueueIds |-> EmptyRing(q)]
    /\ driver' = [q \in QueueIds |-> NewDriver]
    /\ UNCHANGED <<setup, isr>>

-----------------------------------------------------------------------------
(* The driver's other steps, in guest memory.                              *)

(* Post the chain h, well-formed or not, in the next slot.                 *)
Submit(q, h, bad) ==
    /\ q \in InUse
    /\ h \notin driver[q].inflight
    /\ ring' = [ring EXCEPT
                  ![q].avail[ring[q].availIdx % Num[q]] = h,
                  ![q].availIdx = (@ + 1) % IdxMod,
                  ![q].bad = IF bad THEN @ \cup {h} ELSE @ \ {h}]
    /\ driver' = [driver EXCEPT ![q].inflight = @ \cup {h}, ![q].kick = TRUE]
    /\ UNCHANGED <<devVars, isr>>

(* The interrupt handler: claim at the PLIC, ...                           *)
Claim ==
    /\ isr = "idle"
    /\ pending
    /\ pending' = FALSE
    /\ isr' = "acking"
    /\ UNCHANGED <<setup, features, status, queue, data, irq, ring, driver>>

(* ... InterruptACK, which drops the line and with it the pending bit, ... *)
Ack ==
    /\ isr = "acking"
    /\ isr' = "idle"
    /\ irq' = FALSE
    /\ pending' = FALSE
    /\ driver' = [q \in QueueIds |-> [driver[q] EXCEPT !.phase = "draining"]]
    /\ ring' = [q \in QueueIds |-> [ring[q] EXCEPT !.noInterrupt = TRUE]]
    /\ UNCHANGED <<setup, features, status, queue, data>>

(* ... and leave each queue to its collector, perhaps on another hart,     *)
(* which takes what the used ring holds, ...                               *)
Collect(q) ==
    LET h == ring[q].used[driver[q].seen % Num[q]]
    IN /\ driver[q].phase = "draining"
       /\ ring[q].usedIdx # driver[q].seen
       /\ driver' = [driver EXCEPT ![q].seen = (@ + 1) % IdxMod,
                                   ![q].inflight = @ \ {h}]
       /\ ring' = [ring EXCEPT ![q].bad = @ \ {h}]
       /\ UNCHANGED <<devVars, isr>>

(* ... ask for the next interrupt when it is empty, ...                    *)
Rearm(q) ==
    /\ driver[q].phase = "draining"
    /\ ring[q].usedIdx = driver[q].seen
    /\ driver' = [driver EXCEPT ![q].phase = "checking"]
    /\ ring' = [ring EXCEPT ![q].event = IF StandardLayout THEN @
                                         ELSE driver[q].seen,
                            ![q].noInterrupt = FALSE]
    /\ UNCHANGED <<devVars, isr>>

(* ... and look once more before it sleeps.                                *)
Check(q) ==
    /\ driver[q].phase = "checking"
    /\ driver' = [driver EXCEPT ![q].phase =
                    IF ring[q].usedIdx = driver[q].seen THEN "asleep" ELSE "draining"]
    /\ UNCHANGED <<devVars, ring, isr>>

Handler == Claim \/ Ack

Collector(q) == Collect(q) \/ Rearm(q) \/ Check(q)

Next == \/ Handler
        \/ WriteFeatures
        \/ \E bit \in {"FEATURES_OK", "DRIVER_OK"} : WriteStatus(bit)
        \/ \E q \in QueueIds :
              \/ Collector(q) \/ Notify(q)
              \/ StartQueue(q) \/ StopQueue(q) \/ ResetQueue(q)
              \/ \E h \in Slots(q), bad \in {FALSE, setup.sloppy} :
                    Submit(q, h, bad)
        \/ \E n \in 1 .. MaxData : Inject(n)
        \/ Reset

Spec == Init /\ [][Next]_vars

(* The driver's harts are scheduled: they send the notifications they owe, *)
(* take the interrupt and get on with collecting.                          *)
FairSpec == /\ Spec
            /\ WF_vars(Handler)
            /\ \A q \in QueueIds : WF_vars(Notify(q)) /\ WF_vars(Collector(q))

-----------------------------------------------------------------------------
TypeOK ==
    /\ setup \in Setups
    /\ features \in {setup.features, {}}
    /\ status \subseteq StatusBits
    /\ queue \in [QueueIds -> [ready : BOOLEAN, lastAvail : Indices]]
    /\ data \in 0 .. MaxData
    /\ irq \in BOOLEAN
    /\ pending \in BOOLEAN
    /\ DOMAIN ring = QueueIds
    /\ \A q \in QueueIds :
          ring[q] \in [availIdx : Indices, avail : [Slots(q) -> Slots(q)],
                       usedIdx : Indices, used : [Slots(q) -> Slots(q)],
                       event : Indices, noInterrupt : BOOLEAN,
                       bad : SUBSET Slots(q)]
    /\ isr \in {"idle", "acking"}
    /\ DOMAIN driver = QueueIds
    /\ \A q \in QueueIds :
          driver[q] \in [seen : Indices,
                         phase : {"asleep", "draining", "checking"},
                         inflight : SUBSET Slots(q), kick : BOOLEAN]

Unseen(q) == (ring[q].usedIdx - driver[q].seen) % IdxMod

Posted(q) == [i \in 1 .. Waiting(q) |-> HeadAt(q, i - 1)]
Done(q) == [i \in 1 .. Unseen(q) |->
              ring[q].used[((driver[q].seen + i - 1) % IdxMod) % Num[q]]]

(* Whatever the indices' wraps and the resets, every request in flight is  *)
(* in exactly one place: once in the available ring before the device, or  *)
(* once in the used ring before the driver.                                *)
EveryRequestOnce ==
    \A q \in QueueIds :
        LET all == Posted(q) \o Done(q)
        IN /\ {all[i] : i \in 1 .. Len(all)} = driver[q].inflight
           /\ \A i, j \in 1 .. Len(all) : all[i] = all[j] => i = j

(* No lost completion: a driver that sleeps on a queue with completions it *)
(* has not seen has an interrupt coming, although the device decided to    *)
(* signal from an event index or a flag the driver was changing.           *)
NoLostCompletion ==
    \A q \in QueueIds :
        driver[q].phase = "asleep" /\ Unseen(q) # 0
            => pending \/ isr = "acking"

(* The device and the driver together keep the queue's promise: requests   *)
(* complete once, in order and in the end, and completions are collected.  *)
Wanted(q) == /\ QueueReady(q)
             /\ q \in ReceiveQueues(device) => data > 0 /\ "FAILED" \notin status

Q == INSTANCE RequestQueue WITH
        Queues <- QueueIds,
        Heads <- UNION {0 .. s.num[q] - 1 : s \in Setups, q \in QueueIds},
        posted <- [q \in QueueIds |-> Posted(q)],
        done <- [q \in QueueIds |-> Done(q)],
        wanted <- [q \in QueueIds |-> Wanted(q)]

ImplementsRequestQueue == Q!Spec

(* ... and every request is completed and collected in the end.            *)
RequestsFinish == Q!Live
=============================================================================
