--------------------------- MODULE VirtqueueProofs ---------------------------
(***************************************************************************)
(* Proofs about Virtqueue, for any devices, queue sizes and index widths.  *)
(*                                                                         *)
(* Indices and slots are modular, so the ring's contents are hard to speak *)
(* about by themselves.  The inductive invariant (Places) says that the    *)
(* indices are those of three numbers that never wrap: s requests seen by  *)
(* the driver, u used by the device, a made available, with               *)
(* s <= u <= a <= s + queue size.  The p-th request is in the used ring if *)
(* p < u and in the available ring otherwise, at slot p modulo the size,   *)
(* and the requests from s to a are those in flight, each once.            *)
(***************************************************************************)
EXTENDS Virtqueue, FiniteSetTheorems, SequenceTheorems, WellFoundedInduction, TLAPS

LEMMA Division ==
    ASSUME NEW a \in Int, NEW m \in Nat \ {0}
    PROVE  \E k \in Int, r \in 0 .. m - 1 : a = m * k + r /\ a % m = r
<1>1. a \div m \in Int /\ a % m \in 0 .. m - 1 /\ a = m * (a \div m) + (a % m)
  OBVIOUS
<1> QED BY <1>1

LEMMA ModIs ==
    ASSUME NEW m \in Nat \ {0}, NEW k \in Int, NEW r \in 0 .. m - 1
    PROVE  (m * k + r) % m = r
OBVIOUS

LEMMA ModAdd ==
    ASSUME NEW a \in Int, NEW b \in Int, NEW m \in Nat \ {0}
    PROVE  ((a % m) + b) % m = (a + b) % m
<1>1. PICK k \in Int, r \in 0 .. m - 1 : a = m * k + r /\ a % m = r
  BY Division
<1>2. r + b \in Int
  OBVIOUS
<1>3. PICK l \in Int, s \in 0 .. m - 1 : r + b = m * l + s /\ (r + b) % m = s
  BY <1>2, Division
<1>4. a + b = m * (k + l) + s /\ k + l \in Int
  BY <1>1, <1>3
<1>5. (m * (k + l) + s) % m = s
  BY <1>4, ModIs
<1> QED BY <1>1, <1>3, <1>4, <1>5

LEMMA ModMod ==
    ASSUME NEW a \in Int, NEW m \in Nat \ {0}, NEW n \in Nat \ {0}, m % n = 0
    PROVE  (a % m) % n = a % n
<1>1. PICK k \in Int, r \in 0 .. m - 1 : a = m * k + r /\ a % m = r
  BY Division
<1>2. PICK j \in Int : m = n * j
  BY Division
<1> r \in Int
  OBVIOUS
<1>3. PICK i \in Int, s \in 0 .. n - 1 : r = n * i + s /\ r % n = s
  BY Division
<1>4. a = n * (j * k + i) + s /\ j * k + i \in Int
  BY <1>1, <1>2, <1>3
<1>5. (n * (j * k + i) + s) % n = s
  BY <1>4, ModIs
<1> QED BY <1>1, <1>3, <1>4, <1>5

LEMMA ModApart ==
    ASSUME NEW a \in Int, NEW b \in Int, NEW n \in Nat \ {0}, a < b, b < a + n
    PROVE  a % n # b % n
<1> SUFFICES ASSUME a % n = b % n  PROVE FALSE
  OBVIOUS
<1>1. PICK k \in Int, r \in 0 .. n - 1 : a = n * k + r /\ a % n = r
  BY Division
<1>2. PICK l \in Int, s \in 0 .. n - 1 : b = n * l + s /\ b % n = s
  BY Division
<1>3. b - a = n * (l - k)
  BY <1>1, <1>2
<1>4. l - k >= 1 => n * (l - k) >= n
  OBVIOUS
<1>5. l - k <= 0 => n * (l - k) <= 0
  OBVIOUS
<1> QED BY <1>3, <1>4, <1>5

LEMMA ModDiff ==
    ASSUME NEW a \in Int, NEW b \in Int, NEW m \in Nat \ {0}
    PROVE  (a - (b % m)) % m = (a - b) % m
<1>1. PICK k \in Int, r \in 0 .. m - 1 : b = m * k + r /\ b % m = r
  BY Division
<1> a - b \in Int
  OBVIOUS
<1>2. PICK l \in Int, s \in 0 .. m - 1 : a - b = m * l + s /\ (a - b) % m = s
  BY Division
<1>4. a - r = m * (k + l) + s /\ k + l \in Int
  BY <1>1, <1>2
<1>5. (m * (k + l) + s) % m = s
  BY <1>4, ModIs
<1> QED BY <1>1, <1>2, <1>4, <1>5
(* The distance of two numbers is that of their residues, if it is small.  *)
LEMMA ModGap ==
    ASSUME NEW m \in Nat \ {0}, NEW x \in Nat, NEW y \in Nat, y <= x, x - y < m
    PROVE  ((x % m) - (y % m)) % m = x - y
<1>1. x % m \in Int /\ x - y \in Int /\ -y \in Int /\ x \in Int /\ y \in Int
  OBVIOUS
<1>2. ((x % m) - (y % m)) % m = ((x % m) - y) % m
  BY <1>1, ModDiff, Zenon
<1>3. ((x % m) + (-y)) % m = (x + (-y)) % m
  BY <1>1, ModAdd, Zenon
<1>4. (x - y) % m = x - y
  OBVIOUS
<1>5. (x % m) + (-y) = (x % m) - y /\ x + (-y) = x - y
  BY <1>1
<1> QED BY <1>2, <1>3, <1>4, <1>5, Zenon

(* Slots modulo n and indices modulo a multiple m of n count alike.        *)
LEMMA ModOffset ==
    ASSUME NEW m \in Nat \ {0}, NEW n \in Nat \ {0}, m % n = 0, NEW p \in Int, NEW u \in Int
    PROVE  ((p % n) - (u % m)) % n = (p - u) % n
<1> DEFINE v == u % m
<1>0. v % n = u % n
  BY ModMod, Zenon
<1>1. v \in Int /\ -v \in Int /\ v % n = u % n
  BY <1>0
<1> HIDE DEF v
<1>2. ((p % n) + (-v)) % n = (p + (-v)) % n
  BY <1>1, ModAdd, Zenon
<1>3. (p - (v % n)) % n = (p - v) % n
  BY <1>1, ModDiff, Zenon
<1>4. (p - (u % n)) % n = (p - u) % n
  BY ModDiff, Zenon
<1>5. p % n \in Int /\ (p % n) + (-v) = (p % n) - v /\ p + (-v) = p - v
  BY <1>1
<1>6. ((p % n) - v) % n = (p - u) % n
  BY <1>1, <1>2, <1>3, <1>4, <1>5, Zenon
<1> QED BY <1>6 DEF v

LEMMA ModBack ==
    ASSUME NEW m \in Nat \ {0}, NEW n \in Nat \ {0}, m % n = 0, NEW p \in Int, NEW u \in Int
    PROVE  (((u % m) + ((p - u) % n)) % m) % n = p % n
<1> DEFINE j == (p - u) % n
<1>0. p - u \in Int
  OBVIOUS
<1>1. j \in Int
  BY <1>0
<1>2. (j + u) % n = ((p - u) + u) % n
  BY <1>0, ModAdd, Zenon
<1> HIDE DEF j
<1>3. ((u % m) + j) % m = (u + j) % m
  BY <1>1, ModAdd, Zenon
<1>4. u + j \in Int
  BY <1>1
<1>5. ((u + j) % m) % n = (u + j) % n
  BY <1>4, ModMod, Zenon
<1>6. (p - u) + u = p /\ j + u = u + j
  BY <1>1
<1> QED BY <1>2, <1>3, <1>5, <1>6, Zenon DEF j

(* The modulus of a small number is the number.                            *)
LEMMA ModSmall ==
    ASSUME NEW a \in Int, NEW m \in Nat \ {0}, 0 <= a, a < m
    PROVE  a % m = a
OBVIOUS

(* A non-empty set of naturals has a least element.                        *)
LEMMA LeastNumber ==
    ASSUME NEW T \in SUBSET Nat, T # {}
    PROVE  \E m \in T : \A n \in T : m <= n
<1>1. PICK m \in T : \A n \in T : <<n, m>> \notin OpToRel(<, Nat)
  BY NatLessThanWellFounded, WFMin, Zenon
<1>2. ASSUME NEW n \in T, n < m  PROVE <<n, m>> \in OpToRel(<, Nat)
  <2>1. <<n, m>> \in Nat \X Nat /\ <<n, m>>[1] < <<n, m>>[2]
    BY <1>2
  <2> QED BY <2>1, Zenon DEF OpToRel
<1>3. \A n \in T : ~(n < m)
  BY <1>1, <1>2, Zenon
<1> QED BY <1>3

-----------------------------------------------------------------------------
(* What the device looks at.                                               *)

(* The driver's choice of sizes: a queue fits in the indices' range, and   *)
(* slots wrap where indices do.                                            *)
LEMMA Sizes ==
    ASSUME TypeOK, NEW q \in QueueIds
    PROVE  /\ IdxMod \in Nat \ {0}
           /\ Num[q] \in Nat
           /\ Num[q] # 0 => Num[q] < IdxMod /\ IdxMod % Num[q] = 0
           /\ setup.features \in SUBSET {"VERSION_1", "EVENT_IDX", "OTHER"}
           /\ setup.kind \in Kinds /\ setup.sloppy \in BOOLEAN
BY VirtqueueAssumption DEF TypeOK, Setup, IdxMod, Num

(* A ring of which TypeOK holds.                                           *)
RingType(q) == [availIdx : Indices, avail : [Slots(q) -> Slots(q)],
                usedIdx : Indices, used : [Slots(q) -> Slots(q)],
                event : Indices, noInterrupt : BOOLEAN, bad : SUBSET Slots(q)]

LEMMA Typed ==
    ASSUME TypeOK, NEW q \in QueueIds
    PROVE  /\ queue[q] \in [ready : BOOLEAN, lastAvail : Indices]
           /\ ring[q] \in RingType(q)
           /\ driver[q] \in [seen : Indices, phase : {"asleep", "draining", "checking"},
                             inflight : SUBSET Slots(q), kick : BOOLEAN]
           /\ Indices \subseteq Int /\ 0 \in Indices
BY Sizes DEF TypeOK, Indices, RingType

LEMMA WaitingRange ==
    ASSUME TypeOK, NEW q \in QueueIds
    PROVE  Waiting(q) \in Nat
<1>1. ring[q].availIdx - queue[q].lastAvail \in Int
  BY Typed DEF RingType
<1> QED BY <1>1, Sizes DEF Waiting

(* The loop over a queue completes no more chains than are waiting,        *)
(* however it ends.                                                        *)
LEMMA GoodRunRange ==
    ASSUME TypeOK, NEW q \in QueueIds
    PROVE  GoodRun(q) \in 0 .. Waiting(q)
<1> DEFINE Bad == {i \in 0 .. Waiting(q) - 1 : BadAt(q, i)}
<1>1. CASE Bad = {}
  BY <1>1, WaitingRange DEF GoodRun
<1>2. CASE Bad # {}
  <2>1. Bad \in SUBSET Nat
    BY WaitingRange
  <2>2. PICK m \in Bad : \A n \in Bad : m <= n
    BY <1>2, <2>1, LeastNumber
  <2>3. \A j \in 0 .. m - 1 : ~BadAt(q, j)
    <3> SUFFICES ASSUME NEW j \in 0 .. m - 1, BadAt(q, j)  PROVE FALSE
      OBVIOUS
    <3>1. j \in Bad
      BY <2>2, WaitingRange
    <3> QED BY <2>2, <3>1
  <2>4. \E i \in 0 .. Waiting(q) - 1 : BadAt(q, i) /\ \A j \in 0 .. i - 1 : ~BadAt(q, j)
    BY <2>2, <2>3
  <2>5. GoodRun(q) \in 0 .. Waiting(q) - 1
    BY <2>4, Zenon DEF GoodRun
  <2> QED BY <2>5, WaitingRange
<1> QED BY <1>1, <1>2

LEMMA NeededRange ==
    ASSUME NEW d \in Nat
    PROVE  Needed(d) \in Nat /\ Fit \in Nat \ {0}
<1>1. Fit \in Nat \ {0}
  BY VirtqueueAssumption DEF Fit
<1>2. ASSUME NEW f \in Nat \ {0}  PROVE (d + f - 1) \div f \in Nat
  <2>1. d + f - 1 \in Nat
    OBVIOUS
  <2> QED BY <2>1
<1> QED BY <1>1, <1>2 DEF Needed

LEMMA ServedRange ==
    ASSUME TypeOK, NEW q \in QueueIds, NEW d \in Nat
    PROVE  Served(q, d) \in 0 .. Waiting(q)
<1>1. CASE q \notin ReceiveQueues(device)
  BY <1>1, WaitingRange DEF Served, RequestServed
<1>2. CASE q \in ReceiveQueues(device)
  <2>1. Lesser(Waiting(q), Needed(d)) \in 0 .. Waiting(q)
    BY WaitingRange, NeededRange DEF Lesser
  <2>2. MeetsBad(q, d) => GoodRun(q) + 1 \in 0 .. Waiting(q) /\ GoodRun(q) \in 0 .. Waiting(q)
    BY <2>1, GoodRunRange, WaitingRange DEF MeetsBad
  <2>3. ReceiveServed(q, d) \in 0 .. Waiting(q)
    BY <2>1, <2>2 DEF ReceiveServed
  <2> QED BY <1>2, <2>3 DEF Served
<1> QED BY <1>1, <1>2

(* A visit uses up no more data than there are.                            *)
LEMMA ConsumedRange ==
    ASSUME TypeOK, NEW q \in QueueIds, NEW d \in Nat
    PROVE  Consumed(q, d) \in 0 .. d
<1> DEFINE n == Lesser(GoodRun(q), Needed(d))
<1>1. n \in Nat
  BY GoodRunRange, WaitingRange, NeededRange DEF Lesser
<1>2. Fit \in Nat
  BY NeededRange
<1> HIDE DEF n
<1>3. Fit * n \in Nat
  BY <1>1, <1>2
<1>4. Lesser(d, Fit * n) \in 0 .. d
  BY <1>3 DEF Lesser
<1> QED BY <1>4 DEF Consumed, n

-----------------------------------------------------------------------------
(* What a visit does.                                                      *)

(* The effect of publishing n heads, field by field.                       *)
LEMMA PublishIs ==
    ASSUME TypeOK, NEW q \in QueueIds, NEW n \in Nat
    PROVE  /\ Publish(q, n).availIdx = ring[q].availIdx
           /\ Publish(q, n).avail = ring[q].avail
           /\ Publish(q, n).event = ring[q].event
           /\ Publish(q, n).noInterrupt = ring[q].noInterrupt
           /\ Publish(q, n).usedIdx = (ring[q].usedIdx + n) % IdxMod
           /\ Publish(q, n).used =
                 [s \in Slots(q) |->
                    IF (s - ring[q].usedIdx) % Num[q] < n
                    THEN HeadAt(q, (s - ring[q].usedIdx) % Num[q]) ELSE ring[q].used[s]]
           /\ Publish(q, n).bad = ring[q].bad
BY Typed DEF Publish, RingType

LEMMA PublishTyped ==
    ASSUME TypeOK, NEW q \in QueueIds, NEW n \in Nat
    PROVE  Publish(q, n) \in RingType(q)
<1>1. (ring[q].usedIdx + n) % IdxMod \in Indices
  <2>1. ring[q].usedIdx + n \in Int
    BY Typed DEF RingType
  <2> QED BY <2>1, Sizes DEF Indices
<1>2. ASSUME NEW s \in Slots(q)
      PROVE  (IF (s - ring[q].usedIdx) % Num[q] < n
              THEN HeadAt(q, (s - ring[q].usedIdx) % Num[q]) ELSE ring[q].used[s]) \in Slots(q)
  <2> DEFINE i == (s - ring[q].usedIdx) % Num[q]
             j == (queue[q].lastAvail + i) % IdxMod
  <2>1. Num[q] \in Nat \ {0}
    BY Sizes DEF Slots
  <2>2. s - ring[q].usedIdx \in Int
    BY Typed DEF Slots, RingType
  <2>3. i \in Int
    BY <2>1, <2>2
  <2> HIDE DEF i
  <2>4. queue[q].lastAvail + i \in Int
    BY <2>3, Typed
  <2>5. j \in Int
    BY <2>4, Sizes
  <2> HIDE DEF j
  <2>6. j % Num[q] \in Slots(q)
    BY <2>1, <2>5 DEF Slots
  <2>7. HeadAt(q, i) = ring[q].avail[j % Num[q]]
    BY DEF HeadAt, j
  <2>8. HeadAt(q, i) \in Slots(q) /\ ring[q].used[s] \in Slots(q)
    BY <2>6, <2>7, Typed DEF RingType
  <2> QED BY <2>8 DEF i
<1> DEFINE U == [s \in Slots(q) |->
                    IF (s - ring[q].usedIdx) % Num[q] < n
                    THEN HeadAt(q, (s - ring[q].usedIdx) % Num[q]) ELSE ring[q].used[s]]
<1>3. U \in [Slots(q) -> Slots(q)]
  BY <1>2
<1>4. Publish(q, n) = [ring[q] EXCEPT !.used = U, !.usedIdx = (ring[q].usedIdx + n) % IdxMod]
  BY Typed DEF Publish, RingType
<1> HIDE DEF U
<1> QED BY <1>1, <1>3, <1>4, Typed DEF RingType

(* A visit serves each queue, perhaps with nothing: it publishes n of the  *)
(* waiting chains and moves on by n, and raises the interrupt if one of    *)
(* them asks for it.                                                       *)
Serves(q) ==
    /\ \E n \in 0 .. Waiting(q) :
          /\ queue'[q].lastAvail = (queue[q].lastAvail + n) % IdxMod
          /\ ring'[q] = Publish(q, n)
          /\ n # 0 /\ ShouldInterrupt(q, n) => pending'
    /\ pending => pending'

LEMMA VisitServes ==
    ASSUME TypeOK, NEW S, NEW st \in SUBSET StatusBits, NEW qs, NEW d \in 0 .. MaxData,
           qs \in [QueueIds -> [ready : BOOLEAN, lastAvail : Indices]],
           \A q \in QueueIds : qs[q].lastAvail = queue[q].lastAvail,
           Visit(S, st, qs, d)
    PROVE  /\ \A q \in QueueIds : Serves(q)
           /\ queue' \in [QueueIds -> [ready : BOOLEAN, lastAvail : Indices]]
           /\ DOMAIN ring' = QueueIds
           /\ \A q \in QueueIds : ring'[q] \in RingType(q)
           /\ data' \in 0 .. MaxData
           /\ status' \subseteq StatusBits
           /\ irq' \in BOOLEAN /\ pending' \in BOOLEAN
<1> DEFINE Live == {q \in S \cap InUse : "DRIVER_OK" \in st /\ qs[q].ready}
           N(q) == IF q \in Live THEN Served(q, d) ELSE 0
           Signal == \E q \in Live : ShouldInterrupt(q, N(q))
<1>1. /\ ring' = [q \in QueueIds |-> Publish(q, N(q))]
      /\ queue' = [q \in QueueIds |-> [qs[q] EXCEPT !.lastAvail = (@ + N(q)) % IdxMod]]
      /\ data' = d - (IF 0 \in Live THEN Consumed(0, d) ELSE 0)
      /\ status' = IF \E q \in Live : Fails(q, d) THEN st \cup {"FAILED"} ELSE st
      /\ irq' = (irq \/ Signal)
      /\ pending' = (pending \/ Signal)
  BY Zenon DEF Visit
<1> MaxData \in Nat /\ d \in Nat
  BY VirtqueueAssumption
<1>2. \A q \in QueueIds : N(q) \in 0 .. Waiting(q) /\ N(q) \in Nat /\ (N(q) # 0 => q \in Live)
  BY ServedRange, WaitingRange
<1>3. \A q \in QueueIds : N(q) # 0 /\ ShouldInterrupt(q, N(q)) => Signal
  BY <1>2
<1>4. Signal \in BOOLEAN
  OBVIOUS
<1> HIDE DEF Live, N, Signal
<1>5. ASSUME NEW q \in QueueIds
      PROVE  /\ queue'[q] = [qs[q] EXCEPT !.lastAvail = (qs[q].lastAvail + N(q)) % IdxMod]
             /\ queue'[q].lastAvail = (queue[q].lastAvail + N(q)) % IdxMod
             /\ (queue[q].lastAvail + N(q)) % IdxMod \in Indices
             /\ ring'[q] = Publish(q, N(q))
  <2>1. queue[q].lastAvail + N(q) \in Int
    BY <1>2, Typed
  <2>2. (queue[q].lastAvail + N(q)) % IdxMod \in Indices
    BY <2>1, Sizes DEF Indices
  <2> QED BY <1>1, <2>2
<1>6. \A q \in QueueIds : Serves(q)
  BY <1>1, <1>2, <1>3, <1>5, Zenon DEF Serves
<1>7. queue' \in [QueueIds -> [ready : BOOLEAN, lastAvail : Indices]]
  <2>1. \A q \in QueueIds : queue'[q] \in [ready : BOOLEAN, lastAvail : Indices]
    BY <1>5
  <2> QED BY <1>1, <2>1
<1>8. \A q \in QueueIds : ring'[q] \in RingType(q)
  <2> SUFFICES ASSUME NEW q \in QueueIds  PROVE ring'[q] \in RingType(q)
    OBVIOUS
  <2>1. N(q) \in Nat /\ ring'[q] = Publish(q, N(q))
    BY <1>2, <1>5
  <2>2. \A n \in Nat : Publish(q, n) \in RingType(q)
    BY PublishTyped
  <2> QED BY <2>1, <2>2, Zenon
<1>9. data' \in 0 .. MaxData
  <2>1. Consumed(0, d) \in 0 .. d
    BY ConsumedRange DEF QueueIds
  <2> QED BY <1>1, <2>1
<1>10. status' \subseteq StatusBits
  BY <1>1 DEF StatusBits
<1>11. irq' \in BOOLEAN /\ pending' \in BOOLEAN
  BY <1>1, <1>4 DEF TypeOK
<1> QED BY <1>1, <1>6, <1>7, <1>8, <1>9, <1>10, <1>11

-----------------------------------------------------------------------------
(* Type correctness.                                                       *)

LEMMA FreshTyped ==
    ASSUME TypeOK, NEW q \in QueueIds
    PROVE  /\ EmptyRing(q) \in RingType(q)
           /\ NewDriver \in [seen : Indices, phase : {"asleep", "draining", "checking"},
                             inflight : SUBSET Slots(q), kick : BOOLEAN]
           /\ NoQueue \in [ready : BOOLEAN, lastAvail : Indices]
<1>1. 0 \in Indices /\ [s \in Slots(q) |-> 0] \in [Slots(q) -> Slots(q)]
  BY Typed, Sizes DEF Slots
<1> QED BY <1>1 DEF EmptyRing, RingType, NewDriver, NoQueue

DriverType(q) == [seen : Indices, phase : {"asleep", "draining", "checking"},
                  inflight : SUBSET Slots(q), kick : BOOLEAN]

(* The types, with the parts of a queue named.                             *)
LEMMA TypeOKIs ==
    TypeOK <=> /\ setup \in Setups
               /\ features \in {setup.features, {}}
               /\ status \subseteq StatusBits
               /\ queue \in [QueueIds -> [ready : BOOLEAN, lastAvail : Indices]]
               /\ data \in 0 .. MaxData
               /\ irq \in BOOLEAN
               /\ pending \in BOOLEAN
               /\ DOMAIN ring = QueueIds
               /\ \A q \in QueueIds : ring[q] \in RingType(q)
               /\ isr \in {"idle", "acking"}
               /\ DOMAIN driver = QueueIds
               /\ \A q \in QueueIds : driver[q] \in DriverType(q)
BY DEF TypeOK, RingType, DriverType

(* The device and the driver stay what they are, and with them the sizes.  *)
LEMMA SetupStays == [Next]_vars => setup' = setup
BY DEF Next, vars, devVars, Handler, Collector, Claim, Ack, WriteFeatures, WriteStatus,
       Collect, Rearm, Check, Notify, StartQueue, StopQueue, ResetQueue, Submit, Inject, Reset

LEMMA SizesStay ==
    ASSUME setup' = setup
    PROVE  /\ IdxMod' = IdxMod /\ Num' = Num /\ Indices' = Indices /\ InUse' = InUse
           /\ \A q : Slots(q)' = Slots(q) /\ RingType(q)' = RingType(q)
                                         /\ DriverType(q)' = DriverType(q)
BY DEF IdxMod, Num, Indices, Slots, RingType, DriverType, InUse, device

LEMMA TypeOKNext == TypeOK /\ [Next]_vars => TypeOK'
<1> SUFFICES ASSUME TypeOK, [Next]_vars  PROVE TypeOK'
  OBVIOUS
<1> DEFINE QueueTyped == queue' \in [QueueIds -> [ready : BOOLEAN, lastAvail : Indices]]
           RingTyped == /\ DOMAIN ring' = QueueIds
                        /\ \A q \in QueueIds : ring'[q] \in RingType(q)
           DriverTyped == /\ DOMAIN driver' = QueueIds
                          /\ \A q \in QueueIds : driver'[q] \in DriverType(q)
           Rest == /\ features' \in {setup.features, {}} /\ status' \subseteq StatusBits
                   /\ data' \in 0 .. MaxData /\ irq' \in BOOLEAN /\ pending' \in BOOLEAN
                   /\ isr' \in {"idle", "acking"}
<1>0. setup' = setup
  BY SetupStays
<1>s. QueueTyped /\ RingTyped /\ DriverTyped /\ Rest => TypeOK'
  BY <1>0, SizesStay, TypeOKIs DEF TypeOK, RingType, DriverType
<1>t. /\ queue \in [QueueIds -> [ready : BOOLEAN, lastAvail : Indices]]
      /\ \A q \in QueueIds : ring[q] \in RingType(q)
      /\ \A q \in QueueIds : driver[q] \in DriverType(q)
      /\ DOMAIN ring = QueueIds /\ DOMAIN driver = QueueIds
      /\ features \in {setup.features, {}} /\ status \subseteq StatusBits
      /\ data \in 0 .. MaxData /\ irq \in BOOLEAN /\ pending \in BOOLEAN
      /\ isr \in {"idle", "acking"}
  BY TypeOKIs
<1>f. \A q \in QueueIds : /\ EmptyRing(q) \in RingType(q) /\ NewDriver \in DriverType(q)
                          /\ NoQueue \in [ready : BOOLEAN, lastAvail : Indices]
  BY FreshTyped DEF DriverType
<1>1. CASE Claim
  BY <1>1, <1>s, <1>t DEF Claim
<1>2. CASE Ack
  <2>1. \A q \in QueueIds : /\ [driver[q] EXCEPT !.phase = "draining"] \in DriverType(q)
                            /\ [ring[q] EXCEPT !.noInterrupt = TRUE] \in RingType(q)
    BY <1>t DEF DriverType, RingType
  <2>2. DriverTyped /\ RingTyped
    BY <1>2, <2>1 DEF Ack
  <2> QED BY <1>2, <1>s, <1>t, <2>2 DEF Ack
<1>3. CASE WriteFeatures
  BY <1>3, <1>s, <1>t DEF WriteFeatures
<1>4. ASSUME NEW bit \in {"FEATURES_OK", "DRIVER_OK"}, WriteStatus(bit)  PROVE TypeOK'
  <2>1. Negotiated(status \cup {bit}) \in SUBSET StatusBits
    BY <1>t DEF Negotiated, StatusBits
  <2>2. QueueTyped /\ RingTyped /\ Rest
    BY <1>4, <1>t, <2>1, VisitServes DEF WriteStatus
  <2> QED BY <1>4, <1>s, <1>t, <2>2 DEF WriteStatus
<1>5. ASSUME NEW q \in QueueIds, StartQueue(q)  PROVE TypeOK'
  <2> DEFINE qs == [queue EXCEPT ![q].ready = TRUE]
  <2>1. /\ qs \in [QueueIds -> [ready : BOOLEAN, lastAvail : Indices]]
        /\ \A p \in QueueIds : qs[p].lastAvail = queue[p].lastAvail
    BY <1>t
  <2>2. Visit(ReadyScans(device, q), status, qs, data)
    BY <1>5 DEF StartQueue
  <2> HIDE DEF qs
  <2>3. QueueTyped /\ RingTyped /\ Rest
    BY <1>5, <1>t, <2>1, <2>2, VisitServes DEF StartQueue
  <2> QED BY <1>5, <1>s, <1>t, <2>3 DEF StartQueue
<1>6. ASSUME NEW q \in QueueIds, Notify(q)  PROVE TypeOK'
  <2>1. QueueTyped /\ RingTyped /\ Rest
    BY <1>6, <1>t, VisitServes DEF Notify
  <2>2. DriverTyped
    BY <1>6, <1>t DEF Notify, DriverType
  <2> QED BY <1>s, <2>1, <2>2
<1>7. ASSUME NEW n \in 1 .. MaxData, Inject(n)  PROVE TypeOK'
  <2>1. data + n \in 0 .. MaxData
    BY <1>7, <1>t, VirtqueueAssumption DEF Inject
  <2>2. QueueTyped /\ RingTyped /\ Rest
    BY <1>7, <1>t, <2>1, VisitServes DEF Inject
  <2> QED BY <1>7, <1>s, <1>t, <2>2 DEF Inject
<1>8. ASSUME NEW q \in QueueIds, StopQueue(q)  PROVE TypeOK'
  BY <1>8, <1>s, <1>t, <1>f DEF StopQueue
<1>9. ASSUME NEW q \in QueueIds, ResetQueue(q)  PROVE TypeOK'
  <2>1. \A p \in QueueIds : [driver[p] EXCEPT !.phase = "draining"] \in DriverType(p)
    BY <1>t DEF DriverType
  <2>2. DriverTyped
    BY <1>9, <2>1, <1>f DEF ResetQueue
  <2> QED BY <1>9, <1>s, <1>t, <1>f, <2>2 DEF ResetQueue
<1>10. CASE Reset
  <2>1. data' \in 0 .. MaxData
    BY <1>10, <1>t, VirtqueueAssumption DEF Reset
  <2> QED BY <1>10, <1>s, <1>t, <1>f, <2>1 DEF Reset
<1>11. ASSUME NEW q \in QueueIds, NEW h \in Slots(q), NEW bad \in {FALSE, setup.sloppy},
              Submit(q, h, bad)
       PROVE  TypeOK'
  <2>1. ring[q].availIdx + 1 \in Int /\ ring[q].availIdx \in Int
    BY Typed DEF RingType
  <2>2. (ring[q].availIdx + 1) % IdxMod \in Indices
    BY <2>1, Sizes DEF Indices
  <2> DEFINE a == [ring[q].avail EXCEPT ![ring[q].availIdx % Num[q]] = h]
             b == IF bad THEN ring[q].bad \cup {h} ELSE ring[q].bad \ {h}
  <2>5. /\ ring' = [ring EXCEPT ![q] = [ring[q] EXCEPT
                        !.avail = a, !.availIdx = (ring[q].availIdx + 1) % IdxMod, !.bad = b]]
        /\ a \in [Slots(q) -> Slots(q)] /\ b \in SUBSET Slots(q)
    BY <1>11, <1>t DEF Submit, RingType
  <2> HIDE DEF a, b
  <2>3. RingTyped
    BY <1>t, <2>2, <2>5 DEF RingType
  <2>4. DriverTyped
    BY <1>11, <1>t DEF Submit, DriverType
  <2> QED BY <1>11, <1>s, <1>t, <2>3, <2>4 DEF Submit, devVars
<1>12. ASSUME NEW q \in QueueIds, Collect(q)  PROVE TypeOK'
  <2>1. (driver[q].seen + 1) % IdxMod \in Indices
    BY Typed, Sizes DEF Indices
  <2>2. DriverTyped
    BY <1>12, <1>t, <2>1 DEF Collect, DriverType
  <2> DEFINE b == ring[q].bad \ {ring[q].used[driver[q].seen % Num[q]]}
  <2>4. ring' = [ring EXCEPT ![q] = [ring[q] EXCEPT !.bad = b]] /\ b \in SUBSET Slots(q)
    BY <1>12, <1>t DEF Collect, RingType
  <2> HIDE DEF b
  <2>3. RingTyped
    BY <1>t, <2>4 DEF RingType
  <2> QED BY <1>12, <1>s, <1>t, <2>2, <2>3 DEF Collect, devVars
<1>13. ASSUME NEW q \in QueueIds, Rearm(q)  PROVE TypeOK'
  <2> DEFINE e == IF StandardLayout THEN ring[q].event ELSE driver[q].seen
  <2>3. e \in Indices
    BY <1>t DEF RingType, DriverType
  <2>4. ring' = [ring EXCEPT ![q] = [ring[q] EXCEPT !.event = e, !.noInterrupt = FALSE]]
    BY <1>13, <1>t DEF Rearm, RingType
  <2> HIDE DEF e
  <2>1. RingTyped
    BY <1>t, <2>3, <2>4 DEF RingType
  <2>2. DriverTyped
    BY <1>13, <1>t DEF Rearm, DriverType
  <2> QED BY <1>13, <1>s, <1>t, <2>1, <2>2 DEF Rearm, devVars
<1>14. ASSUME NEW q \in QueueIds, Check(q)  PROVE TypeOK'
  <2> DEFINE p == IF ring[q].usedIdx = driver[q].seen THEN "asleep" ELSE "draining"
  <2>1. driver' = [driver EXCEPT ![q] = [driver[q] EXCEPT !.phase = p]]
    BY <1>14, <1>t DEF Check
  <2>2. p \in {"asleep", "draining"}
    OBVIOUS
  <2> HIDE DEF p
  <2>3. DriverTyped
    BY <1>t, <2>1, <2>2 DEF DriverType
  <2> QED BY <1>14, <1>s, <1>t, <2>3 DEF Check, devVars
<1>15. CASE UNCHANGED vars
  BY <1>15, <1>s, <1>t DEF vars
<1> QED
  BY <1>1, <1>2, <1>3, <1>4, <1>5, <1>6, <1>7, <1>8, <1>9, <1>10, <1>11, <1>12, <1>13,
     <1>14, <1>15, Zenon
  DEF Next, Handler, Collector

LEMMA TypeOKInit == Init => TypeOK
<1> SUFFICES ASSUME Init  PROVE TypeOK
  OBVIOUS
<1>1. IdxMod \in Nat \ {0} /\ (\A q \in QueueIds : Num[q] \in Nat) /\ MaxData \in Nat
  BY VirtqueueAssumption DEF Init, Setup, IdxMod, Num
<1>2. 0 \in Indices
  BY <1>1 DEF Indices
<1>3. \A q \in QueueIds : [s \in Slots(q) |-> 0] \in [Slots(q) -> Slots(q)]
  BY <1>1 DEF Slots
<1>4. \A q \in QueueIds : EmptyRing(q) \in RingType(q) /\ NewDriver \in DriverType(q)
  BY <1>2, <1>3 DEF EmptyRing, RingType, NewDriver, DriverType
<1>5. NoQueue \in [ready : BOOLEAN, lastAvail : Indices]
  BY <1>2 DEF NoQueue
<1>6. /\ setup \in Setups /\ features = {} /\ status = {} /\ data \in 0 .. MaxData
      /\ irq = FALSE /\ pending = FALSE /\ isr = "idle"
  BY <1>1 DEF Init
<1>7. queue \in [QueueIds -> [ready : BOOLEAN, lastAvail : Indices]]
  BY <1>5 DEF Init
<1>8. /\ DOMAIN ring = QueueIds /\ \A q \in QueueIds : ring[q] \in RingType(q)
      /\ DOMAIN driver = QueueIds /\ \A q \in QueueIds : driver[q] \in DriverType(q)
  BY <1>4 DEF Init
<1> QED BY <1>6, <1>7, <1>8, TypeOKIs

(* Type correctness: whatever devices, drivers and hosts do, indices stay  *)
(* below the modulus, slots hold descriptors of the queue, and the host    *)
(* data stay within their bound (TypeOK).                                  *)
THEOREM TypeCorrect == Spec => []TypeOK
BY TypeOKInit, TypeOKNext, PTL DEF Spec

-----------------------------------------------------------------------------
(* What a step does to the requests of a queue: one of five kinds.         *)

SameRequests(q) == driver'[q].seen = driver[q].seen
                   /\ driver'[q].inflight = driver[q].inflight

SameRing(q) == /\ ring'[q].availIdx = ring[q].availIdx /\ ring'[q].avail = ring[q].avail
               /\ ring'[q].usedIdx = ring[q].usedIdx /\ ring'[q].used = ring[q].used

Untouched(q) ==
    /\ queue'[q].lastAvail = queue[q].lastAvail
    /\ SameRing(q)
    /\ SameRequests(q)

Drops(q) == queue'[q] = NoQueue /\ ring'[q] = EmptyRing(q) /\ driver'[q] = NewDriver

Posts(q, h) ==
    /\ q \in InUse
    /\ h \in Slots(q) \ driver[q].inflight
    /\ queue'[q].lastAvail = queue[q].lastAvail
    /\ ring'[q].avail = [ring[q].avail EXCEPT ![ring[q].availIdx % Num[q]] = h]
    /\ ring'[q].availIdx = (ring[q].availIdx + 1) % IdxMod
    /\ ring'[q].usedIdx = ring[q].usedIdx /\ ring'[q].used = ring[q].used
    /\ driver'[q].seen = driver[q].seen
    /\ driver'[q].inflight = driver[q].inflight \cup {h}

Collects(q) ==
    /\ ring[q].usedIdx # driver[q].seen
    /\ queue'[q].lastAvail = queue[q].lastAvail
    /\ SameRing(q)
    /\ driver'[q].seen = (driver[q].seen + 1) % IdxMod
    /\ driver'[q].inflight = driver[q].inflight \ {ring[q].used[driver[q].seen % Num[q]]}

(* The device serves its queues, or the driver posts or collects one       *)
(* request, or some queues are dropped.                                    *)
StepOfAKind ==
    \/ (\A q \in QueueIds : Serves(q) /\ SameRequests(q))
    \/ \E q \in QueueIds : \E h \in Slots(q) :
          Posts(q, h) /\ \A p \in QueueIds \ {q} : Untouched(p)
    \/ \E q \in QueueIds : Collects(q) /\ \A p \in QueueIds \ {q} : Untouched(p)
    \/ \E D \in SUBSET QueueIds :
          \A q \in QueueIds : IF q \in D THEN Drops(q) ELSE Untouched(q)

LEMMA NothingDropped ==
    ASSUME \A q \in QueueIds : Untouched(q)
    PROVE  StepOfAKind
<1>1. {} \in SUBSET QueueIds /\ \A q \in QueueIds : q \notin {}
  OBVIOUS
<1> QED BY <1>1, Zenon DEF StepOfAKind

LEMMA ReadyTyped ==
    ASSUME queue \in [QueueIds -> [ready : BOOLEAN, lastAvail : Indices]], NEW q \in QueueIds
    PROVE  LET qs == [queue EXCEPT ![q].ready = TRUE]
           IN  /\ qs \in [QueueIds -> [ready : BOOLEAN, lastAvail : Indices]]
               /\ \A p \in QueueIds : qs[p].lastAvail = queue[p].lastAvail
OBVIOUS

LEMMA StepKinds == TypeOK /\ [Next]_vars => StepOfAKind
<1> SUFFICES ASSUME TypeOK, [Next]_vars  PROVE StepOfAKind
  OBVIOUS
<1>t. /\ queue \in [QueueIds -> [ready : BOOLEAN, lastAvail : Indices]]
      /\ \A q \in QueueIds : ring[q] \in RingType(q)
      /\ \A q \in QueueIds : driver[q] \in DriverType(q)
      /\ DOMAIN ring = QueueIds /\ DOMAIN driver = QueueIds
      /\ status \in SUBSET StatusBits /\ data \in 0 .. MaxData
  BY TypeOKIs
<1> USE DEF Untouched, SameRing, SameRequests, RingType, DriverType
<1>1. CASE Claim
  BY <1>1, NothingDropped DEF Claim
<1>2. CASE Ack
  BY <1>2, <1>t, NothingDropped DEF Ack
<1>3. CASE WriteFeatures
  BY <1>3, NothingDropped DEF WriteFeatures
<1>4. ASSUME NEW bit \in {"FEATURES_OK", "DRIVER_OK"}, WriteStatus(bit)  PROVE StepOfAKind
  <2>1. Negotiated(status \cup {bit}) \in SUBSET StatusBits
    BY <1>t DEF Negotiated, StatusBits
  <2>2. \A q \in QueueIds : Serves(q)
    BY <1>4, <1>t, <2>1, VisitServes DEF WriteStatus
  <2> QED BY <1>4, <2>2 DEF WriteStatus, StepOfAKind
<1>5. ASSUME NEW q \in QueueIds, StartQueue(q)  PROVE StepOfAKind
  <2> DEFINE qs == [queue EXCEPT ![q].ready = TRUE]
  <2>1. /\ qs \in [QueueIds -> [ready : BOOLEAN, lastAvail : Indices]]
        /\ \A p \in QueueIds : qs[p].lastAvail = queue[p].lastAvail
    BY <1>t, ReadyTyped, Zenon
  <2>2. Visit(ReadyScans(device, q), status, qs, data)
    BY <1>5 DEF StartQueue
  <2> HIDE DEF qs
  <2>3. \A p \in QueueIds : Serves(p)
    BY <1>t, <2>1, <2>2, VisitServes
  <2> QED BY <1>5, <2>3 DEF StartQueue, StepOfAKind
<1>6. ASSUME NEW q \in QueueIds, Notify(q)  PROVE StepOfAKind
  <2>1. \A p \in QueueIds : Serves(p)
    BY <1>6, <1>t, VisitServes DEF Notify
  <2>2. \A p \in QueueIds : SameRequests(p)
    BY <1>6, <1>t DEF Notify
  <2> QED BY <2>1, <2>2 DEF StepOfAKind
<1>7. ASSUME NEW n \in 1 .. MaxData, Inject(n)  PROVE StepOfAKind
  <2>1. data + n \in 0 .. MaxData
    BY <1>7, <1>t, VirtqueueAssumption DEF Inject
  <2>2. \A q \in QueueIds : Serves(q)
    BY <1>7, <1>t, <2>1, VisitServes DEF Inject
  <2> QED BY <1>7, <2>2 DEF Inject, StepOfAKind
<1>8. ASSUME NEW q \in QueueIds, StopQueue(q)  PROVE StepOfAKind
  <2>1. {q} \in SUBSET QueueIds /\ Drops(q) /\ \A p \in QueueIds \ {q} : Untouched(p)
    BY <1>8, <1>t DEF StopQueue, Drops
  <2> QED BY <2>1 DEF StepOfAKind
<1>9. ASSUME NEW q \in QueueIds, ResetQueue(q)  PROVE StepOfAKind
  <2>1. {q} \in SUBSET QueueIds /\ Drops(q) /\ \A p \in QueueIds \ {q} : Untouched(p)
    BY <1>9, <1>t DEF ResetQueue, Drops
  <2> QED BY <2>1 DEF StepOfAKind
<1>10. CASE Reset
  <2>1. \A q \in QueueIds : Drops(q)
    BY <1>10 DEF Reset, Drops
  <2> QED BY <2>1 DEF StepOfAKind
<1>11. ASSUME NEW q \in QueueIds, NEW h \in Slots(q), NEW bad \in {FALSE, setup.sloppy},
              Submit(q, h, bad)
       PROVE  StepOfAKind
  <2>1. Posts(q, h)
    BY <1>11, <1>t DEF Submit, devVars, Posts
  <2>2. \A p \in QueueIds \ {q} : Untouched(p)
    BY <1>11, <1>t DEF Submit, devVars
  <2> QED BY <2>1, <2>2 DEF StepOfAKind
<1>12. ASSUME NEW q \in QueueIds, Collect(q)  PROVE StepOfAKind
  <2>1. Collects(q)
    BY <1>12, <1>t DEF Collect, devVars, Collects
  <2>2. \A p \in QueueIds \ {q} : Untouched(p)
    BY <1>12, <1>t DEF Collect, devVars
  <2> QED BY <2>1, <2>2 DEF StepOfAKind
<1>13. ASSUME NEW q \in QueueIds, Rearm(q)  PROVE StepOfAKind
  BY <1>13, <1>t, NothingDropped DEF Rearm, devVars
<1>14. ASSUME NEW q \in QueueIds, Check(q)  PROVE StepOfAKind
  BY <1>14, <1>t, NothingDropped DEF Check, devVars
<1>15. CASE UNCHANGED vars
  BY <1>15, NothingDropped DEF vars
<1> QED
  BY <1>1, <1>2, <1>3, <1>4, <1>5, <1>6, <1>7, <1>8, <1>9, <1>10, <1>11, <1>12, <1>13,
     <1>14, <1>15, Zenon
  DEF Next, Handler, Collector

-----------------------------------------------------------------------------
(* The inductive invariant.                                                *)

Counts(q, s, u, a) ==
    /\ s <= u /\ u <= a /\ a <= s + Num[q]
    /\ driver[q].seen = s % IdxMod
    /\ ring[q].usedIdx = u % IdxMod
    /\ queue[q].lastAvail = u % IdxMod
    /\ ring[q].availIdx = a % IdxMod

Request(q, u, p) == IF p < u THEN ring[q].used[p % Num[q]] ELSE ring[q].avail[p % Num[q]]

Placed(q, s, u, a) ==
    /\ \A p \in s .. a - 1 : Request(q, u, p) \in driver[q].inflight
    /\ \A h \in driver[q].inflight : \E p \in s .. a - 1 : Request(q, u, p) = h
    /\ \A p, r \in s .. a - 1 : Request(q, u, p) = Request(q, u, r) => p = r

Places(q) == \E s, u, a \in Nat : Counts(q, s, u, a) /\ Placed(q, s, u, a)

InPlace == \A q \in QueueIds : Places(q)

(* The indices' difference is the number of requests between them.         *)
LEMMA WaitingIs ==
    ASSUME TypeOK, NEW q \in QueueIds, NEW s \in Nat, NEW u \in Nat, NEW a \in Nat,
           Counts(q, s, u, a)
    PROVE  Waiting(q) = a - u /\ Unseen(q) = u - s
<1>1. IdxMod \in Nat \ {0} /\ Num[q] \in Nat /\ (Num[q] = 0 \/ Num[q] < IdxMod)
  BY Sizes
<1>2. s <= u /\ u <= a /\ a <= s + Num[q]
  BY DEF Counts
<1>3. a - u < IdxMod /\ u - s < IdxMod
  BY <1>1, <1>2
<1>4. ((a % IdxMod) - (u % IdxMod)) % IdxMod = a - u
  BY <1>1, <1>2, <1>3, ModGap, Zenon
<1>5. ((u % IdxMod) - (s % IdxMod)) % IdxMod = u - s
  BY <1>1, <1>2, <1>3, ModGap, Zenon
<1> QED BY <1>4, <1>5, Zenon DEF Counts, Waiting, Unseen

(* The slot of an index is the slot of the number it stands for.           *)
LEMMA SlotIs ==
    ASSUME TypeOK, NEW q \in QueueIds, Num[q] # 0, NEW p \in Int
    PROVE  (p % IdxMod) % Num[q] = p % Num[q] /\ p % Num[q] \in Slots(q)
<1>1. IdxMod \in Nat \ {0} /\ Num[q] \in Nat \ {0} /\ IdxMod % Num[q] = 0
  BY Sizes
<1>2. (p % IdxMod) % Num[q] = p % Num[q]
  BY <1>1, ModMod, Zenon
<1> QED BY <1>1, <1>2 DEF Slots

(* With a free descriptor there is a free slot: otherwise the requests in  *)
(* flight would be as many as the slots, each once, without the free one.  *)
LEMMA FreeSlot ==
    ASSUME TypeOK, NEW q \in QueueIds, NEW s \in Nat, NEW u \in Nat, NEW a \in Nat,
           Counts(q, s, u, a), Placed(q, s, u, a), NEW h \in Slots(q) \ driver[q].inflight
    PROVE  a < s + Num[q]
<1> SUFFICES ASSUME a = s + Num[q]  PROVE FALSE
  BY Sizes DEF Counts
<1>1. Num[q] \in Nat \ {0}
  BY Sizes DEF Slots
<1> DEFINE P == s .. a - 1
           F == driver[q].inflight
           f == [p \in P |-> Request(q, u, p)]
<1>0. a - 1 \in Int /\ s \in Int /\ ~(s > a - 1) /\ (a - 1) - s + 1 = Num[q]
  BY <1>1
<1>2. IsFiniteSet(P) /\ Cardinality(P) = Num[q]
  BY <1>0, FS_Interval
<1>n. 0 \in Int /\ Num[q] - 1 \in Int /\ ~(0 > Num[q] - 1) /\ (Num[q] - 1) - 0 + 1 = Num[q]
  BY <1>1
<1>3. IsFiniteSet(Slots(q)) /\ Cardinality(Slots(q)) = Num[q]
  BY <1>n, FS_Interval DEF Slots
<1>4. IsFiniteSet(Slots(q) \ {h}) /\ Cardinality(Slots(q) \ {h}) = Num[q] - 1
  BY <1>3, FS_RemoveElement
<1>5. F \in SUBSET (Slots(q) \ {h})
  BY Typed
<1>6. IsFiniteSet(F) /\ Cardinality(F) <= Num[q] - 1 /\ Cardinality(F) \in Nat
  BY <1>4, <1>5, FS_Subset, FS_CardinalityType
<1>7. f \in [P -> F] /\ \A p, r \in P : f[p] = f[r] => p = r
  BY DEF Placed
<1>8. Cardinality(F) < Cardinality(P)
  BY <1>1, <1>2, <1>6
<1> HIDE DEF P, F, f
<1>9. \E p, r \in P : p # r /\ f[p] = f[r]
  BY <1>2, <1>6, <1>7, <1>8, FS_PigeonHole
<1> QED BY <1>7, <1>9

(* The head that a visit copies to the slot of request p is the one the    *)
(* driver made available there, if the visit reaches p.                    *)
Reaches(q, u, p) ==
    /\ ((p % Num[q]) - ring[q].usedIdx) % Num[q] = (p - u) % Num[q]
    /\ HeadAt(q, (p - u) % Num[q]) = ring[q].avail[p % Num[q]]
    /\ p < u => (p - u) % Num[q] = p - u + Num[q]
    /\ p >= u => (p - u) % Num[q] = p - u

LEMMA OffsetIs ==
    ASSUME TypeOK, NEW q \in QueueIds, NEW s \in Nat, NEW u \in Nat, NEW a \in Nat,
           Counts(q, s, u, a), Num[q] # 0, NEW p \in s .. a - 1
    PROVE  Reaches(q, u, p)
<1>1. Num[q] \in Nat \ {0} /\ IdxMod \in Nat \ {0} /\ IdxMod % Num[q] = 0
  BY Sizes
<1>a. Num[q] \in Nat \ {0}
  BY <1>1
<1>b. IdxMod \in Nat \ {0}
  BY <1>1
<1>c. IdxMod % Num[q] = 0
  BY <1>1
<1>d. p \in Int
  OBVIOUS
<1>e. u \in Int
  OBVIOUS
<1>3. ((p % Num[q]) - (u % IdxMod)) % Num[q] = (p - u) % Num[q]
  BY <1>a, <1>b, <1>c, <1>d, <1>e, ModOffset, Zenon
<1>4. (((u % IdxMod) + ((p - u) % Num[q])) % IdxMod) % Num[q] = p % Num[q]
  BY <1>a, <1>b, <1>c, <1>d, <1>e, ModBack, Zenon
<1>5. p < u => (p - u) % Num[q] = p - u + Num[q]
  <2> SUFFICES ASSUME p < u  PROVE (p - u) % Num[q] = p - u + Num[q]
    OBVIOUS
  <2>1. p - u = Num[q] * (-1) + (p - u + Num[q]) /\ p - u + Num[q] \in 0 .. Num[q] - 1
    BY <1>a, <1>d, <1>e DEF Counts
  <2>2. (Num[q] * (-1) + (p - u + Num[q])) % Num[q] = p - u + Num[q]
    BY <1>a, <2>1, ModIs
  <2> QED BY <2>1, <2>2
<1>6. p >= u => (p - u) % Num[q] = p - u
  <2>1. p - u < Num[q]
    BY <1>a, <1>d, <1>e DEF Counts
  <2> QED BY <1>a, <1>d, <1>e, <2>1, ModSmall
<1> QED BY <1>3, <1>4, <1>5, <1>6 DEF Counts, HeadAt, Reaches

(* A step that leaves a queue alone keeps its requests where they are.     *)
LEMMA UntouchedMoves ==
    ASSUME setup' = setup, NEW q \in QueueIds, NEW s \in Nat, NEW u \in Nat, NEW a \in Nat,
           Counts(q, s, u, a), Untouched(q)
    PROVE  Counts(q, s, u, a)' /\ \A p : Request(q, u, p)' = Request(q, u, p)
<1>1. Num' = Num /\ IdxMod' = IdxMod
  BY SizesStay
<1>2. Counts(q, s, u, a)'
  BY <1>1 DEF Counts, Untouched, SameRing, SameRequests
<1>3. \A p : Request(q, u, p)' = Request(q, u, p)
  BY <1>1 DEF Request, Untouched, SameRing
<1> QED BY <1>2, <1>3

LEMMA UntouchedKeeps ==
    ASSUME TypeOK, setup' = setup, NEW q \in QueueIds, Places(q), Untouched(q)
    PROVE  Places(q)'
<1>1. PICK s, u, a \in Nat : Counts(q, s, u, a) /\ Placed(q, s, u, a)
  BY Zenon DEF Places
<1>2. Counts(q, s, u, a)' /\ \A p : Request(q, u, p)' = Request(q, u, p)
  BY <1>1, UntouchedMoves
<1>3. driver'[q].inflight = driver[q].inflight
  BY DEF Untouched, SameRequests
<1>4. Placed(q, s, u, a)'
  BY <1>1, <1>2, <1>3 DEF Placed
<1> QED BY <1>2, <1>4, Zenon DEF Places

(* A queue that starts again has no requests.                              *)
LEMMA DropsMoves ==
    ASSUME TypeOK, setup' = setup, NEW q \in QueueIds, Drops(q)
    PROVE  Counts(q, 0, 0, 0)'
<1>1. Num' = Num /\ IdxMod' = IdxMod /\ IdxMod \in Nat \ {0} /\ Num[q] \in Nat
  BY Sizes, SizesStay
<1>2. 0 % IdxMod = 0
  BY <1>1
<1> QED BY <1>1, <1>2 DEF Counts, Drops, NoQueue, EmptyRing, NewDriver

LEMMA DropsKeeps ==
    ASSUME TypeOK, setup' = setup, NEW q \in QueueIds, Drops(q)
    PROVE  Places(q)'
<1>1. Counts(q, 0, 0, 0)'
  BY DropsMoves
<1>2. driver'[q].inflight = {} /\ 0 .. 0 - 1 = {}
  BY DEF Drops, NewDriver
<1>3. Placed(q, 0, 0, 0)'
  BY <1>2 DEF Placed
<1> QED BY <1>1, <1>3 DEF Places

(* The driver writes a request in the next slot, which is free.            *)
LEMMA PostsMoves ==
    ASSUME TypeOK, setup' = setup, NEW q \in QueueIds, NEW s \in Nat, NEW u \in Nat, NEW a \in Nat,
           Counts(q, s, u, a), Placed(q, s, u, a), NEW h \in Slots(q), Posts(q, h)
    PROVE  /\ Counts(q, s, u, a + 1)'
           /\ Request(q, u, a)' = h
           /\ \A p \in s .. a - 1 : Request(q, u, p)' = Request(q, u, p)
<1>1. Counts(q, s, u, a) /\ Placed(q, s, u, a)
  OBVIOUS
<1>2. Num' = Num /\ IdxMod' = IdxMod
  BY SizesStay
<1>3. Num[q] \in Nat \ {0} /\ IdxMod \in Nat \ {0} /\ Num[q] # 0
  BY Sizes DEF Slots
<1>4. a < s + Num[q] /\ s <= u /\ u <= a
  BY <1>1, FreeSlot DEF Posts, Counts
<1>5. ((a % IdxMod) + 1) % IdxMod = (a + 1) % IdxMod
  <2>1. a \in Int /\ 1 \in Int
    OBVIOUS
  <2> QED BY <1>3, <2>1, ModAdd, Zenon
<1>6. Counts(q, s, u, a + 1)'
  BY <1>1, <1>2, <1>3, <1>4, <1>5 DEF Counts, Posts
<1>7. ring[q].availIdx % Num[q] = a % Num[q] /\ a % Num[q] \in Slots(q)
  <2>1. a \in Int
    OBVIOUS
  <2> QED BY <1>1, <1>3, <2>1, SlotIs, Zenon DEF Counts
<1>8. ring'[q].avail = [ring[q].avail EXCEPT ![a % Num[q]] = h]
      /\ ring'[q].used = ring[q].used
      /\ ring[q].avail \in [Slots(q) -> Slots(q)]
  BY <1>7, Typed DEF Posts, RingType
<1>9. Request(q, u, a)' = h
  BY <1>2, <1>4, <1>7, <1>8 DEF Request
<1>10. ASSUME NEW p \in s .. a - 1  PROVE Request(q, u, p)' = Request(q, u, p)
  <2>1. p % Num[q] # a % Num[q]
    BY <1>3, <1>4, ModApart
  <2> QED BY <1>2, <1>8, <2>1 DEF Request
<1> QED BY <1>6, <1>9, <1>10

LEMMA PostsKeeps ==
    ASSUME TypeOK, setup' = setup, NEW q \in QueueIds, Places(q),
           NEW h \in Slots(q), Posts(q, h)
    PROVE  Places(q)'
<1>1. PICK s, u, a \in Nat : Counts(q, s, u, a) /\ Placed(q, s, u, a)
  BY Zenon DEF Places
<1>2. /\ Counts(q, s, u, a + 1)'
      /\ Request(q, u, a)' = h
      /\ \A p \in s .. a - 1 : Request(q, u, p)' = Request(q, u, p)
  BY <1>1, PostsMoves
<1>3. driver'[q].inflight = driver[q].inflight \cup {h} /\ h \notin driver[q].inflight
  BY DEF Posts
<1>4. s <= a
  BY <1>1 DEF Counts
<1>5. \A p \in s .. (a + 1) - 1 : p \in s .. a - 1 \/ p = a
  BY <1>4
<1>6. a \in s .. (a + 1) - 1 /\ \A p \in s .. a - 1 : p \in s .. (a + 1) - 1
  BY <1>4
<1>7. Placed(q, s, u, a + 1)'
  BY <1>1, <1>2, <1>3, <1>5, <1>6 DEF Placed
<1>8. a + 1 \in Nat
  OBVIOUS
<1> QED BY <1>2, <1>7, <1>8, Zenon DEF Places

(* The device copies the next n requests to the used ring; it overwrites   *)
(* none that the driver has not seen.                                      *)
LEMMA ServesMoves ==
    ASSUME TypeOK, setup' = setup, NEW q \in QueueIds, NEW s \in Nat, NEW u \in Nat, NEW a \in Nat,
           Counts(q, s, u, a), Serves(q), SameRequests(q)
    PROVE  \E n \in 0 .. a - u :
              /\ Counts(q, s, u + n, a)'
              /\ \A p \in s .. a - 1 : Request(q, u + n, p)' = Request(q, u, p)
<1>1. Counts(q, s, u, a)
  OBVIOUS
<1>2. Num' = Num /\ IdxMod' = IdxMod
  BY SizesStay
<1>3. PICK n \in 0 .. Waiting(q) : /\ queue'[q].lastAvail = (queue[q].lastAvail + n) % IdxMod
                                   /\ ring'[q] = Publish(q, n)
  BY Zenon DEF Serves
<1>4. n \in Nat /\ n <= a - u
  <2>1. Waiting(q) = a - u
    BY <1>1, WaitingIs, Zenon
  <2> QED BY <1>1, <2>1 DEF Counts
<1>5. ((u % IdxMod) + n) % IdxMod = (u + n) % IdxMod
  <2>1. u \in Int /\ n \in Int /\ IdxMod \in Nat \ {0}
    BY <1>4, Sizes
  <2> QED BY <2>1, ModAdd, Zenon
<1>6. s <= u /\ u <= a /\ a <= s + Num[q]
  BY <1>1 DEF Counts
<1>7. /\ ring'[q].availIdx = ring[q].availIdx
      /\ ring'[q].avail = ring[q].avail
      /\ ring'[q].usedIdx = (ring[q].usedIdx + n) % IdxMod
      /\ ring'[q].used = [t \in Slots(q) |->
                            IF (t - ring[q].usedIdx) % Num[q] < n
                            THEN HeadAt(q, (t - ring[q].usedIdx) % Num[q])
                            ELSE ring[q].used[t]]
  <2>1. n \in Nat /\ ring'[q] = Publish(q, n)
    BY <1>3, <1>4
  <2>2. /\ Publish(q, n).availIdx = ring[q].availIdx
        /\ Publish(q, n).avail = ring[q].avail
        /\ Publish(q, n).usedIdx = (ring[q].usedIdx + n) % IdxMod
        /\ Publish(q, n).used = [t \in Slots(q) |->
                            IF (t - ring[q].usedIdx) % Num[q] < n
                            THEN HeadAt(q, (t - ring[q].usedIdx) % Num[q])
                            ELSE ring[q].used[t]]
    BY <2>1, PublishIs
  <2> QED BY <2>1, <2>2, Zenon
<1>8. driver'[q].seen = driver[q].seen /\ driver'[q].inflight = driver[q].inflight
  BY DEF SameRequests
<1>9. Counts(q, s, u + n, a)'
  <2>1. s <= u + n /\ u + n <= a
    BY <1>4, <1>6
  <2> QED BY <1>1, <1>2, <1>3, <1>5, <1>7, <1>8, <2>1 DEF Counts
<1>10. ASSUME NEW p \in s .. a - 1  PROVE Request(q, u + n, p)' = Request(q, u, p)
  <2>1. Num[q] \in Nat \ {0} /\ Num[q] # 0
    BY <1>6, Sizes
  <2>2. p % Num[q] \in Slots(q)
    BY <2>1, SlotIs
  <2>3. /\ ((p % Num[q]) - ring[q].usedIdx) % Num[q] = (p - u) % Num[q]
        /\ HeadAt(q, (p - u) % Num[q]) = ring[q].avail[p % Num[q]]
        /\ p < u => (p - u) % Num[q] = p - u + Num[q]
        /\ p >= u => (p - u) % Num[q] = p - u
    <3>1. Reaches(q, u, p)
      BY <1>1, <2>1, OffsetIs, Zenon
    <3> QED BY <3>1, Zenon DEF Reaches
  <2>4. ring'[q].used[p % Num[q]] = IF (p - u) % Num[q] < n THEN ring[q].avail[p % Num[q]]
                                    ELSE ring[q].used[p % Num[q]]
    BY <1>7, <2>2, <2>3, Zenon
  <2>5. CASE p < u
    <3>1. ~((p - u) % Num[q] < n)
      BY <1>4, <1>6, <2>1, <2>3, <2>5
    <3> QED BY <1>2, <1>4, <2>4, <2>5, <3>1 DEF Request
  <2>6. CASE u <= p /\ p < u + n
    <3>1. (p - u) % Num[q] < n
      BY <1>4, <2>3, <2>6
    <3> QED BY <1>2, <2>4, <2>6, <3>1 DEF Request
  <2>7. CASE u + n <= p
    BY <1>2, <1>4, <1>7, <2>7 DEF Request
  <2> QED BY <1>4, <2>5, <2>6, <2>7
<1>11. n \in 0 .. a - u
  BY <1>4, <1>6
<1> QED BY <1>9, <1>10, <1>11

LEMMA ServesKeeps ==
    ASSUME TypeOK, setup' = setup, NEW q \in QueueIds, Places(q), Serves(q), SameRequests(q)
    PROVE  Places(q)'
<1>1. PICK s, u, a \in Nat : Counts(q, s, u, a) /\ Placed(q, s, u, a)
  BY Zenon DEF Places
<1>2. PICK n \in 0 .. a - u :
            /\ Counts(q, s, u + n, a)'
            /\ \A p \in s .. a - 1 : Request(q, u + n, p)' = Request(q, u, p)
  BY <1>1, ServesMoves
<1>3. driver'[q].inflight = driver[q].inflight
  BY DEF SameRequests
<1>4. Placed(q, s, u + n, a)'
  BY <1>1, <1>2, <1>3 DEF Placed
<1>5. u + n \in Nat
  OBVIOUS
<1> QED BY <1>2, <1>4, <1>5, Zenon DEF Places

(* The driver takes the first request that it has not seen.                *)
LEMMA FirstUnseen ==
    ASSUME TypeOK, NEW q \in QueueIds, NEW s \in Nat, NEW u \in Nat, NEW a \in Nat,
           Counts(q, s, u, a), ring[q].usedIdx # driver[q].seen
    PROVE  /\ s < u /\ Num[q] # 0 /\ s \in s .. a - 1
           /\ ring[q].used[driver[q].seen % Num[q]] = Request(q, u, s)
<1>1. s # u /\ s <= u /\ u <= a /\ a <= s + Num[q]
  BY DEF Counts
<1>2. s < u /\ Num[q] # 0 /\ s \in s .. a - 1 /\ s \in Int
  BY <1>1, Sizes
<1>3. (s % IdxMod) % Num[q] = s % Num[q]
  BY <1>2, SlotIs, Zenon
<1> QED BY <1>2, <1>3 DEF Request, Counts

LEMMA CollectsMoves ==
    ASSUME TypeOK, setup' = setup, NEW q \in QueueIds, NEW s \in Nat, NEW u \in Nat, NEW a \in Nat,
           Counts(q, s, u, a), Collects(q)
    PROVE  /\ s < u /\ s \in s .. a - 1
           /\ Counts(q, s + 1, u, a)'
           /\ \A p \in s .. a - 1 : Request(q, u, p)' = Request(q, u, p)
           /\ driver'[q].inflight = driver[q].inflight \ {Request(q, u, s)}
<1>1. Counts(q, s, u, a)
  OBVIOUS
<1>2. Num' = Num /\ IdxMod' = IdxMod
  BY SizesStay
<1>3. /\ s < u /\ s \in s .. a - 1 /\ u <= a /\ a <= s + Num[q] /\ Num[q] \in Nat
      /\ ring[q].used[driver[q].seen % Num[q]] = Request(q, u, s)
  BY <1>1, FirstUnseen, Sizes DEF Collects, Counts
<1>4. ((s % IdxMod) + 1) % IdxMod = (s + 1) % IdxMod
  <2>1. s \in Int /\ 1 \in Int /\ IdxMod \in Nat \ {0}
    BY Sizes
  <2> QED BY <2>1, ModAdd, Zenon
<1>5. Counts(q, s + 1, u, a)'
  <2>1. s + 1 <= u /\ a <= (s + 1) + Num[q]
    BY <1>3
  <2> QED BY <1>1, <1>2, <1>4, <2>1 DEF Counts, Collects, SameRing
<1>6. \A p \in s .. a - 1 : Request(q, u, p)' = Request(q, u, p)
  BY <1>2 DEF Request, Collects, SameRing
<1>7. driver'[q].inflight = driver[q].inflight \ {Request(q, u, s)}
  BY <1>3 DEF Collects
<1> QED BY <1>3, <1>5, <1>6, <1>7

LEMMA CollectsKeeps ==
    ASSUME TypeOK, setup' = setup, NEW q \in QueueIds, Places(q), Collects(q)
    PROVE  Places(q)'
<1>1. PICK s, u, a \in Nat : Counts(q, s, u, a) /\ Placed(q, s, u, a)
  BY Zenon DEF Places
<1>2. /\ s \in s .. a - 1
      /\ Counts(q, s + 1, u, a)'
      /\ \A p \in s .. a - 1 : Request(q, u, p)' = Request(q, u, p)
      /\ driver'[q].inflight = driver[q].inflight \ {Request(q, u, s)}
  BY <1>1, CollectsMoves
<1>3. \A p \in s .. a - 1 : p \in (s + 1) .. a - 1 <=> p # s
  OBVIOUS
<1>4. (s + 1) .. a - 1 \subseteq s .. a - 1
  OBVIOUS
<1>5. Placed(q, s + 1, u, a)'
  <2>1. \A p \in (s + 1) .. a - 1 : Request(q, u, p)' \in driver'[q].inflight
    BY <1>1, <1>2, <1>3, <1>4 DEF Placed
  <2>2. \A h \in driver'[q].inflight : \E p \in (s + 1) .. a - 1 : Request(q, u, p)' = h
    BY <1>1, <1>2, <1>3 DEF Placed
  <2>3. \A p, r \in (s + 1) .. a - 1 : Request(q, u, p)' = Request(q, u, r)' => p = r
    BY <1>1, <1>2, <1>4 DEF Placed
  <2> QED BY <2>1, <2>2, <2>3, Zenon DEF Placed
<1>6. s + 1 \in Nat
  OBVIOUS
<1> QED BY <1>2, <1>5, <1>6, Zenon DEF Places

(* The invariant holds of the fresh queues and of every step.              *)
LEMMA InPlaceNext == TypeOK /\ InPlace /\ [Next]_vars => InPlace'
<1> SUFFICES ASSUME TypeOK, InPlace, [Next]_vars  PROVE InPlace'
  OBVIOUS
<1>1. setup' = setup /\ StepOfAKind
  BY SetupStays, StepKinds
<1>2. \A q \in QueueIds : Places(q)
  BY DEF InPlace
<1> SUFFICES ASSUME NEW q \in QueueIds  PROVE Places(q)'
  BY DEF InPlace, QueueIds
<1>3. Places(q)
  BY <1>2
<1>4. Untouched(q) => Places(q)'
  BY <1>1, <1>3, UntouchedKeeps
<1>5. Drops(q) => Places(q)'
  BY <1>1, DropsKeeps
<1>6. \A h \in Slots(q) : Posts(q, h) => Places(q)'
  BY <1>1, <1>3, PostsKeeps
<1>7. Serves(q) /\ SameRequests(q) => Places(q)'
  BY <1>1, <1>3, ServesKeeps
<1>8. Collects(q) => Places(q)'
  BY <1>1, <1>3, CollectsKeeps
<1> QED BY <1>1, <1>4, <1>5, <1>6, <1>7, <1>8, Zenon DEF StepOfAKind

LEMMA InPlaceInit == Init => InPlace
<1> SUFFICES ASSUME Init  PROVE InPlace
  OBVIOUS
<1> SUFFICES ASSUME NEW q \in QueueIds  PROVE Places(q)
  BY DEF InPlace
<1>1. TypeOK
  BY TypeOKInit
<1>2. 0 % IdxMod = 0 /\ Num[q] \in Nat
  BY <1>1, Sizes
<1>3. Counts(q, 0, 0, 0)
  BY <1>2 DEF Counts, Init, NoQueue, EmptyRing, NewDriver
<1>4. driver[q].inflight = {} /\ 0 .. 0 - 1 = {}
  BY DEF Init, NewDriver
<1>5. Placed(q, 0, 0, 0)
  BY <1>4 DEF Placed
<1> QED BY <1>3, <1>5 DEF Places

-----------------------------------------------------------------------------
(* Every request is in one place.                                          *)

(* The head of a request in flight is a slot number, like all heads.       *)
LEMMA RequestTyped ==
    ASSUME TypeOK, NEW q \in QueueIds, NEW s \in Nat, NEW u \in Nat, NEW a \in Nat,
           Counts(q, s, u, a), NEW p \in s .. a - 1
    PROVE  Num[q] # 0 /\ p \in Int /\ Request(q, u, p) \in Slots(q)
<1>1. Num[q] # 0 /\ p \in Int
  BY Sizes DEF Counts
<1>2. p % Num[q] \in Slots(q)
  BY <1>1, SlotIs
<1> QED BY <1>1, <1>2, Typed DEF Request, RingType

(* What is posted and what is done, told by the requests' numbers.         *)
LEMMA Contents ==
    ASSUME TypeOK, NEW q \in QueueIds, NEW s \in Nat, NEW u \in Nat, NEW a \in Nat,
           Counts(q, s, u, a)
    PROVE  /\ Posted(q) = [i \in 1 .. a - u |-> Request(q, u, u + i - 1)]
           /\ Done(q) = [i \in 1 .. u - s |-> Request(q, u, s + i - 1)]
<1>1. Waiting(q) = a - u /\ Unseen(q) = u - s
  BY WaitingIs
<1>2. s <= u /\ u <= a
  BY DEF Counts
<1>3. ASSUME NEW i \in 1 .. a - u  PROVE HeadAt(q, i - 1) = Request(q, u, u + i - 1)
  <2>1. u + i - 1 \in s .. a - 1 /\ u + i - 1 \in Int /\ u \in Int /\ i - 1 \in Int
        /\ u + (i - 1) = u + i - 1 /\ ~(u + i - 1 < u)
    BY <1>2
  <2>2. Num[q] # 0 /\ IdxMod \in Nat \ {0}
    BY <2>1, RequestTyped, Sizes
  <2>3. ((u % IdxMod) + (i - 1)) % IdxMod = (u + (i - 1)) % IdxMod
    BY <2>1, <2>2, ModAdd, Zenon
  <2>4. ((u + i - 1) % IdxMod) % Num[q] = (u + i - 1) % Num[q]
    BY <2>1, <2>2, SlotIs, Zenon
  <2>5. queue[q].lastAvail = u % IdxMod
    BY DEF Counts
  <2> QED BY <2>1, <2>3, <2>4, <2>5 DEF HeadAt, Request
<1>4. ASSUME NEW i \in 1 .. u - s
      PROVE  ring[q].used[((driver[q].seen + i - 1) % IdxMod) % Num[q]] = Request(q, u, s + i - 1)
  <2>1. s + i - 1 \in s .. a - 1 /\ s + i - 1 \in Int /\ s \in Int /\ i - 1 \in Int
        /\ s + (i - 1) = s + i - 1 /\ s + i - 1 < u
    BY <1>2
  <2>2. Num[q] # 0 /\ IdxMod \in Nat \ {0}
    BY <2>1, RequestTyped, Sizes
  <2>3. ((s % IdxMod) + (i - 1)) % IdxMod = (s + (i - 1)) % IdxMod
    BY <2>1, <2>2, ModAdd, Zenon
  <2>4. ((s + i - 1) % IdxMod) % Num[q] = (s + i - 1) % Num[q]
    BY <2>1, <2>2, SlotIs, Zenon
  <2>5. driver[q].seen = s % IdxMod /\ driver[q].seen + i - 1 = driver[q].seen + (i - 1)
    <3>1. driver[q].seen \in Int
      BY Typed
    <3> QED BY <3>1 DEF Counts
  <2> QED BY <2>1, <2>3, <2>4, <2>5 DEF Request
<1> QED BY <1>1, <1>3, <1>4 DEF Posted, Done

(* A function on 1 .. n is a sequence of length n, ...                     *)
LEMMA SequenceOf ==
    ASSUME NEW S, NEW n \in Nat, NEW f \in [1 .. n -> S]
    PROVE  f \in Seq(S) /\ Len(f) = n
<1>1. f \in Seq(S)
  BY SeqDef
<1>2. Len(f) \in Nat /\ DOMAIN f = 1 .. Len(f) /\ DOMAIN f = 1 .. n
  BY <1>1, LenProperties
<1> QED BY <1>1, <1>2

(* The number of the i-th request of Posted(q) \o Done(q).                 *)
At(s, u, a, i) == IF i <= a - u THEN u + i - 1 ELSE s + i - (a - u) - 1

LEMMA AllRequests ==
    ASSUME TypeOK, NEW q \in QueueIds, NEW s \in Nat, NEW u \in Nat, NEW a \in Nat,
           Counts(q, s, u, a)
    PROVE  LET all == Posted(q) \o Done(q)
           IN  /\ Len(all) = a - s
               /\ \A i \in 1 .. a - s : all[i] = Request(q, u, At(s, u, a, i))
<1>1. s <= u /\ u <= a /\ a - u \in Nat /\ u - s \in Nat
  BY DEF Counts
<1>2. /\ Posted(q) = [i \in 1 .. a - u |-> Request(q, u, u + i - 1)]
      /\ Done(q) = [i \in 1 .. u - s |-> Request(q, u, s + i - 1)]
  BY Contents
<1>3. Posted(q) \in [1 .. a - u -> Slots(q)]
  <2>1. \A i \in 1 .. a - u : u + i - 1 \in s .. a - 1
    BY <1>1
  <2>2. \A i \in 1 .. a - u : Request(q, u, u + i - 1) \in Slots(q)
    BY <2>1, RequestTyped
  <2> QED BY <1>2, <2>2
<1>4. Done(q) \in [1 .. u - s -> Slots(q)]
  <2>1. \A i \in 1 .. u - s : s + i - 1 \in s .. a - 1
    BY <1>1
  <2>2. \A i \in 1 .. u - s : Request(q, u, s + i - 1) \in Slots(q)
    BY <2>1, RequestTyped
  <2> QED BY <1>2, <2>2
<1>5. Posted(q) \in Seq(Slots(q)) /\ Len(Posted(q)) = a - u
  BY <1>1, <1>3, SequenceOf
<1>6. Done(q) \in Seq(Slots(q)) /\ Len(Done(q)) = u - s
  BY <1>1, <1>4, SequenceOf
<1>7. Len(Posted(q) \o Done(q)) = a - s
  BY <1>1, <1>5, <1>6
<1>8. ASSUME NEW i \in 1 .. a - s
      PROVE  (Posted(q) \o Done(q))[i] = Request(q, u, At(s, u, a, i))
  <2>1. CASE i <= a - u
    <3>1. (Posted(q) \o Done(q))[i] = Posted(q)[i]
      BY <1>1, <1>5, <1>6, <2>1
    <3> QED BY <1>2, <2>1, <3>1 DEF At
  <2>2. CASE ~(i <= a - u)
    <3>1. (Posted(q) \o Done(q))[i] = Done(q)[i - (a - u)]
      BY <1>1, <1>5, <1>6, <2>2
    <3>2. i - (a - u) \in 1 .. u - s /\ s + (i - (a - u)) - 1 = s + i - (a - u) - 1
      BY <1>1, <2>2
    <3> QED BY <1>2, <2>2, <3>1, <3>2 DEF At
  <2> QED BY <2>1, <2>2
<1> QED BY <1>7, <1>8

(* The places of the requests imply the property.                          *)
LEMMA InPlaceOnce == TypeOK /\ InPlace => EveryRequestOnce
<1> SUFFICES ASSUME TypeOK, InPlace, NEW q \in QueueIds
             PROVE  LET all == Posted(q) \o Done(q)
                    IN /\ {all[i] : i \in 1 .. Len(all)} = driver[q].inflight
                       /\ \A i, j \in 1 .. Len(all) : all[i] = all[j] => i = j
  BY DEF EveryRequestOnce
<1> DEFINE all == Posted(q) \o Done(q)
<1>1. PICK s, u, a \in Nat : Counts(q, s, u, a) /\ Placed(q, s, u, a)
  BY Zenon DEF InPlace, Places
<1>2. s <= u /\ u <= a
  BY <1>1 DEF Counts
<1>3. Len(all) = a - s /\ \A i \in 1 .. a - s : all[i] = Request(q, u, At(s, u, a, i))
  BY <1>1, AllRequests
<1> HIDE DEF all
<1>4. \A i \in 1 .. a - s : At(s, u, a, i) \in s .. a - 1
  BY <1>2 DEF At
<1>5. \A i, j \in 1 .. a - s : At(s, u, a, i) = At(s, u, a, j) => i = j
  BY <1>2 DEF At
<1>6. \A p \in s .. a - 1 : \E i \in 1 .. a - s : At(s, u, a, i) = p
  <2> SUFFICES ASSUME NEW p \in s .. a - 1  PROVE \E i \in 1 .. a - s : At(s, u, a, i) = p
    OBVIOUS
  <2>1. CASE p >= u
    <3>1. p - u + 1 \in 1 .. a - s /\ At(s, u, a, p - u + 1) = p
      BY <1>2, <2>1 DEF At
    <3> QED BY <3>1
  <2>2. CASE p < u
    <3>1. p - s + 1 + (a - u) \in 1 .. a - s /\ At(s, u, a, p - s + 1 + (a - u)) = p
      BY <1>2, <2>2 DEF At
    <3> QED BY <3>1
  <2> QED BY <2>1, <2>2
<1>7. \A i \in 1 .. a - s : all[i] \in driver[q].inflight
  BY <1>1, <1>3, <1>4 DEF Placed
<1>8. \A h \in driver[q].inflight : \E i \in 1 .. a - s : all[i] = h
  BY <1>1, <1>3, <1>6 DEF Placed
<1>9. \A i, j \in 1 .. a - s : all[i] = all[j] => i = j
  BY <1>1, <1>3, <1>4, <1>5 DEF Placed
<1>10. {all[i] : i \in 1 .. Len(all)} = driver[q].inflight
  BY <1>3, <1>7, <1>8
<1> QED BY <1>3, <1>9, <1>10 DEF all

(* Every request in flight is once before the device or once before the    *)
(* driver: the wraps of the 16-bit indices, the bursts of the device's     *)
(* loop, and resets neither lose, repeat nor overwrite one.                *)
THEOREM RequestsOnce == Spec => []EveryRequestOnce
<1>1. Init => TypeOK /\ InPlace
  BY TypeOKInit, InPlaceInit
<1>2. TypeOK /\ InPlace /\ [Next]_vars => (TypeOK /\ InPlace)'
  BY TypeOKNext, InPlaceNext
<1> QED BY <1>1, <1>2, InPlaceOnce, PTL DEF Spec

-----------------------------------------------------------------------------
(* No completion is lost.                                                  *)

(* A difference of indices is 0 only between equal indices.                *)
LEMMA NoGap ==
    ASSUME NEW m \in Nat \ {0}, NEW x \in 0 .. m - 1, NEW y \in 0 .. m - 1, x # y
    PROVE  (x - y) % m # 0
<1>1. CASE y < x
  <2>1. (x - y) % m = x - y
    BY <1>1
  <2> QED BY <1>1, <2>1
<1>2. CASE x < y
  <2>1. x - y = m * (-1) + (x - y + m) /\ x - y + m \in 0 .. m - 1
    BY <1>2
  <2>2. (m * (-1) + (x - y + m)) % m = x - y + m
    BY <2>1, ModIs
  <2> QED BY <1>2, <2>1, <2>2
<1> QED BY <1>1, <1>2

(* Indices differ exactly when there is something between them.            *)
LEMMA UnseenIs ==
    ASSUME TypeOK, NEW q \in QueueIds
    PROVE  Unseen(q) = 0 <=> ring[q].usedIdx = driver[q].seen
<1>1. IdxMod \in Nat \ {0}
  BY Sizes
<1>2. ring[q].usedIdx \in 0 .. IdxMod - 1
  BY Typed DEF RingType, Indices
<1>3. driver[q].seen \in 0 .. IdxMod - 1
  BY Typed DEF Indices
<1>4. ring[q].usedIdx # driver[q].seen => (ring[q].usedIdx - driver[q].seen) % IdxMod # 0
  BY <1>1, <1>2, <1>3, NoGap, Zenon
<1>5. ring[q].usedIdx = driver[q].seen => (ring[q].usedIdx - driver[q].seen) % IdxMod = 0
  BY <1>1, <1>2, <1>3
<1> QED BY <1>4, <1>5 DEF Unseen

(* Between the rearming of a queue and its next interrupt the driver wants *)
(* to be told of the next completion, and a sleeping one has been told.    *)
Alert(q) ==
    /\ driver[q].phase # "draining" => /\ ring[q].event = driver[q].seen
                                       /\ ~ring[q].noInterrupt
    /\ driver[q].phase = "asleep" /\ ring[q].usedIdx # driver[q].seen
          => pending \/ isr = "acking"

AllAlert == \A q \in QueueIds : Alert(q)

(* The first completion after the queue is empty passes the event index.   *)
LEMMA FirstSignals ==
    ASSUME TypeOK, NEW q \in QueueIds, Alert(q), driver[q].phase # "draining",
           ring[q].usedIdx = driver[q].seen, NEW n \in 1 .. Waiting(q)
    PROVE  ShouldInterrupt(q, n)
<1>0. Waiting(q) \in Nat /\ 0 \in 0 .. n - 1 /\ n > 0
  BY WaitingRange
<1>1. CASE ~EventIdx
  BY <1>0, <1>1 DEF Alert, ShouldInterrupt
<1>2. CASE EventIdx
  <2> DEFINE x == ring[q].usedIdx
             e == ring[q].event
  <2>1. IdxMod \in Nat \ {0} /\ x \in 0 .. IdxMod - 1 /\ x = e
    BY Sizes, Typed DEF RingType, Indices, Alert
  <2>2. IdxMod # 1
    <3> SUFFICES ASSUME IdxMod = 1  PROVE FALSE
      OBVIOUS
    <3>1. ring[q].availIdx \in 0 .. 0 /\ queue[q].lastAvail \in 0 .. 0
      BY Typed DEF RingType, Indices
    <3>2. Waiting(q) = 0
      BY <3>1 DEF Waiting
    <3> QED BY <1>0, <3>2
  <2> HIDE DEF x, e
  <2>3. (x + 0) % IdxMod = x
    BY <2>1
  <2>4. x + 1 \in Int /\ x \in Int /\ e \in Int /\ 1 \in Int /\ -e - 1 \in Int /\ -x \in Int
    BY <2>1
  <2>5. (((x + 1) % IdxMod) + (-e - 1)) % IdxMod = ((x + 1) + (-e - 1)) % IdxMod
    BY <2>1, <2>4, ModAdd, Zenon
  <2>6. (((x + 1) % IdxMod) + (-x)) % IdxMod = ((x + 1) + (-x)) % IdxMod
    BY <2>1, <2>4, ModAdd, Zenon
  <2>7. (x + 1) + (-e - 1) = 0 /\ (x + 1) + (-x) = 1
    BY <2>1
  <2>8. 0 % IdxMod = 0 /\ 1 % IdxMod = 1
    BY <2>1, <2>2
  <2>9. (x + 1) % IdxMod \in Int
    BY <2>1
  <2>10. (((x + 1) % IdxMod) - e - 1) % IdxMod = 0
    <3>1. ((x + 1) % IdxMod) + (-e - 1) = ((x + 1) % IdxMod) - e - 1
      BY <2>4, <2>9
    <3> QED BY <2>5, <2>7, <2>8, <3>1, Zenon
  <2>11. (((x + 1) % IdxMod) - x) % IdxMod = 1
    <3>1. ((x + 1) % IdxMod) + (-x) = ((x + 1) % IdxMod) - x
      BY <2>4, <2>9
    <3> QED BY <2>6, <2>7, <2>8, <3>1, Zenon
  <2>12. NeedEvent(e, (x + 1) % IdxMod, x)
    BY <2>10, <2>11 DEF NeedEvent
  <2>13. NeedEvent(ring[q].event, (ring[q].usedIdx + 0 + 1) % IdxMod,
                   (ring[q].usedIdx + 0) % IdxMod)
    <3>1. x + 0 + 1 = x + 1
      BY <2>4
    <3> QED BY <2>3, <2>12, <3>1 DEF x, e
  <2> QED BY <1>0, <1>2, <2>13, Zenon DEF ShouldInterrupt
<1> QED BY <1>1, <1>2

(* A visit of the device tells a sleeping driver of the first completion.  *)
LEMMA ServesAlert ==
    ASSUME TypeOK, setup' = setup, NEW q \in QueueIds, Alert(q), Serves(q),
           driver'[q].seen = driver[q].seen, driver'[q].phase = driver[q].phase,
           isr' = isr
    PROVE  Alert(q)'
<1>1. PICK n \in 0 .. Waiting(q) : /\ ring'[q] = Publish(q, n)
                                   /\ n # 0 /\ ShouldInterrupt(q, n) => pending'
  BY Zenon DEF Serves
<1>2. n \in Nat /\ Waiting(q) \in Nat
  BY WaitingRange
<1>3. /\ Publish(q, n).event = ring[q].event
      /\ Publish(q, n).noInterrupt = ring[q].noInterrupt
      /\ Publish(q, n).usedIdx = (ring[q].usedIdx + n) % IdxMod
  BY <1>2, PublishIs
<1>4. /\ ring'[q].event = ring[q].event /\ ring'[q].noInterrupt = ring[q].noInterrupt
      /\ ring'[q].usedIdx = (ring[q].usedIdx + n) % IdxMod
  BY <1>1, <1>3
<1>5. pending => pending'
  BY DEF Serves
<1>6. ASSUME driver[q].phase = "asleep", ring'[q].usedIdx # driver[q].seen
      PROVE  pending' \/ isr' = "acking"
  <2>1. CASE ring[q].usedIdx # driver[q].seen
    BY <1>5, <1>6, <2>1 DEF Alert
  <2>2. CASE ring[q].usedIdx = driver[q].seen
    <3>1. n # 0
      <4> SUFFICES ASSUME n = 0  PROVE FALSE
        OBVIOUS
      <4>1. (ring[q].usedIdx + 0) % IdxMod = ring[q].usedIdx
        BY Sizes, Typed DEF RingType, Indices
      <4> QED BY <1>4, <1>6, <2>2, <4>1
    <3>2. n \in 1 .. Waiting(q)
      BY <1>2, <3>1
    <3>3. ShouldInterrupt(q, n)
      BY <1>6, <2>2, <3>2, FirstSignals
    <3> QED BY <1>1, <3>1, <3>3
  <2> QED BY <2>1, <2>2
<1> QED BY <1>4, <1>6 DEF Alert

(* A step that touches neither the queue's indices nor its driver.         *)
LEMMA QuietAlert ==
    ASSUME NEW q \in QueueIds, Alert(q), ring'[q].usedIdx = ring[q].usedIdx,
           ring'[q].event = ring[q].event, ring'[q].noInterrupt = ring[q].noInterrupt,
           driver'[q].seen = driver[q].seen, driver'[q].phase = driver[q].phase,
           pending \/ isr = "acking" => pending' \/ isr' = "acking"
    PROVE  Alert(q)'
BY DEF Alert

(* A queue that starts again has nothing to tell.                          *)
LEMMA FreshAlert ==
    ASSUME NEW q \in QueueIds, ring'[q] = EmptyRing(q), driver'[q] = NewDriver
    PROVE  Alert(q)'
BY DEF Alert, EmptyRing, NewDriver

LEMMA AlertNext == ~StandardLayout /\ TypeOK /\ AllAlert /\ [Next]_vars => AllAlert'
<1> SUFFICES ASSUME ~StandardLayout, TypeOK, AllAlert, [Next]_vars  PROVE AllAlert'
  OBVIOUS
<1>t. /\ queue \in [QueueIds -> [ready : BOOLEAN, lastAvail : Indices]]
      /\ \A q \in QueueIds : ring[q] \in RingType(q)
      /\ \A q \in QueueIds : driver[q] \in DriverType(q)
      /\ DOMAIN ring = QueueIds /\ DOMAIN driver = QueueIds
      /\ status \in SUBSET StatusBits /\ data \in 0 .. MaxData
      /\ isr \in {"idle", "acking"}
  BY TypeOKIs
<1>a. \A q \in QueueIds : Alert(q)
  BY DEF AllAlert
<1>s. setup' = setup
  BY SetupStays
<1>v. ASSUME \A q \in QueueIds : Serves(q), isr' = isr,
             \A q \in QueueIds : /\ driver'[q].seen = driver[q].seen
                                 /\ driver'[q].phase = driver[q].phase
      PROVE  AllAlert'
  <2> SUFFICES ASSUME NEW q \in QueueIds  PROVE Alert(q)'
    BY DEF AllAlert, QueueIds
  <2>1. Alert(q) /\ Serves(q) /\ isr' = isr /\ driver'[q].seen = driver[q].seen
        /\ driver'[q].phase = driver[q].phase
    BY <1>a, <1>v
  <2> QED BY <1>s, <2>1, ServesAlert
<1> USE DEF RingType, DriverType
<1>1. CASE Claim
  <2>1. \A q \in QueueIds : Alert(q)'
    BY <1>1, <1>a, QuietAlert DEF Claim
  <2> QED BY <2>1 DEF AllAlert, QueueIds
<1>2. CASE Ack
  <2>1. \A q \in QueueIds : driver'[q].phase = "draining"
    BY <1>2, <1>t DEF Ack
  <2> QED BY <2>1 DEF AllAlert, Alert
<1>3. CASE WriteFeatures
  <2>1. \A q \in QueueIds : Alert(q)'
    BY <1>3, <1>a, QuietAlert DEF WriteFeatures
  <2> QED BY <2>1 DEF AllAlert, QueueIds
<1>4. ASSUME NEW bit \in {"FEATURES_OK", "DRIVER_OK"}, WriteStatus(bit)  PROVE AllAlert'
  <2>1. Negotiated(status \cup {bit}) \in SUBSET StatusBits
    BY <1>t DEF Negotiated, StatusBits
  <2>2. \A q \in QueueIds : Serves(q)
    BY <1>4, <1>t, <2>1, VisitServes DEF WriteStatus
  <2> QED BY <1>4, <1>v, <2>2 DEF WriteStatus
<1>5. ASSUME NEW q \in QueueIds, StartQueue(q)  PROVE AllAlert'
  <2> DEFINE qs == [queue EXCEPT ![q].ready = TRUE]
  <2>1. /\ qs \in [QueueIds -> [ready : BOOLEAN, lastAvail : Indices]]
        /\ \A p \in QueueIds : qs[p].lastAvail = queue[p].lastAvail
    BY <1>t, ReadyTyped, Zenon
  <2>2. Visit(ReadyScans(device, q), status, qs, data)
    BY <1>5 DEF StartQueue
  <2> HIDE DEF qs
  <2>3. \A p \in QueueIds : Serves(p)
    BY <1>t, <2>1, <2>2, VisitServes
  <2> QED BY <1>5, <1>v, <2>3 DEF StartQueue
<1>6. ASSUME NEW q \in QueueIds, Notify(q)  PROVE AllAlert'
  <2>1. \A p \in QueueIds : Serves(p)
    BY <1>6, <1>t, VisitServes DEF Notify
  <2>2. isr' = isr
        /\ \A p \in QueueIds : /\ driver'[p].seen = driver[p].seen
                               /\ driver'[p].phase = driver[p].phase
    BY <1>6, <1>t DEF Notify
  <2> QED BY <1>v, <2>1, <2>2
<1>7. ASSUME NEW n \in 1 .. MaxData, Inject(n)  PROVE AllAlert'
  <2>1. data + n \in 0 .. MaxData
    BY <1>7, <1>t, VirtqueueAssumption DEF Inject
  <2>2. \A q \in QueueIds : Serves(q)
    BY <1>7, <1>t, <2>1, VisitServes DEF Inject
  <2> QED BY <1>7, <1>v, <2>2 DEF Inject
<1>8. ASSUME NEW q \in QueueIds, StopQueue(q)  PROVE AllAlert'
  <2> SUFFICES ASSUME NEW p \in QueueIds  PROVE Alert(p)'
    BY DEF AllAlert, QueueIds
  <2>1. CASE p = q
    BY <1>8, <1>t, <2>1, FreshAlert DEF StopQueue
  <2>2. CASE p # q
    BY <1>8, <1>a, <1>t, <2>2, QuietAlert DEF StopQueue
  <2> QED BY <2>1, <2>2
<1>9. ASSUME NEW q \in QueueIds, ResetQueue(q)  PROVE AllAlert'
  <2> SUFFICES ASSUME NEW p \in QueueIds  PROVE Alert(p)'
    BY DEF AllAlert, QueueIds
  <2>1. CASE p = q
    BY <1>9, <1>t, <2>1, FreshAlert DEF ResetQueue
  <2>2. CASE p # q
    <3>1. driver'[p].phase = "draining"
      BY <1>9, <1>t, <2>2 DEF ResetQueue
    <3> QED BY <3>1 DEF Alert
  <2> QED BY <2>1, <2>2
<1>10. CASE Reset
  <2>1. \A q \in QueueIds : Alert(q)'
    BY <1>10, FreshAlert DEF Reset
  <2> QED BY <2>1 DEF AllAlert, QueueIds
<1>11. ASSUME NEW q \in QueueIds, NEW h \in Slots(q), NEW bad \in {FALSE, setup.sloppy},
              Submit(q, h, bad)
       PROVE  AllAlert'
  <2>1. \A p \in QueueIds : Alert(p)'
    BY <1>11, <1>a, <1>t, QuietAlert DEF Submit, devVars
  <2> QED BY <2>1 DEF AllAlert, QueueIds
<1>12. ASSUME NEW q \in QueueIds, Collect(q)  PROVE AllAlert'
  <2> SUFFICES ASSUME NEW p \in QueueIds  PROVE Alert(p)'
    BY DEF AllAlert, QueueIds
  <2>1. CASE p = q
    <3>1. driver'[p].phase = "draining"
      BY <1>12, <1>t, <2>1 DEF Collect
    <3> QED BY <3>1 DEF Alert
  <2>2. CASE p # q
    BY <1>12, <1>a, <1>t, <2>2, QuietAlert DEF Collect, devVars
  <2> QED BY <2>1, <2>2
<1>13. ASSUME NEW q \in QueueIds, Rearm(q)  PROVE AllAlert'
  <2> SUFFICES ASSUME NEW p \in QueueIds  PROVE Alert(p)'
    BY DEF AllAlert, QueueIds
  <2>1. CASE p = q
    <3>1. /\ driver'[p].phase = "checking" /\ driver'[p].seen = driver[p].seen
          /\ ring'[p].event = driver[p].seen /\ ring'[p].noInterrupt = FALSE
      BY <1>13, <1>t, <2>1 DEF Rearm
    <3> QED BY <3>1 DEF Alert
  <2>2. CASE p # q
    BY <1>13, <1>a, <1>t, <2>2, QuietAlert DEF Rearm, devVars
  <2> QED BY <2>1, <2>2
<1>14. ASSUME NEW q \in QueueIds, Check(q)  PROVE AllAlert'
  <2> SUFFICES ASSUME NEW p \in QueueIds  PROVE Alert(p)'
    BY DEF AllAlert, QueueIds
  <2>1. CASE p = q
    <3>1. /\ driver[p].phase = "checking" /\ driver'[p].seen = driver[p].seen
          /\ driver'[p].phase = IF ring[p].usedIdx = driver[p].seen THEN "asleep"
                                ELSE "draining"
          /\ ring' = ring
      BY <1>14, <1>t, <2>1 DEF Check
    <3>2. Alert(p)
      BY <1>a
    <3> QED BY <3>1, <3>2 DEF Alert
  <2>2. CASE p # q
    BY <1>14, <1>a, <1>t, <2>2, QuietAlert DEF Check, devVars
  <2> QED BY <2>1, <2>2
<1>15. CASE UNCHANGED vars
  <2>1. \A q \in QueueIds : Alert(q)'
    BY <1>15, <1>a, QuietAlert DEF vars
  <2> QED BY <2>1 DEF AllAlert, QueueIds
<1> QED
  BY <1>1, <1>2, <1>3, <1>4, <1>5, <1>6, <1>7, <1>8, <1>9, <1>10, <1>11, <1>12, <1>13,
     <1>14, <1>15, Zenon
  DEF Next, Handler, Collector

(* A driver that writes its used event where the devices read it never     *)
(* sleeps on completions without an interrupt on its way, although the     *)
(* device decides from an index or a flag that the driver is changing.     *)
THEOREM CompletionsNotLost == ~StandardLayout => (Spec => []NoLostCompletion)
<1> SUFFICES ASSUME ~StandardLayout  PROVE Spec => []NoLostCompletion
  OBVIOUS
<1>1. Init => TypeOK /\ AllAlert
  <2>1. Init => AllAlert
    BY DEF Init, AllAlert, Alert, EmptyRing, NewDriver
  <2> QED BY <2>1, TypeOKInit
<1>2. TypeOK /\ AllAlert /\ [Next]_vars => (TypeOK /\ AllAlert)'
  BY TypeOKNext, AlertNext
<1>3. TypeOK /\ AllAlert => NoLostCompletion
  BY UnseenIs DEF NoLostCompletion, AllAlert, Alert
<1> QED BY <1>1, <1>2, <1>3, PTL DEF Spec

-----------------------------------------------------------------------------
(* Stretches of requests as sequences.                                     *)

(* The requests numbered x to y - 1, in a function of the number.          *)
Part(R, x, y) == [i \in 1 .. y - x |-> R[x + i - 1]]

IsPart(f, S, R, x, y) == /\ f \in Seq(S) /\ Len(f) = y - x
                         /\ \A i \in 1 .. y - x : f[i] = R[x + i - 1]

LEMMA PartIs ==
    ASSUME NEW S, NEW R, NEW x \in Int, NEW y \in Int, x <= y, \A p \in x .. y - 1 : R[p] \in S
    PROVE  IsPart(Part(R, x, y), S, R, x, y)
<1>1. Part(R, x, y) \in [1 .. y - x -> S] /\ y - x \in Nat
  <2>1. \A i \in 1 .. y - x : x + i - 1 \in x .. y - 1
    OBVIOUS
  <2> QED BY <2>1 DEF Part
<1>2. Part(R, x, y) \in Seq(S) /\ Len(Part(R, x, y)) = y - x
  BY <1>1, SequenceOf
<1> QED BY <1>2 DEF Part, IsPart

LEMMA PartSame ==
    ASSUME NEW R, NEW T, NEW x \in Int, NEW y \in Int, \A p \in x .. y - 1 : R[p] = T[p]
    PROVE  Part(R, x, y) = Part(T, x, y)
<1>1. \A i \in 1 .. y - x : x + i - 1 \in x .. y - 1
  OBVIOUS
<1> QED BY <1>1 DEF Part

LEMMA PartCat ==
    ASSUME NEW R, NEW x \in Int, NEW y \in Int, NEW z \in Int, x <= y, y <= z
    PROVE  Part(R, x, y) \o Part(R, y, z) = Part(R, x, z)
<1> DEFINE S == {R[p] : p \in x .. z - 1}
           l == Part(R, x, y)
           r == Part(R, y, z)
           w == Part(R, x, z)
<1>0. /\ \A p \in x .. y - 1 : R[p] \in S
      /\ \A p \in y .. z - 1 : R[p] \in S
      /\ \A p \in x .. z - 1 : R[p] \in S
  OBVIOUS
<1> HIDE DEF S
<1>1. /\ l \in Seq(S) /\ Len(l) = y - x /\ \A i \in 1 .. y - x : l[i] = R[x + i - 1]
      /\ r \in Seq(S) /\ Len(r) = z - y /\ \A i \in 1 .. z - y : r[i] = R[y + i - 1]
      /\ w \in Seq(S) /\ Len(w) = z - x /\ \A i \in 1 .. z - x : w[i] = R[x + i - 1]
  <2>0. x <= z
    OBVIOUS
  <2>1. IsPart(l, S, R, x, y)
    BY <1>0, PartIs
  <2>2. IsPart(r, S, R, y, z)
    BY <1>0, PartIs
  <2>3. IsPart(w, S, R, x, z)
    BY <1>0, <2>0, PartIs
  <2> HIDE DEF l, r, w
  <2> QED BY <2>1, <2>2, <2>3 DEF IsPart
<1> HIDE DEF l, r, w
<1>2. /\ l \o r \in Seq(S) /\ Len(l \o r) = z - x
      /\ \A i \in 1 .. z - x : (l \o r)[i] = IF i <= y - x THEN l[i] ELSE r[i - (y - x)]
  <2>1. Len(l) + Len(r) = z - x /\ Len(l) = y - x
    BY <1>1
  <2>2. /\ l \o r \in Seq(S) /\ Len(l \o r) = Len(l) + Len(r)
        /\ \A i \in 1 .. Len(l) + Len(r) :
              (l \o r)[i] = IF i <= Len(l) THEN l[i] ELSE r[i - Len(l)]
    BY <1>1, ConcatProperties, Zenon
  <2> QED BY <2>1, <2>2
<1>3. ASSUME NEW i \in 1 .. z - x  PROVE (l \o r)[i] = w[i]
  <2>1. CASE i <= y - x
    <3>1. i \in 1 .. y - x
      BY <2>1
    <3>2. (l \o r)[i] = l[i] /\ l[i] = R[x + i - 1] /\ w[i] = R[x + i - 1]
      BY <1>1, <1>2, <2>1, <3>1, Zenon
    <3> QED BY <3>2
  <2>2. CASE ~(i <= y - x)
    <3>1. i - (y - x) \in 1 .. z - y /\ y + (i - (y - x)) - 1 = x + i - 1
      BY <2>2
    <3>2. r[i - (y - x)] = R[x + i - 1]
      BY <1>1, <3>1
    <3> QED BY <1>1, <1>2, <2>2, <3>2
  <2> QED BY <2>1, <2>2
<1> QED BY <1>1, <1>2, <1>3, SeqEqual DEF l, r, w

LEMMA PartSub ==
    ASSUME NEW R, NEW x \in Int, NEW y \in Int, NEW z \in Int, x <= y, y <= z
    PROVE  /\ SubSeq(Part(R, x, z), 1, y - x) = Part(R, x, y)
           /\ SubSeq(Part(R, x, z), y - x + 1, z - x) = Part(R, y, z)
<1> DEFINE S == {R[p] : p \in x .. z - 1}
           l == Part(R, x, y)
           r == Part(R, y, z)
           w == Part(R, x, z)
           m == y - x + 1
           k == z - x
           f == SubSeq(w, 1, y - x)
           g == SubSeq(w, m, k)
<1>0. /\ \A p \in x .. y - 1 : R[p] \in S
      /\ \A p \in y .. z - 1 : R[p] \in S
      /\ \A p \in x .. z - 1 : R[p] \in S
  OBVIOUS
<1> HIDE DEF S
<1>1. /\ l \in Seq(S) /\ Len(l) = y - x /\ \A i \in 1 .. y - x : l[i] = R[x + i - 1]
      /\ r \in Seq(S) /\ Len(r) = z - y /\ \A i \in 1 .. z - y : r[i] = R[y + i - 1]
      /\ w \in Seq(S) /\ Len(w) = z - x /\ \A i \in 1 .. z - x : w[i] = R[x + i - 1]
  <2>0. x <= z
    OBVIOUS
  <2>1. IsPart(l, S, R, x, y)
    BY <1>0, PartIs
  <2>2. IsPart(r, S, R, y, z)
    BY <1>0, PartIs
  <2>3. IsPart(w, S, R, x, z)
    BY <1>0, <2>0, PartIs
  <2> HIDE DEF l, r, w
  <2> QED BY <2>1, <2>2, <2>3 DEF IsPart
<1> HIDE DEF l, r, w
<1>2. /\ f \in Seq(S) /\ Len(f) = y - x /\ \A i \in 1 .. y - x : f[i] = w[i]
  <2>1. 1 \in Int /\ y - x \in Int /\ \A i \in 1 .. y - x : w[i] \in S
    BY <1>1, ElementOfSeq
  <2>2. /\ f \in Seq(S) /\ Len(f) = IF 1 <= y - x THEN y - x - 1 + 1 ELSE 0
        /\ \A i \in 1 .. (y - x) - 1 + 1 : f[i] = w[1 + i - 1]
    BY <2>1, SubSeqProperties
  <2> HIDE DEF f
  <2>3. Len(f) = y - x /\ (y - x) - 1 + 1 = y - x /\ \A i \in Int : 1 + i - 1 = i
    BY <2>2
  <2> QED BY <2>2, <2>3
<1>3. /\ g \in Seq(S) /\ Len(g) = z - y /\ \A i \in 1 .. z - y : g[i] = w[m + i - 1]
  <2>1. m \in Int /\ k \in Int /\ \A i \in m .. k : w[i] \in S
    BY <1>1, ElementOfSeq
  <2>2. k - m + 1 = z - y /\ (IF m <= k THEN k - m + 1 ELSE 0) = z - y
    OBVIOUS
  <2> HIDE DEF m, k
  <2>3. /\ g \in Seq(S) /\ Len(g) = IF m <= k THEN k - m + 1 ELSE 0
        /\ \A i \in 1 .. k - m + 1 : g[i] = w[m + i - 1]
    BY <2>1, SubSeqProperties
  <2> HIDE DEF g
  <2> QED BY <2>2, <2>3
<1> HIDE DEF f, g
<1>4. f = l
  <2>1. \A i \in 1 .. y - x : i \in 1 .. z - x
    OBVIOUS
  <2>2. \A i \in 1 .. y - x : f[i] = l[i]
    BY <1>1, <1>2, <2>1, Zenon
  <2>3. Len(f) = Len(l) /\ \A i \in 1 .. Len(f) : f[i] = l[i]
    BY <1>1, <1>2, <2>2
  <2> QED BY <1>1, <1>2, <2>3, SeqEqual, Zenon
<1>5. ASSUME NEW i \in 1 .. z - y  PROVE g[i] = r[i]
  <2>1. m + i - 1 \in 1 .. z - x /\ x + (m + i - 1) - 1 = y + i - 1
    OBVIOUS
  <2>2. w[m + i - 1] = R[y + i - 1]
    BY <1>1, <2>1
  <2> QED BY <1>1, <1>3, <2>2
<1> HIDE DEF m, k
<1>6. g = r
  BY <1>1, <1>3, <1>5, SeqEqual
<1> QED BY <1>4, <1>6 DEF f, g, l, r, w, m, k

LEMMA PartTail ==
    ASSUME NEW R, NEW x \in Int, NEW z \in Int, x < z
    PROVE  Part(R, x, z) # <<>> /\ Tail(Part(R, x, z)) = Part(R, x + 1, z)
<1> DEFINE S == {R[p] : p \in x .. z - 1}
           r == Part(R, x + 1, z)
           w == Part(R, x, z)
<1>0. /\ \A p \in x + 1 .. z - 1 : R[p] \in S
      /\ \A p \in x .. z - 1 : R[p] \in S
  OBVIOUS
<1> HIDE DEF S
<1>1. /\ r \in Seq(S) /\ Len(r) = z - (x + 1) /\ \A i \in 1 .. z - (x + 1) : r[i] = R[(x + 1) + i - 1]
      /\ w \in Seq(S) /\ Len(w) = z - x /\ \A i \in 1 .. z - x : w[i] = R[x + i - 1]
  <2>0. x + 1 \in Int /\  x + 1 <= z /\ x <= z
    OBVIOUS
  <2>1. IsPart(r, S, R, x + 1, z)
    BY <1>0, <2>0, PartIs
  <2>2. IsPart(w, S, R, x, z)
    BY <1>0, <2>0, PartIs
  <2> HIDE DEF r, w
  <2> QED BY <2>1, <2>2 DEF IsPart
<1> HIDE DEF r, w
<1>2. w # <<>>
  BY <1>1
<1>3. Tail(w) \in Seq(S) /\ Len(Tail(w)) = z - x - 1
      /\ \A i \in 1 .. z - x - 1 : Tail(w)[i] = w[i + 1]
  BY <1>1, <1>2, HeadTailProperties
<1>4. \A i \in 1 .. z - x - 1 : Tail(w)[i] = r[i]
  <2>1. \A i \in 1 .. z - x - 1 : i + 1 \in 1 .. z - x /\ x + (i + 1) - 1 = (x + 1) + i - 1
                                 /\ i \in 1 .. z - (x + 1)
    OBVIOUS
  <2> QED BY <1>1, <1>3, <2>1
<1>5. Len(Tail(w)) = Len(r)
  BY <1>1, <1>3
<1>6. Tail(w) = r
  BY <1>1, <1>3, <1>4, <1>5, SeqEqual
<1> QED BY <1>2, <1>6 DEF r, w

LEMMA PartAppend ==
    ASSUME NEW R, NEW x \in Int, NEW a \in Int, x <= a
    PROVE  Part(R, x, a + 1) = Append(Part(R, x, a), R[a])
<1> DEFINE S == {R[p] : p \in x .. a}
           b == a + 1
           l == Part(R, x, a)
           w == Part(R, x, b)
<1>0. /\ b \in Int /\ x <= b /\ R[a] \in S
      /\ \A p \in x .. a - 1 : R[p] \in S
      /\ \A p \in x .. b - 1 : R[p] \in S
  OBVIOUS
<1> HIDE DEF S
<1>1. /\ l \in Seq(S) /\ Len(l) = a - x /\ \A i \in 1 .. a - x : l[i] = R[x + i - 1]
      /\ w \in Seq(S) /\ Len(w) = b - x /\ \A i \in 1 .. b - x : w[i] = R[x + i - 1]
  <2> HIDE DEF b
  <2>1. IsPart(l, S, R, x, a)
    BY <1>0, PartIs
  <2>2. IsPart(w, S, R, x, b)
    BY <1>0, PartIs
  <2> HIDE DEF l, w
  <2> QED BY <2>1, <2>2 DEF IsPart
<1> HIDE DEF l, w
<1>2. /\ Append(l, R[a]) \in Seq(S) /\ Len(Append(l, R[a])) = b - x
  BY <1>0, <1>1
<1>3. /\ \A i \in 1 .. Len(l) : Append(l, R[a])[i] = l[i]
      /\ Append(l, R[a])[Len(l) + 1] = R[a]
  BY <1>0, <1>1, AppendProperties
<1>4. ASSUME NEW i \in 1 .. b - x  PROVE Append(l, R[a])[i] = w[i]
  <2>1. CASE i <= a - x
    <3>1. i \in 1 .. a - x
      BY <2>1
    <3>2. i \in 1 .. Len(l)
      BY <1>1, <3>1
    <3>3. Append(l, R[a])[i] = l[i] /\ l[i] = R[x + i - 1] /\ w[i] = R[x + i - 1]
      BY <1>1, <1>3, <3>1, <3>2, Zenon
    <3> QED BY <3>3
  <2>2. CASE i = a - x + 1
    <3>1. Append(l, R[a])[i] = R[a]
      BY <1>1, <1>3, <2>2
    <3>2. x + i - 1 = a
      BY <2>2
    <3> QED BY <1>1, <3>1, <3>2
  <2>3. i <= a - x \/ i = a - x + 1
    OBVIOUS
  <2> QED BY <2>1, <2>2, <2>3, Zenon
<1>5. Append(l, R[a]) = w
  BY <1>1, <1>2, <1>4, SeqEqual
<1> QED BY <1>5 DEF l, w

-----------------------------------------------------------------------------
(* The queues keep the promise of RequestQueue, step by step.              *)

Requests(q, s, u, a) == [p \in s .. a - 1 |-> Request(q, u, p)]

Told(q, s, u, a) == /\ Posted(q) = Part(Requests(q, s, u, a), u, a)
                    /\ Done(q) = Part(Requests(q, s, u, a), s, u)

AllTold == \A q \in QueueIds : \A s, u, a \in Nat : Counts(q, s, u, a) => Told(q, s, u, a)

LEMMA AllToldIs == TypeOK => AllTold
<1> SUFFICES ASSUME TypeOK, NEW q \in QueueIds, NEW s \in Nat, NEW u \in Nat, NEW a \in Nat,
                    Counts(q, s, u, a)
             PROVE  Told(q, s, u, a)
  BY DEF AllTold
<1>1. /\ Posted(q) = [i \in 1 .. a - u |-> Request(q, u, u + i - 1)]
      /\ Done(q) = [i \in 1 .. u - s |-> Request(q, u, s + i - 1)]
  BY Contents
<1>2. s <= u /\ u <= a
  BY DEF Counts
<1>3. /\ \A i \in 1 .. a - u : u + i - 1 \in s .. a - 1
      /\ \A i \in 1 .. u - s : s + i - 1 \in s .. a - 1
  BY <1>2
<1> QED BY <1>1, <1>3 DEF Told, Part, Requests

LEMMA AllToldNext == TypeOK' => AllTold'
BY AllToldIs, PTL

(* The requests of a queue as a function, before and after a step.         *)
LEMMA RequestsTyped ==
    ASSUME TypeOK, NEW q \in QueueIds, NEW s \in Nat, NEW u \in Nat, NEW a \in Nat,
           Counts(q, s, u, a)
    PROVE  /\ Requests(q, s, u, a) \in [s .. a - 1 -> Slots(q)]
           /\ s <= u /\ u <= a
           /\ Posted(q) = Part(Requests(q, s, u, a), u, a)
           /\ Done(q) = Part(Requests(q, s, u, a), s, u)
           /\ Len(Posted(q)) = a - u /\ Len(Done(q)) = u - s
           /\ \A i \in 1 .. a - u : Posted(q)[i] = Request(q, u, u + i - 1)
           /\ \A i \in 1 .. u - s : Done(q)[i] = Request(q, u, s + i - 1)
<1>1. s <= u /\ u <= a
  BY DEF Counts
<1>2. Told(q, s, u, a)
  BY AllToldIs DEF AllTold
<1>3. \A p \in s .. a - 1 : Request(q, u, p) \in Slots(q)
  BY RequestTyped
<1>4. Requests(q, s, u, a) \in [s .. a - 1 -> Slots(q)]
  BY <1>3 DEF Requests
<1>5. /\ \A p \in u .. a - 1 : Requests(q, s, u, a)[p] \in Slots(q)
      /\ \A p \in s .. u - 1 : Requests(q, s, u, a)[p] \in Slots(q)
  BY <1>1, <1>4
<1>6. /\ IsPart(Part(Requests(q, s, u, a), u, a), Slots(q), Requests(q, s, u, a), u, a)
      /\ IsPart(Part(Requests(q, s, u, a), s, u), Slots(q), Requests(q, s, u, a), s, u)
  BY <1>1, <1>5, PartIs
<1>7. Len(Posted(q)) = a - u /\ Len(Done(q)) = u - s
  BY <1>2, <1>6 DEF Told, IsPart
<1>8. /\ \A i \in 1 .. a - u : Posted(q)[i] = Request(q, u, u + i - 1)
      /\ \A i \in 1 .. u - s : Done(q)[i] = Request(q, u, s + i - 1)
  BY <1>1, Contents
<1> QED BY <1>1, <1>2, <1>4, <1>7, <1>8, Zenon DEF Told

LEMMA UntouchedRefines ==
    ASSUME TypeOK, TypeOK', setup' = setup, NEW q \in QueueIds, Places(q), Untouched(q)
    PROVE  Posted(q)' = Posted(q) /\ Done(q)' = Done(q)
<1>1. PICK s, u, a \in Nat : Counts(q, s, u, a) /\ Placed(q, s, u, a)
  BY Zenon DEF Places
<1>2. Counts(q, s, u, a)' /\ \A p : Request(q, u, p)' = Request(q, u, p)
  BY <1>1, UntouchedMoves
<1>3. Told(q, s, u, a) /\ Told(q, s, u, a)'
  BY <1>1, <1>2, AllToldIs, AllToldNext DEF AllTold
<1>4. Requests(q, s, u, a)' = Requests(q, s, u, a)
  BY <1>2 DEF Requests
<1> QED BY <1>3, <1>4 DEF Told

LEMMA DropsRefines ==
    ASSUME TypeOK, TypeOK', setup' = setup, NEW q \in QueueIds, Drops(q)
    PROVE  Posted(q)' = <<>> /\ Done(q)' = <<>>
<1>1. Counts(q, 0, 0, 0)'
  BY DropsMoves
<1>2. Told(q, 0, 0, 0)'
  BY <1>1, AllToldNext DEF AllTold
<1>3. \A R : Part(R, 0, 0) = <<>>
  BY DEF Part
<1> QED BY <1>2, <1>3 DEF Told

LEMMA ServesRefines ==
    ASSUME TypeOK, TypeOK', setup' = setup, NEW q \in QueueIds, Places(q),
           Serves(q), SameRequests(q)
    PROVE  \E n \in 0 .. Len(Posted(q)) :
              /\ Posted(q)' = SubSeq(Posted(q), n + 1, Len(Posted(q)))
              /\ Done(q)' = Done(q) \o SubSeq(Posted(q), 1, n)
<1>1. PICK s, u, a \in Nat : Counts(q, s, u, a) /\ Placed(q, s, u, a)
  BY Zenon DEF Places
<1>2. PICK n \in 0 .. a - u :
            /\ Counts(q, s, u + n, a)'
            /\ \A p \in s .. a - 1 : Request(q, u + n, p)' = Request(q, u, p)
  BY <1>1, ServesMoves
<1> DEFINE R == Requests(q, s, u, a)
           v == u + n
<1>3. /\ R \in [s .. a - 1 -> Slots(q)] /\ s <= u /\ u <= a
      /\ Posted(q) = Part(R, u, a) /\ Done(q) = Part(R, s, u) /\ Len(Posted(q)) = a - u
  BY <1>1, RequestsTyped
<1>4. v \in Nat /\ u <= v /\ v <= a /\ v - u = n
  BY <1>2, <1>3
<1>5. Told(q, s, v, a)'
  BY <1>2, <1>4, AllToldNext DEF AllTold
<1>6. Requests(q, s, v, a)' = R
  BY <1>2 DEF Requests
<1>7. Posted(q)' = Part(R, v, a) /\ Done(q)' = Part(R, s, v)
  BY <1>5, <1>6 DEF Told
<1> HIDE DEF R, v
<1>8. /\ SubSeq(Part(R, u, a), 1, v - u) = Part(R, u, v)
      /\ SubSeq(Part(R, u, a), v - u + 1, a - u) = Part(R, v, a)
  <2>1. s \in Int /\ a \in Int /\ u \in Int /\ v \in Int
    BY <1>4
  <2> QED BY <1>3, <1>4, <2>1, PartSub, Zenon
<1>9. Part(R, s, u) \o Part(R, u, v) = Part(R, s, v)
  <2>1. s \in Int /\ a \in Int /\ u \in Int /\ v \in Int /\ s <= s
    BY <1>4
  <2> QED BY <1>3, <1>4, <2>1, PartCat, Zenon
<1>10. /\ Posted(q)' = SubSeq(Posted(q), n + 1, Len(Posted(q)))
       /\ Done(q)' = Done(q) \o SubSeq(Posted(q), 1, n)
  BY <1>3, <1>4, <1>7, <1>8, <1>9
<1>11. n \in 0 .. Len(Posted(q))
  BY <1>3
<1> QED BY <1>10, <1>11

LEMMA CollectsRefines ==
    ASSUME TypeOK, TypeOK', setup' = setup, NEW q \in QueueIds, Places(q), Collects(q)
    PROVE  Done(q) # <<>> /\ Done(q)' = Tail(Done(q)) /\ Posted(q)' = Posted(q)
<1>1. PICK s, u, a \in Nat : Counts(q, s, u, a) /\ Placed(q, s, u, a)
  BY Zenon DEF Places
<1>2. /\ s < u
      /\ Counts(q, s + 1, u, a)'
      /\ \A p \in s .. a - 1 : Request(q, u, p)' = Request(q, u, p)
  BY <1>1, CollectsMoves
<1> DEFINE R == Requests(q, s, u, a)
           t == s + 1
           T == Requests(q, t, u, a)'
<1>3. /\ R \in [s .. a - 1 -> Slots(q)] /\ s <= u /\ u <= a
      /\ Posted(q) = Part(R, u, a) /\ Done(q) = Part(R, s, u)
  BY <1>1, RequestsTyped
<1>4. t \in Nat
  OBVIOUS
<1>5. Told(q, t, u, a)'
  BY <1>2, <1>4, AllToldNext DEF AllTold
<1>6. \A p \in t .. a - 1 : T[p] = R[p]
  BY <1>2 DEF Requests
<1>7. Posted(q)' = Part(T, u, a) /\ Done(q)' = Part(T, t, u)
  BY <1>5 DEF Told
<1> HIDE DEF R, T
<1>8. Part(T, u, a) = Part(R, u, a) /\ Part(T, t, u) = Part(R, t, u)
  <2>1. \A p \in u .. a - 1 : T[p] = R[p]
    BY <1>2, <1>6
  <2>2. \A p \in t .. u - 1 : T[p] = R[p]
    BY <1>3, <1>6
  <2>3. u \in Int /\ a \in Int /\ t \in Int
    OBVIOUS
  <2> QED BY <2>1, <2>2, <2>3, PartSame, Zenon
<1>9. Part(R, s, u) # <<>> /\ Tail(Part(R, s, u)) = Part(R, t, u)
  <2>1. s \in Int /\ a \in Int /\ u \in Int /\ s <= s
    OBVIOUS
  <2> QED BY <1>2, <1>3, <2>1, PartTail, Zenon
<1> QED BY <1>3, <1>7, <1>8, <1>9

LEMMA PostsRefines ==
    ASSUME TypeOK, TypeOK', setup' = setup, NEW q \in QueueIds, Places(q),
           NEW h \in Slots(q), Posts(q, h)
    PROVE  /\ Posted(q)' = Append(Posted(q), h) /\ Done(q)' = Done(q)
           /\ \A i \in 1 .. Len(Posted(q)) : Posted(q)[i] # h
           /\ \A i \in 1 .. Len(Done(q)) : Done(q)[i] # h
<1>1. PICK s, u, a \in Nat : Counts(q, s, u, a) /\ Placed(q, s, u, a)
  BY Zenon DEF Places
<1>2. /\ Counts(q, s, u, a + 1)'
      /\ Request(q, u, a)' = h
      /\ \A p \in s .. a - 1 : Request(q, u, p)' = Request(q, u, p)
  BY <1>1, PostsMoves
<1> DEFINE R == Requests(q, s, u, a)
           b == a + 1
           T == Requests(q, s, u, b)'
<1>3. /\ R \in [s .. a - 1 -> Slots(q)] /\ s <= u /\ u <= a
      /\ Posted(q) = Part(R, u, a) /\ Done(q) = Part(R, s, u)
      /\ Len(Posted(q)) = a - u /\ Len(Done(q)) = u - s
      /\ \A i \in 1 .. a - u : Posted(q)[i] = Request(q, u, u + i - 1)
      /\ \A i \in 1 .. u - s : Done(q)[i] = Request(q, u, s + i - 1)
  BY <1>1, RequestsTyped
<1>4. b \in Nat
  OBVIOUS
<1>5. Told(q, s, u, b)'
  BY <1>2, <1>4, AllToldNext DEF AllTold
<1>6. /\ \A p \in s .. a - 1 : T[p] = R[p]
      /\ T[a] = h
      /\ T \in [s .. a -> Slots(q)]
  <2>1. b - 1 = a
    OBVIOUS
  <2>2. \A p \in s .. a : p = a \/ p \in s .. a - 1
    OBVIOUS
  <2>3. \A p \in s .. a : Request(q, u, p)' \in Slots(q)
    BY <1>1, <1>2, <2>2, RequestTyped
  <2> HIDE DEF b
  <2>4. T = [p \in s .. a |-> Request(q, u, p)']
    BY <2>1 DEF Requests
  <2> HIDE DEF T
  <2>5. \A p \in s .. a - 1 : p \in s .. a
    OBVIOUS
  <2>6. a \in s .. a
    BY <1>3
  <2> QED BY <1>2, <2>3, <2>4, <2>5, <2>6 DEF Requests
<1>7. Posted(q)' = Part(T, u, b) /\ Done(q)' = Part(T, s, u)
  BY <1>5 DEF Told
<1> HIDE DEF R, T
<1>8. Part(T, u, a) = Part(R, u, a) /\ Part(T, s, u) = Part(R, s, u)
  <2>1. \A p \in u .. a - 1 : T[p] = R[p]
    BY <1>3, <1>6
  <2>2. \A p \in s .. u - 1 : T[p] = R[p]
    BY <1>3, <1>6
  <2>3. u \in Int /\ a \in Int /\ s \in Int
    OBVIOUS
  <2> QED BY <2>1, <2>2, <2>3, PartSame, Zenon
<1>9. Part(T, u, b) = Append(Part(T, u, a), h)
  <2>1. s \in Int /\ a \in Int /\ u \in Int
    OBVIOUS
  <2>2. Part(T, u, a + 1) = Append(Part(T, u, a), T[a])
    BY <1>3, <1>6, <2>1, PartAppend, Zenon
  <2> QED BY <1>6, <2>2
<1>10. h \notin driver[q].inflight
  BY DEF Posts
<1>11. \A i \in 1 .. a - u : Posted(q)[i] # h
  <2>1. \A i \in 1 .. a - u : u + i - 1 \in s .. a - 1
    BY <1>3
  <2> QED BY <1>1, <1>3, <1>10, <2>1 DEF Placed
<1>12. \A i \in 1 .. u - s : Done(q)[i] # h
  <2>1. \A i \in 1 .. u - s : s + i - 1 \in s .. a - 1
    BY <1>3
  <2> QED BY <1>1, <1>3, <1>10, <2>1 DEF Placed
<1> QED BY <1>3, <1>7, <1>8, <1>9, <1>11, <1>12

(* Every step of the devices, the driver and the host is one of the        *)
(* abstract queue, or leaves it as it is.                                  *)
LEMMA StepRefines ==
    ASSUME TypeOK, TypeOK', setup' = setup, InPlace, StepOfAKind
    PROVE  Q!Next
<1> DEFINE posted == [q \in QueueIds |-> Posted(q)]
           done == [q \in QueueIds |-> Done(q)]
           postedN == [q \in QueueIds |-> Posted(q)']
           doneN == [q \in QueueIds |-> Done(q)']
           wantedN == [q \in QueueIds |-> Wanted(q)']
           Ranges == {0 .. s.num[q] - 1 : s \in Setups, q \in QueueIds}
<1>1. \A q \in QueueIds : Places(q)
  BY DEF InPlace
<1>2. \A q \in QueueIds : Untouched(q) => Posted(q)' = Posted(q) /\ Done(q)' = Done(q)
  BY <1>1, UntouchedRefines
<1>3. wantedN \in [QueueIds -> BOOLEAN]
  BY DEF Wanted
<1>4. CASE \A q \in QueueIds : Serves(q) /\ SameRequests(q)
  <2>1. \A q \in QueueIds : \E n \in 0 .. Len(Posted(q)) :
              /\ Posted(q)' = SubSeq(Posted(q), n + 1, Len(Posted(q)))
              /\ Done(q)' = Done(q) \o SubSeq(Posted(q), 1, n)
    BY <1>1, <1>4, ServesRefines
  <2>2. \A q \in QueueIds : \E n \in 0 .. Len(posted[q]) :
              /\ postedN[q] = SubSeq(posted[q], n + 1, Len(posted[q]))
              /\ doneN[q] = done[q] \o SubSeq(posted[q], 1, n)
    BY <2>1
  <2>3. Q!Serve
    BY <2>2 DEF Q!Serve
  <2> QED BY <1>3, <2>3 DEF Q!Next
<1>5. ASSUME NEW q \in QueueIds, NEW h \in Slots(q), Posts(q, h),
             \A p \in QueueIds \ {q} : Untouched(p)
      PROVE  Q!Next
  <2>1. /\ Posted(q)' = Append(Posted(q), h) /\ Done(q)' = Done(q)
        /\ \A i \in 1 .. Len(Posted(q)) : Posted(q)[i] # h
        /\ \A i \in 1 .. Len(Done(q)) : Done(q)[i] # h
    BY <1>1, <1>5, PostsRefines
  <2>2. h \in UNION Ranges
    <3>1. h \in 0 .. setup.num[q] - 1 /\ setup \in Setups
      BY DEF Slots, Num, TypeOK
    <3>2. \E s \in Setups, p \in QueueIds : 0 .. setup.num[q] - 1 = 0 .. s.num[p] - 1
      BY <3>1
    <3>3. 0 .. setup.num[q] - 1 \in Ranges
      BY <3>2
    <3> HIDE DEF Ranges
    <3> QED BY <3>1, <3>3
  <2>3. h \notin Q!Outstanding(q)
    BY <2>1 DEF Q!Outstanding
  <2>4. postedN = [posted EXCEPT ![q] = Append(posted[q], h)] /\ doneN = done
    BY <1>2, <1>5, <2>1
  <2>5. Q!Post(q, h)
    BY <2>3, <2>4 DEF Q!Post
  <2> QED BY <1>3, <2>2, <2>5 DEF Q!Next
<1>6. ASSUME NEW q \in QueueIds, Collects(q), \A p \in QueueIds \ {q} : Untouched(p)
      PROVE  Q!Next
  <2>1. Done(q) # <<>> /\ Done(q)' = Tail(Done(q)) /\ Posted(q)' = Posted(q)
    BY <1>1, <1>6, CollectsRefines
  <2>2. doneN = [done EXCEPT ![q] = Tail(done[q])] /\ postedN = posted /\ done[q] # <<>>
    BY <1>2, <1>6, <2>1
  <2>3. Q!Collect(q)
    BY <2>2 DEF Q!Collect
  <2> QED BY <1>3, <2>3 DEF Q!Next
<1>7. ASSUME NEW D \in SUBSET QueueIds,
             \A q \in QueueIds : IF q \in D THEN Drops(q) ELSE Untouched(q)
      PROVE  Q!Next
  <2>1. \A q \in D : Posted(q)' = <<>> /\ Done(q)' = <<>>
    BY <1>7, DropsRefines
  <2>2. /\ postedN = [q \in QueueIds |-> IF q \in D THEN <<>> ELSE posted[q]]
        /\ doneN = [q \in QueueIds |-> IF q \in D THEN <<>> ELSE done[q]]
    BY <1>2, <1>7, <2>1
  <2>3. Q!Drop(D)
    BY <2>2 DEF Q!Drop
  <2> QED BY <1>3, <2>3 DEF Q!Next
<1> QED BY <1>4, <1>5, <1>6, <1>7, Zenon DEF StepOfAKind

(* The devices' queues, with their rings in guest memory and 16-bit        *)
(* indices, implement the abstract queue: each request is completed once   *)
(* and in order, each completion is collected once and in order, and only  *)
(* a reset loses any.                                                      *)
THEOREM QueuesRefine == Spec => ImplementsRequestQueue
<1>1. Init => Q!Init
  <2> SUFFICES ASSUME Init  PROVE Q!Init
    OBVIOUS
  <2>1. TypeOK
    BY TypeOKInit
  <2>2. ASSUME NEW q \in QueueIds
        PROVE  Posted(q) = <<>> /\ Done(q) = <<>> /\ Wanted(q) = FALSE
    <3>1. 0 % IdxMod = 0
      BY <2>1, Sizes
    <3>2. Counts(q, 0, 0, 0)
      BY <2>1, <3>1, Sizes DEF Counts, Init, NoQueue, EmptyRing, NewDriver
    <3>3. Told(q, 0, 0, 0)
      BY <2>1, <3>2, AllToldIs DEF AllTold
    <3>4. \A R : Part(R, 0, 0) = <<>>
      BY DEF Part
    <3> QED BY <3>3, <3>4 DEF Told, Init, Wanted, QueueReady
  <2> QED BY <2>2 DEF Q!Init
<1>2. TypeOK /\ TypeOK' /\ InPlace /\ [Next]_vars => [Q!Next]_Q!vars
  BY SetupStays, StepKinds, StepRefines
<1>3. Spec => [](TypeOK /\ InPlace)
  <2>1. Init => TypeOK /\ InPlace
    BY TypeOKInit, InPlaceInit
  <2>2. TypeOK /\ InPlace /\ [Next]_vars => (TypeOK /\ InPlace)'
    BY TypeOKNext, InPlaceNext
  <2> QED BY <2>1, <2>2, PTL DEF Spec
<1> QED BY <1>1, <1>2, <1>3, PTL DEF Spec, ImplementsRequestQueue, Q!Spec

=============================================================================
