---------------------------- MODULE MemoryProofs ----------------------------
(***************************************************************************)
(* Proofs about Memory, for every machine, table, program and bound: types,*)
(* the protection cache and its locks, the rings, the marks of table       *)
(* entries, what translation grants, what a faulting instruction may have  *)
(* changed, and a counter that loses no addition.                          *)
(*                                                                         *)
(* An instruction is one action made of many bus accesses, so the          *)
(* inductive invariant IInv rests on a set of states, InProgress(p): what  *)
(* an instruction of a hart with protection registers p may pass through.  *)
(* Each operator of the instruction (a bus access, a walk, a check, an     *)
(* atomic instruction) is shown to stay in it, and in Sparing(p, m) as     *)
(* long as it has stored nothing.  Operators that work step by step        *)
(* (a device's writes, the reads of a walk, a fetch over a page's end) are *)
(* recursive functions: Recursion says that one exists, Carried that what  *)
(* each step carries on holds at its end.                                  *)
(***************************************************************************)
EXTENDS Memory, SequenceTheorems, WellFoundedInduction, TLAPS

-----------------------------------------------------------------------------
(* Numbers and recursion.                                                  *)

(* A non-empty set of naturals has a least element.                        *)
LEMMA LeastNatural ==
    ASSUME NEW T \in SUBSET Nat, T # {}
    PROVE  \E m \in T : \A n \in T : m <= n
<1>1. PICK m \in T : \A n \in T : <<n, m>> \notin OpToRel(<, Nat)
  BY NatLessThanWellFounded, WFMin, Zenon
<1>2. ASSUME NEW n \in T, n < m  PROVE <<n, m>> \in OpToRel(<, Nat)
  <2>1. <<n, m>> \in Nat \X Nat /\ <<n, m>>[1] < <<n, m>>[2]
    BY <1>2
  <2> QED BY <2>1, Zenon DEF OpToRel
<1>3. \A n \in T : ~(n < m)
  BY <1>1, <1>2, Zenon
<1> QED BY <1>3

(* What holds at 0 and is carried on by each step holds at the end.        *)
LEMMA Carried ==
    ASSUME NEW n \in Nat, NEW S, NEW f,
           f[0] \in S, \A i \in 1 .. n : f[i - 1] \in S => f[i] \in S
    PROVE  f[n] \in S
<1> SUFFICES ASSUME f[n] \notin S  PROVE FALSE
  OBVIOUS
<1> DEFINE Bad == {i \in 0 .. n : f[i] \notin S}
<1>1. Bad \in SUBSET Nat /\ n \in Bad
  OBVIOUS
<1>2. PICK m \in Bad : \A i \in Bad : m <= i
  <2>1. \E m \in Bad : \A i \in Bad : m <= i
    BY <1>1, LeastNatural, Zenon
  <2> QED BY <2>1
<1>3. m \in 1 .. n
  BY <1>2
<1>4. m - 1 \in 0 .. n /\ m - 1 \notin Bad
  BY <1>2, <1>3
<1> QED BY <1>2, <1>3, <1>4

(* A function of 0 .. n is defined by its value at 0 and a step.           *)
Unrolls(f, n, s, g) ==
    f = [i \in 0 .. n |-> IF i = 0 THEN s ELSE g[<<f[i - 1], i>>]]
LEMMA Recursion ==
    ASSUME NEW n \in Nat, NEW S, NEW s \in S, NEW g \in [S \X (1 .. n) -> S]
    PROVE  \E f \in [0 .. n -> S] : Unrolls(f, n, s, g)
<1> DEFINE Upto(m) == \E f \in [0 .. m -> S] : Unrolls(f, m, s, g)
           Bad == {m \in 0 .. n : ~Upto(m)}
<1> SUFFICES ASSUME Bad # {}  PROVE FALSE
  OBVIOUS
<1>1. PICK m \in Bad : \A i \in Bad : m <= i
  <2>1. Bad \in SUBSET Nat
    OBVIOUS
  <2>2. \E m \in Bad : \A i \in Bad : m <= i
    BY <2>1, LeastNatural, Zenon
  <2> QED BY <2>2
<1>2. CASE m = 0
  <2>1. [i \in 0 .. 0 |-> s] \in [0 .. 0 -> S] /\ Unrolls([i \in 0 .. 0 |-> s], 0, s, g)
    BY DEF Unrolls
  <2> QED BY <1>1, <1>2, <2>1
<1>3. CASE m # 0
  <2>1. m \in 1 .. n /\ m - 1 \in 0 .. n /\ m - 1 \notin Bad
    BY <1>1, <1>3
  <2>2. PICK f \in [0 .. m - 1 -> S] : Unrolls(f, m - 1, s, g)
    BY <2>1
  <2> DEFINE h == [i \in 0 .. m |-> IF i = m THEN g[<<f[m - 1], m>>] ELSE f[i]]
  <2>3. h \in [0 .. m -> S]
    BY <2>1, <2>2
  <2>4. \A i \in 0 .. m - 1 : f[i] = IF i = 0 THEN s ELSE g[<<f[i - 1], i>>]
    BY <2>1, <2>2 DEF Unrolls
  <2>5. ASSUME NEW i \in 0 .. m  PROVE h[i] = IF i = 0 THEN s ELSE g[<<h[i - 1], i>>]
    <3>1. CASE i = m
      <4>1. h[m] = g[<<f[m - 1], m>>] /\ h[m - 1] = f[m - 1]
        BY <2>1
      <4> QED BY <1>3, <3>1, <4>1
    <3>2. CASE i # m
      <4>1. i \in 0 .. m - 1 /\ h[i] = f[i] /\ (i # 0 => h[i - 1] = f[i - 1])
        BY <2>1, <3>2
      <4> QED BY <2>4, <4>1
    <3> QED BY <3>1, <3>2
  <2>6. Unrolls(h, m, s, g)
    BY <2>3, <2>5 DEF Unrolls
  <2> QED BY <1>1, <2>3, <2>6
<1> QED BY <1>2, <1>3

LEMMA Division ==
    ASSUME NEW a \in Int, NEW m \in Nat \ {0}
    PROVE  \E k \in Int, r \in 0 .. m - 1 : a = m * k + r /\ a % m = r
<1>1. a \div m \in Int /\ a % m \in 0 .. m - 1 /\ a = m * (a \div m) + (a % m)
  OBVIOUS
<1> QED BY <1>1

LEMMA ModIs ==
    ASSUME NEW m \in Nat \ {0}, NEW k \in Int, NEW r \in 0 .. m - 1
    PROVE  (m * k + r) % m = r
OBVIOUS

LEMMA ModAdd ==
    ASSUME NEW a \in Int, NEW b \in Int, NEW m \in Nat \ {0}
    PROVE  ((a % m) + b) % m = (a + b) % m
<1>1. PICK k \in Int, r \in 0 .. m - 1 : a = m * k + r /\ a % m = r
  BY Division
<1>2. r + b \in Int
  OBVIOUS
<1>3. PICK l \in Int, s \in 0 .. m - 1 : r + b = m * l + s /\ (r + b) % m = s
  BY <1>2, Division
<1>4. a + b = m * (k + l) + s /\ k + l \in Int
  BY <1>1, <1>3
<1>5. (m * (k + l) + s) % m = s
  BY <1>4, ModIs
<1> QED BY <1>1, <1>3, <1>4, <1>5

LEMMA ModApart ==
    ASSUME NEW a \in Int, NEW b \in Int, NEW n \in Nat \ {0}, a < b, b < a + n
    PROVE  a % n # b % n
<1> SUFFICES ASSUME a % n = b % n  PROVE FALSE
  OBVIOUS
<1>1. PICK k \in Int, r \in 0 .. n - 1 : a = n * k + r /\ a % n = r
  BY Division
<1>2. PICK l \in Int, s \in 0 .. n - 1 : b = n * l + s /\ b % n = s
  BY Division
<1>3. b - a = n * (l - k)
  BY <1>1, <1>2
<1>4. l - k >= 1 => n * (l - k) >= n
  OBVIOUS
<1>5. l - k <= 0 => n * (l - k) <= 0
  OBVIOUS
<1> QED BY <1>3, <1>4, <1>5

LEMMA ModSmall ==
    ASSUME NEW a \in Int, NEW m \in Nat \ {0}, 0 <= a, a < m
    PROVE  a % m = a
OBVIOUS

-----------------------------------------------------------------------------
(* Protection registers.                                                   *)

(* Once the cache is filled it says what a scan would.                     *)
CacheSound(p) == p.active \/ p.checked => p.active = AnyPmpConfigured(p.cfg)

(* Filling the cache moves nothing else, and is done once.                 *)
LEMMA FillingTheCache ==
    ASSUME NEW p \in PmpState
    PROVE  /\ CheckCache(p) \in PmpState
           /\ CheckCache(p).cfg = p.cfg /\ CheckCache(p).addr = p.addr
           /\ CheckCache(CheckCache(p)) = CheckCache(p)
           /\ CacheSound(p) => CacheSound(CheckCache(p))
<1>1. CASE p.active \/ p.checked
  BY <1>1 DEF CheckCache
<1>2. CASE ~(p.active \/ p.checked)
  <2> DEFINE q == refreshPMPActive(p)
  <2>1. AnyPmpConfigured(p.cfg) \in BOOLEAN
    BY DEF AnyPmpConfigured
  <2>2. q \in PmpState /\ q.cfg = p.cfg /\ q.addr = p.addr
        /\ q.checked = TRUE /\ q.active = AnyPmpConfigured(p.cfg)
    BY <2>1 DEF PmpState, refreshPMPActive
  <2>3. CheckCache(p) = q
    BY <1>2 DEF CheckCache
  <2>4. CheckCache(q) = q
    BY <2>2 DEF CheckCache
  <2> HIDE DEF q
  <2> QED BY <2>2, <2>3, <2>4 DEF CacheSound
<1> QED BY <1>1, <1>2

LEMMA AfterReset == PmpReset \in PmpState /\ CacheSound(PmpReset)
<1>1. 0 \in PmpAddrs
  BY PmpAssumption DEF PmpAddrs
<1> QED BY <1>1 DEF PmpReset, PmpState, CacheSound, CfgOff, PmpCfg, AddressModes

(* The entries' ranges depend on their registers alone.                    *)
LEMMA SameRegistersSameLocks ==
    ASSUME NEW p \in PmpState, NEW q \in PmpState, q.cfg = p.cfg, q.addr = p.addr
    PROVE  KeepsLocked(p, q)
BY DEF KeepsLocked, pmpRange

LEMMA WritingCfg ==
    ASSUME NEW p \in PmpState, NEW g, NEW new \in [Entries -> PmpCfg]
    PROVE  /\ pmpSetCfgCSR(p, g, new) \in PmpState
           /\ CacheSound(pmpSetCfgCSR(p, g, new))
           /\ KeepsLocked(p, pmpSetCfgCSR(p, g, new))
<1> DEFINE cfg == [i \in Entries |-> IF i \div GroupSize = g /\ ~p.cfg[i].l
                                       THEN new[i] ELSE p.cfg[i]]
           q == pmpSetCfgCSR(p, g, new)
<1>1. p.cfg \in [Entries -> PmpCfg] /\ cfg \in [Entries -> PmpCfg]
  BY DEF PmpState
<1>2. \A i \in Entries : p.cfg[i].l => cfg[i] = p.cfg[i]
  OBVIOUS
<1>3. SetCfg(p, g, new) = [p EXCEPT !.cfg = cfg]
  BY DEF SetCfg
<1> HIDE DEF cfg
<1>4. AnyPmpConfigured(cfg) \in BOOLEAN
  BY DEF AnyPmpConfigured
<1>5. q \in PmpState /\ q.cfg = cfg /\ q.addr = p.addr /\ q.active = AnyPmpConfigured(cfg)
  BY <1>1, <1>3, <1>4 DEF pmpSetCfgCSR, refreshPMPActive, PmpState
<1> HIDE DEF q
<1>6. \A i \in Entries : p.cfg[i].l => q.cfg[i] = p.cfg[i] /\ pmpRange(q, i) = pmpRange(p, i)
  BY <1>2, <1>5 DEF pmpRange
<1>7. KeepsLocked(p, q)
  BY <1>6 DEF KeepsLocked
<1> QED BY <1>5, <1>7 DEF q, CacheSound

LEMMA WritingAddr ==
    ASSUME NEW p \in PmpState, NEW k \in Entries, NEW v \in Nat
    PROVE  /\ pmpSetAddrCSR(p, k, v) \in PmpState
           /\ CacheSound(p) => CacheSound(pmpSetAddrCSR(p, k, v))
           /\ KeepsLocked(p, pmpSetAddrCSR(p, k, v))
<1>1. CASE p.cfg[k].l
  BY <1>1, SameRegistersSameLocks DEF pmpSetAddrCSR
<1>2. CASE ~p.cfg[k].l
  <2> DEFINE w == v % 2 ^ PmpBits
             q == [p EXCEPT !.addr[k] = w]
  <2>1. w \in PmpAddrs
    BY PmpAssumption DEF PmpAddrs
  <2> HIDE DEF w
  <2>2. q \in PmpState /\ q.cfg = p.cfg /\ q.addr = [p.addr EXCEPT ![k] = w]
        /\ q.active = p.active /\ q.checked = p.checked
    BY <2>1 DEF PmpState
  <2>3. pmpSetAddrCSR(p, k, v) = q
    BY <1>2 DEF pmpSetAddrCSR, w
  <2> HIDE DEF q
  <2>4. p.addr \in [Entries -> PmpAddrs] /\ Entries \subseteq Nat
    BY DEF PmpState, Entries
  <2>5. ASSUME NEW i \in Entries, p.cfg[i].l, pmpRange(q, i) # pmpRange(p, i)
        PROVE  p.cfg[i].a = "tor" /\ i > 0 /\ ~p.cfg[i - 1].l /\ q.addr[i] = p.addr[i]
    <3>1. i # k /\ q.addr[i] = p.addr[i]
      BY <1>2, <2>2, <2>4, <2>5
    <3>2. i = k + 1
      <4> SUFFICES ASSUME i # k + 1  PROVE FALSE
        OBVIOUS
      <4>1. i # 0 => i - 1 \in Entries /\ i - 1 # k
        BY PmpAssumption DEF Entries
      <4>2. i # 0 => q.addr[i - 1] = p.addr[i - 1]
        BY <2>2, <2>4, <4>1
      <4> QED BY <2>2, <2>5, <3>1, <4>2 DEF pmpRange
    <3>3. p.cfg[i].a = "tor"
      <4> SUFFICES ASSUME p.cfg[i].a # "tor"  PROVE FALSE
        OBVIOUS
      <4>1. p.cfg[i].a \in {"off", "na4", "napot"}
        BY DEF PmpState, PmpCfg, AddressModes
      <4> QED BY <2>2, <2>5, <3>1, <4>1 DEF pmpRange
    <3> QED BY <1>2, <2>4, <3>1, <3>2, <3>3
  <2>6. KeepsLocked(p, q)
    BY <2>2, <2>5 DEF KeepsLocked
  <2> QED BY <2>2, <2>3, <2>6 DEF CacheSound
<1> QED BY <1>1, <1>2

-----------------------------------------------------------------------------
(* Rings.                                                                  *)

(* The log, oldest entry first, is what lies in the slots behind pos.      *)
InOrder(r) ==
    /\ Len(r.log) = r.cnt
    /\ \A j \in 1 .. r.cnt : r.log[j] = r.slots[(r.pos - r.cnt + j - 1) % r.size]

LEMMA EmptyRing ==
    ASSUME NEW n \in Nat \ {0}, NEW E
    PROVE  RingOf(n) \in Ring(n, E) /\ InOrder(RingOf(n))
BY DEF RingOf, Ring, InOrder

(* Putting an entry in keeps the order, also when it overwrites the oldest.*)
LEMMA PutKeepsOrder ==
    ASSUME NEW n \in Nat \ {0}, NEW E, NEW r \in Ring(n, E), InOrder(r), NEW e \in E
    PROVE  Put(r, e) \in Ring(n, E) /\ InOrder(Put(r, e))
<1> DEFINE c == r.cnt
           p == r.pos
           cnt == IF c < n THEN c + 1 ELSE c
           pos == (p + 1) % n
           slots == [r.slots EXCEPT ![p] = e]
           all == Append(r.log, e)
           log == Newest(all, n)
           q == Put(r, e)
<1>1. /\ r.slots \in [0 .. n - 1 -> E \cup {<<>>}] /\ p \in 0 .. n - 1
      /\ c \in 0 .. n /\ r.size = n /\ r.log \in Seq(E) /\ Len(r.log) = c
  BY DEF Ring, InOrder
<1>2. q.cnt = cnt /\ q.log = log /\ q.slots = slots /\ q.pos = pos /\ q.size = n
      /\ q = [r EXCEPT !.slots = slots, !.pos = pos, !.cnt = cnt, !.log = log]
  <2>1. q = [r EXCEPT !.slots = slots, !.pos = pos, !.cnt = cnt, !.log = log]
    BY <1>1 DEF Put
  <2> HIDE DEF slots, pos, cnt, log, q
  <2> QED BY <1>1, <2>1 DEF Ring
<1>3. \A j \in 1 .. c : r.log[j] = r.slots[(p - c + j - 1) % n]
  BY <1>1 DEF InOrder
<1>4. cnt \in 1 .. n /\ (cnt = c + 1 \/ (cnt = n /\ c = n))
  BY <1>1
<1>5. pos \in 0 .. n - 1 /\ slots \in [0 .. n - 1 -> E \cup {<<>>}] /\ slots[p] = e
      /\ \A k \in 0 .. n - 1 : k # p => slots[k] = r.slots[k]
  BY <1>1
<1>6. all \in Seq(E) /\ Len(all) = c + 1 /\ all[c + 1] = e
      /\ \A j \in 1 .. c : all[j] = r.log[j]
  BY <1>1
<1> HIDE DEF c, p, slots, all
<1>7. log \in Seq(E) /\ Len(log) = cnt /\ \A j \in 1 .. cnt : log[j] = all[j + c + 1 - cnt]
  <2>1. CASE c < n
    <3>1. log = all /\ cnt = c + 1
      BY <1>1, <1>6, <2>1 DEF Newest
    <3>2. \A j \in 1 .. cnt : j + c + 1 - cnt = j
      BY <1>1, <3>1
    <3> HIDE DEF log, cnt
    <3> QED BY <1>6, <3>1, <3>2
  <2>2. CASE c = n
    <3>1. log = SubSeq(all, 2, n + 1) /\ cnt = n
      BY <1>1, <1>6, <2>2 DEF Newest
    <3> HIDE DEF log, cnt
    <3>2. log \in Seq(E) /\ Len(log) = n /\ \A j \in 1 .. n : log[j] = all[j + 1]
      BY <1>6, <2>2, <3>1
    <3> QED BY <2>2, <3>1, <3>2
  <2> QED BY <1>1, <2>1, <2>2
<1>8. pos = (p + 1) % n /\ p + 1 \in Int
  BY <1>1
<1> HIDE DEF cnt, pos, log
<1>9. ASSUME NEW j \in 1 .. cnt
      PROVE  log[j] = slots[(pos - cnt + j - 1) % n]
  <2> DEFINE i == j + c + 1 - cnt
             old == p - c + i - 1
             d == j - cnt - 1
  <2>1. i \in 1 .. c + 1 /\ old \in Int /\ d \in Int /\ p \in Int
        /\ (p + 1) + d = old /\ pos - cnt + j - 1 = pos + d
    BY <1>1, <1>4, <1>5
  <2>2. (pos - cnt + j - 1) % n = old % n
    <3>1. (((p + 1) % n) + d) % n = ((p + 1) + d) % n
      <4> HIDE DEF d
      <4> QED BY <1>8, <2>1, ModAdd
    <3> QED BY <1>8, <2>1, <3>1
  <2>3. CASE i = c + 1
    <3>1. old = p /\ p % n = p
      BY <1>1, <2>3, ModSmall
    <3> QED BY <1>5, <1>6, <1>7, <2>2, <2>3, <3>1
  <2>4. CASE i # c + 1
    <3>1. i \in 1 .. c /\ old < p /\ p < old + n
      BY <1>1, <1>4, <2>1, <2>4
    <3> HIDE DEF old
    <3>2. old % n # p % n
      BY <2>1, <3>1, ModApart
    <3>3. p % n = p /\ old % n \in 0 .. n - 1
      <4>1. p \in Int /\ 0 <= p /\ p < n
        BY <1>1
      <4>2. p % n = p
        BY <4>1, ModSmall, Zenon
      <4>3. old % n \in 0 .. n - 1
        BY <2>1
      <4> QED BY <4>2, <4>3
    <3>4. slots[old % n] = r.slots[old % n]
      BY <1>5, <3>2, <3>3
    <3>5. r.log[i] = r.slots[old % n]
      BY <1>3, <3>1 DEF old
    <3>6. all[i] = r.log[i]
      BY <1>6, <3>1
    <3> QED BY <1>7, <2>2, <3>4, <3>5, <3>6
  <2> QED BY <2>3, <2>4
<1> HIDE DEF q
<1>10. q \in Ring(n, E)
  <2>1. /\ slots \in [0 .. n - 1 -> E \cup {<<>>}] /\ pos \in 0 .. n - 1
        /\ cnt \in 0 .. n /\ log \in Seq(E)
    BY <1>4, <1>5, <1>7
  <2>2. r \in [slots : [0 .. n - 1 -> E \cup {<<>>}], pos : 0 .. n - 1, cnt : 0 .. n,
                size : {n}, log : Seq(E)]
    BY DEF Ring
  <2>3. q \in [slots : [0 .. n - 1 -> E \cup {<<>>}], pos : 0 .. n - 1, cnt : 0 .. n,
                size : {n}, log : Seq(E)]
    BY <1>2, <2>1, <2>2
  <2> QED BY <2>3 DEF Ring
<1>11. InOrder(q)
  BY <1>2, <1>7, <1>9 DEF InOrder
<1> QED BY <1>10, <1>11 DEF q

(* A read-out of a ring in order is the newest of its log.                 *)
LEMMA ReadOutIsNewest ==
    ASSUME NEW n \in Nat \ {0}, NEW E, NEW r \in Ring(n, E), InOrder(r),
           NEW limit \in 0 .. n + 1
    PROVE  ReadOut(r, limit) = Newest(r.log, IF limit = 0 THEN n ELSE limit)
<1> DEFINE c == r.cnt
           p == r.pos
           l == r.log
           k == IF limit <= 0 \/ limit > c THEN c ELSE limit
           most == IF limit = 0 THEN n ELSE limit
           new == Newest(l, most)
<1>1. p \in 0 .. n - 1 /\ c \in 0 .. n /\ r.size = n /\ l \in Seq(E) /\ Len(l) = c
  BY DEF Ring, InOrder
<1>2. \A j \in 1 .. c : l[j] = r.slots[(p - c + j - 1) % n]
  BY <1>1 DEF InOrder
<1>3. ReadOut(r, limit) = [i \in 1 .. k |-> r.slots[(p - k + i - 1) % n]]
  BY <1>1 DEF ReadOut
<1>4. k \in 0 .. c /\ most \in Nat /\ ((k = c /\ c <= most) \/ (k = most /\ most < c))
  BY <1>1
<1> HIDE DEF c, p, l, k, most
<1>5. new \in Seq(E) /\ Len(new) = k /\ \A i \in 1 .. k : new[i] = l[c - k + i]
  <2>1. CASE k = c /\ c <= most
    <3>1. new = l
      BY <1>1, <2>1 DEF Newest
    <3> QED BY <1>1, <2>1, <3>1
  <2>2. CASE k = most /\ most < c
    <3>1. ~(Len(l) <= most) /\ Len(l) = c /\ k = most
      BY <1>1, <1>4, <2>2
    <3>2. new = SubSeq(l, c - k + 1, c)
      BY <3>1, Zenon DEF Newest
    <3> HIDE DEF new
    <3> QED BY <1>1, <1>4, <2>2, <3>2
  <2> QED BY <1>4, <2>1, <2>2
<1>6. ASSUME NEW i \in 1 .. k  PROVE l[c - k + i] = r.slots[(p - k + i - 1) % n]
  <2>1. c - k + i \in 1 .. c /\ p - c + (c - k + i) - 1 = p - k + i - 1
    BY <1>1, <1>4
  <2> QED BY <1>2, <2>1
<1> HIDE DEF new
<1>7. new = [i \in 1 .. k |-> r.slots[(p - k + i - 1) % n]]
  BY <1>4, <1>5, <1>6
<1> QED BY <1>3, <1>7 DEF new, c, p, l, k, most

-----------------------------------------------------------------------------
(* The bus.                                                                *)

GoodBus(b) == b \in BusState /\ InOrder(b.events) /\ InOrder(b.hits)

LEMMA NewBusIsGood == GoodBus(NewBus)
<1>1. /\ RingOf(RingSize) \in Ring(RingSize, AccessEvent) /\ InOrder(RingOf(RingSize))
      /\ RingOf(HitSize) \in Ring(HitSize, WatchpointHit) /\ InOrder(RingOf(HitSize))
  BY BusAssumption, EmptyRing
<1> QED BY <1>1 DEF NewBus, GoodBus, BusState

LEMMA WatchpointsKeepBus ==
    ASSUME NEW b, GoodBus(b), NEW op \in AccessOps, NEW addr \in Nat, NEW size
    PROVE  GoodBus(checkWatchpoint(b, op, addr, size))
<1> DEFINE first == FirstHit(b.watch[op], addr, size)
           i == CHOOSE k \in first : TRUE
           h == [seq |-> b.seq + 1, op |-> op, watch |-> b.watch[op][i].base, addr |-> addr]
<1>1. CASE first = {}
  BY <1>1 DEF checkWatchpoint
<1>2. CASE first # {}
  <2>1. b.watch[op] \in Seq(Watchpoint)
    BY DEF GoodBus, BusState, AccessOps
  <2>2. i \in 1 .. Len(b.watch[op])
    BY <1>2 DEF FirstHit
  <2> HIDE DEF first, i
  <2>3. b.watch[op][i].base \in Nat
    <3>1. b.watch[op][i] \in Watchpoint
      BY <2>1, <2>2, ElementOfSeq
    <3> QED BY <3>1 DEF Watchpoint
  <2>4. h \in WatchpointHit
    BY <2>3 DEF WatchpointHit, GoodBus, BusState
  <2>5. checkWatchpoint(b, op, addr, size) = [b EXCEPT !.last = h, !.hits = Put(b.hits, h)]
    BY <1>2 DEF checkWatchpoint, first, i
  <2> HIDE DEF h
  <2>6. Put(b.hits, h) \in Ring(HitSize, WatchpointHit) /\ InOrder(Put(b.hits, h))
    BY <2>4, PutKeepsOrder, BusAssumption DEF GoodBus, BusState
  <2> QED BY <2>4, <2>5, <2>6 DEF GoodBus, BusState
<1> QED BY <1>1, <1>2

LEMMA RecordingKeepsBus ==
    ASSUME NEW b, GoodBus(b), NEW op \in AccessOps, NEW addr \in Nat
    PROVE  GoodBus(recordAccessEvent(b, op, addr))
<1> DEFINE e == [seq |-> b.seq + 1, op |-> op, addr |-> addr]
<1>1. e \in AccessEvent /\ b.seq + 1 \in Nat
  BY DEF AccessEvent, GoodBus, BusState
<1>2. recordAccessEvent(b, op, addr) = [b EXCEPT !.seq = b.seq + 1, !.events = Put(b.events, e)]
  BY DEF recordAccessEvent
<1> HIDE DEF e
<1>3. Put(b.events, e) \in Ring(RingSize, AccessEvent) /\ InOrder(Put(b.events, e))
  BY <1>1, PutKeepsOrder, BusAssumption DEF GoodBus, BusState
<1> QED BY <1>1, <1>2, <1>3 DEF GoodBus, BusState

LEMMA AccessesKeepBus ==
    ASSUME NEW b, GoodBus(b), NEW op \in AccessOps, NEW addr \in Nat, NEW size, NEW ok
    PROVE  GoodBus(DramAccess(b, op, addr, size)) /\ GoodBus(EndMmio(b, op, addr, ok))
BY WatchpointsKeepBus, RecordingKeepsBus DEF DramAccess, EndMmio

(* The viewer's commands.                                                  *)
LEMMA ViewerKeepsBus ==
    ASSUME NEW b, GoodBus(b), NEW op \in AccessOps, NEW w \in Watchpoint, NEW on \in BOOLEAN
    PROVE  /\ GoodBus(AddWatchpoint(b, op, w))
           /\ GoodBus(ClearWatchpoints(b, op))
           /\ GoodBus(ClearLastWatchpoint(b))
           /\ GoodBus(ClearWatchpointHits(b))
           /\ GoodBus(ClearAccessTimeline(b))
           /\ GoodBus(SetTraceDRAMAccess(b, on))
<1>1. /\ RingOf(RingSize) \in Ring(RingSize, AccessEvent) /\ InOrder(RingOf(RingSize))
      /\ RingOf(HitSize) \in Ring(HitSize, WatchpointHit) /\ InOrder(RingOf(HitSize))
  BY BusAssumption, EmptyRing
<1>2. GoodBus(AddWatchpoint(b, op, w))
  <2>1. Append(b.watch[op], w) \in Seq(Watchpoint)
    BY DEF GoodBus, BusState, AccessOps
  <2>2. [b.watch EXCEPT ![op] = Append(@, w)] \in [read : Seq(Watchpoint), write : Seq(Watchpoint)]
    BY <2>1 DEF GoodBus, BusState, AccessOps
  <2> QED BY <2>2 DEF AddWatchpoint, GoodBus, BusState
<1>3. GoodBus(ClearWatchpoints(b, op))
  <2> DEFINE none == <<>>
  <2>1. none \in Seq(Watchpoint) /\ ClearWatchpoints(b, op) = [b EXCEPT !.watch[op] = none, !.last = none]
    BY DEF ClearWatchpoints
  <2> HIDE DEF none
  <2>2. [b.watch EXCEPT ![op] = none] \in [read : Seq(Watchpoint), write : Seq(Watchpoint)]
    BY <2>1 DEF GoodBus, BusState, AccessOps
  <2>3. none = <<>>
    BY DEF none
  <2> QED BY <2>1, <2>2, <2>3 DEF GoodBus, BusState
<1>4. GoodBus(ClearLastWatchpoint(b))
  BY DEF ClearLastWatchpoint, GoodBus, BusState
<1>5. GoodBus(ClearWatchpointHits(b))
  BY <1>1 DEF ClearWatchpointHits, GoodBus, BusState
<1>6. GoodBus(ClearAccessTimeline(b))
  BY <1>1 DEF ClearAccessTimeline, GoodBus, BusState
<1>7. GoodBus(SetTraceDRAMAccess(b, on))
  BY DEF SetTraceDRAMAccess, GoodBus, BusState
<1> QED BY <1>2, <1>3, <1>4, <1>5, <1>6, <1>7

-----------------------------------------------------------------------------
(* DRAM and the marks of table entries.                                    *)

Touched == [a : SUBSET Dram, d : SUBSET Dram]

(* The entries of t still carry their marks.                               *)
MarksKept(m, t) ==
    /\ \A a \in t.a : Decode(m[a]).a
    /\ \A a \in t.d : Decode(m[a]).d

Without(t, units) == [a |-> t.a \ units, d |-> t.d \ units]

LEMMA DramUnits ==
    ASSUME NEW addr \in Nat, NEW size \in {1, 2}
    PROVE  InDRAM(addr, size) <=> Units(addr, size) \subseteq Dram
BY BusAssumption DEF InDRAM, Units, Dram

(* A store leaves words in memory, and the entries it does not rewrite as  *)
(* they were.                                                              *)
LEMMA StoringWords ==
    ASSUME NEW m \in [Dram -> Words], NEW addr \in Nat, NEW size \in {1, 2},
           Units(addr, size) \subseteq Dram, NEW v \in Int
    PROVE  /\ DramStored(m, addr, size, v) \in [Dram -> Words]
           /\ \A a \in Dram \ Units(addr, size) : DramStored(m, addr, size, v)[a] = m[a]
<1>1. WordMod \in Nat \ {0}
  BY MemoryAssumption
<1>2. v % WordMod \in Words /\ v \div WordMod \in Int
  BY <1>1 DEF Words
<1>3. (v \div WordMod) % WordMod \in Words
  BY <1>1, <1>2 DEF Words
<1> DEFINE lo == v % WordMod
           hi == (v \div WordMod) % WordMod
<1>4. DramStored(m, addr, size, v) = IF size = 1 THEN [m EXCEPT ![addr] = lo]
                                     ELSE [m EXCEPT ![addr] = lo, ![addr + 1] = hi]
  BY DEF DramStored
<1>5. lo \in Words /\ hi \in Words
  BY <1>2, <1>3
<1> HIDE DEF lo, hi
<1>6. CASE size = 1
  BY <1>4, <1>5, <1>6 DEF Units
<1>7. CASE size = 2
  BY <1>4, <1>5, <1>7 DEF Units
<1> QED BY <1>6, <1>7

LEMMA StoringKeepsMarks ==
    ASSUME NEW m \in [Dram -> Words], NEW t \in Touched, MarksKept(m, t),
           NEW addr \in Nat, NEW size \in {1, 2}, Units(addr, size) \subseteq Dram, NEW v \in Int
    PROVE  /\ Without(t, Units(addr, size)) \in Touched
           /\ MarksKept(DramStored(m, addr, size, v), Without(t, Units(addr, size)))
<1>1. \A a \in Dram \ Units(addr, size) : DramStored(m, addr, size, v)[a] = m[a]
  BY StoringWords
<1>2. t.a \subseteq Dram /\ t.d \subseteq Dram
  BY DEF Touched
<1> QED BY <1>1, <1>2 DEF MarksKept, Without, Touched

LEMMA ValueOfWords ==
    ASSUME NEW m \in [Dram -> Words], NEW addr \in Nat, NEW size \in {1, 2},
           Units(addr, size) \subseteq Dram
    PROVE  DramValue(m, addr, size) \in Nat
<1>1. WordMod \in Nat \ {0}
  BY MemoryAssumption
<1>2. m[addr] \in Nat /\ (size = 2 => m[addr + 1] \in Nat)
  BY <1>1 DEF Units, Words
<1>3. CASE size = 1
  BY <1>2, <1>3 DEF DramValue
<1>4. CASE size = 2
  <2>1. WordMod * m[addr + 1] \in Nat
    BY <1>1, <1>2, <1>4
  <2> QED BY <1>2, <1>4, <2>1 DEF DramValue
<1> QED BY <1>3, <1>4

-----------------------------------------------------------------------------
(* The states an instruction may pass through on a hart whose protection   *)
(* registers are p: memory, rings and marks stay sound, and the registers  *)
(* stay as they are but for the cache.                                     *)

Faults == {"none", "access", "page", "misaligned"}
Progress == [mem : [Dram -> Words], bus : BusState, pmp : PmpState, fault : Faults,
             value : Nat, touched : Touched]
InProgress(p) ==
    {s \in Progress : /\ InOrder(s.bus.events) /\ InOrder(s.bus.hits)
                      /\ MarksKept(s.mem, s.touched)
                      /\ s.pmp \in {p, CheckCache(p)}}

LEMMA Parts ==
    ASSUME NEW p, NEW s \in InProgress(p)
    PROVE  /\ s.mem \in [Dram -> Words] /\ GoodBus(s.bus) /\ s.fault \in Faults
           /\ s.value \in Nat /\ s.touched \in Touched /\ MarksKept(s.mem, s.touched)
           /\ s.pmp \in PmpState /\ s.pmp \in {p, CheckCache(p)}
BY DEF InProgress, Progress, GoodBus

(* x is reached from s without writing memory.                             *)
Reading(p, s, x) == x \in InProgress(p) /\ x.mem = s.mem /\ x.touched = s.touched

LEMMA ReplacingBus ==
    ASSUME NEW p, NEW s \in InProgress(p), NEW b, GoodBus(b)
    PROVE  [s EXCEPT !.bus = b] \in InProgress(p)
BY DEF InProgress, Progress, GoodBus

LEMMA ReplacingFault ==
    ASSUME NEW p, NEW s \in InProgress(p), NEW b, GoodBus(b), NEW f \in Faults
    PROVE  Reading(p, s, [s EXCEPT !.bus = b, !.fault = f])
BY DEF InProgress, Progress, GoodBus, Reading

LEMMA ReplacingBusValue ==
    ASSUME NEW p, NEW s \in InProgress(p), NEW b, GoodBus(b), NEW v \in Nat
    PROVE  Reading(p, s, [s EXCEPT !.bus = b, !.value = v])
BY DEF InProgress, Progress, GoodBus, Reading

LEMMA ReplacingResult ==
    ASSUME NEW p, NEW s \in InProgress(p), NEW f \in Faults, NEW v \in Nat
    PROVE  Reading(p, s, [s EXCEPT !.fault = f]) /\ Reading(p, s, [s EXCEPT !.value = v])
BY DEF InProgress, Progress, Reading

LEMMA ReplacingMemory ==
    ASSUME NEW p, NEW s \in InProgress(p), NEW m \in [Dram -> Words], NEW b, GoodBus(b),
           NEW t \in Touched, MarksKept(m, t)
    PROVE  [s EXCEPT !.mem = m, !.bus = b, !.touched = t] \in InProgress(p)
BY DEF InProgress, Progress, GoodBus

LEMMA WritingDram ==
    ASSUME NEW p, NEW s \in InProgress(p), NEW addr \in Nat, NEW size \in {1, 2},
           Units(addr, size) \subseteq Dram, NEW v \in Int
    PROVE  /\ DramWrite(s, addr, size, v) \in InProgress(p)
           /\ DramWrite(s, addr, size, v).mem = DramStored(s.mem, addr, size, v)
           /\ DramWrite(s, addr, size, v).fault = s.fault
<1> DEFINE m == DramStored(s.mem, addr, size, v)
           b == DramAccess(s.bus, "write", addr, size)
           t == Without(s.touched, Units(addr, size))
<1>1. m \in [Dram -> Words]
  BY Parts, StoringWords
<1>2. GoodBus(b)
  <2>1. GoodBus(s.bus) /\ "write" \in AccessOps
    BY Parts DEF AccessOps
  <2> QED BY <2>1, AccessesKeepBus
<1>3. t \in Touched /\ MarksKept(m, t)
  <2>1. s.mem \in [Dram -> Words] /\ s.touched \in Touched /\ MarksKept(s.mem, s.touched)
    BY Parts
  <2> QED BY <2>1, StoringKeepsMarks
<1>4. DramWrite(s, addr, size, v) = [s EXCEPT !.mem = m, !.bus = b, !.touched = t]
  BY DEF DramWrite, Without
<1> HIDE DEF m, b, t
<1>5. [s EXCEPT !.mem = m, !.bus = b, !.touched = t] \in InProgress(p)
  BY <1>1, <1>2, <1>3, ReplacingMemory, Zenon
<1>6. /\ [s EXCEPT !.mem = m, !.bus = b, !.touched = t].mem = m
      /\ [s EXCEPT !.mem = m, !.bus = b, !.touched = t].fault = s.fault
  BY DEF InProgress, Progress
<1> QED BY <1>4, <1>5, <1>6 DEF m

-----------------------------------------------------------------------------
(* The bus accesses.                                                       *)

(* What a device writes, write by write.                                   *)
LEMMA DeviceWritesCarry ==
    ASSUME NEW S, NEW s \in S, NEW list \in Seq(DmaWrite),
           \A x \in S, i \in 1 .. Len(list) : DramWrite(x, list[i].addr, 1, list[i].val) \in S
    PROVE  DeviceWrites(s, list) \in S
<1> DEFINE n == Len(list)
           Next1(x, i) == DramWrite(x, list[i].addr, 1, list[i].val)
           g == [z \in S \X (1 .. n) |-> Next1(z[1], z[2])]
           Is(f) == f = [i \in 0 .. n |-> IF i = 0 THEN s ELSE Next1(f[i - 1], i)]
<1>1. n \in Nat
  OBVIOUS
<1>2. ASSUME NEW x \in S, NEW i \in 1 .. n  PROVE Next1(x, i) \in S
  OBVIOUS
<1> HIDE DEF Next1
<1>3. g \in [S \X (1 .. n) -> S]
  BY <1>2
<1>4. s \in S
  OBVIOUS
<1>5. PICK f \in [0 .. n -> S] : Unrolls(f, n, s, g)
  <2> HIDE DEF n, g
  <2> QED BY <1>1, <1>3, <1>4, Recursion
<1>6. Is(f)
  <2>1. \A i \in 1 .. n : g[<<f[i - 1], i>>] = Next1(f[i - 1], i)
    BY <1>1, <1>5
  <2>2. f = [i \in 0 .. n |-> IF i = 0 THEN s ELSE g[<<f[i - 1], i>>]]
    BY <1>5 DEF Unrolls
  <2> HIDE DEF g, n
  <2>3. \A i \in 0 .. n : (IF i = 0 THEN s ELSE g[<<f[i - 1], i>>])
                          = (IF i = 0 THEN s ELSE Next1(f[i - 1], i))
    BY <1>1, <2>1
  <2> QED BY <2>2, <2>3
<1> DEFINE r == CHOOSE h : Is(h)
<1>7. Is(r)
  BY <1>6, Zenon
<1>8. DeviceWrites(s, list) = r[n]
  BY Zenon DEF DeviceWrites, Next1
<1> HIDE DEF r
<1>9. r[0] \in S /\ \A i \in 1 .. n : r[i - 1] \in S => r[i] \in S
  <2>1. r[0] = s /\ \A i \in 1 .. n : r[i] = Next1(r[i - 1], i)
    BY <1>1, <1>7
  <2> QED BY <1>2, <1>4, <2>1
<1>10. r[n] \in S
  <2> HIDE DEF n
  <2> QED BY <1>1, <1>9, Carried
<1> QED BY <1>8, <1>10

LEMMA DeviceWritesStay ==
    ASSUME NEW p, NEW s \in InProgress(p), NEW list \in Seq(DmaWrite)
    PROVE  DeviceWrites(s, list) \in InProgress(p)
<1> DEFINE S == InProgress(p)
<1>1. ASSUME NEW x \in S, NEW i \in 1 .. Len(list)
      PROVE  DramWrite(x, list[i].addr, 1, list[i].val) \in S
  <2>1. list[i] \in DmaWrite
    BY ElementOfSeq
  <2>2. list[i].addr \in Dram /\ list[i].val \in Int
    BY <2>1 DEF DmaWrite
  <2>3. list[i].addr \in Nat /\ Units(list[i].addr, 1) \subseteq Dram
    BY <2>2, BusAssumption DEF Units, Dram
  <2> QED BY <2>2, <2>3, WritingDram
<1> HIDE DEF S
<1> QED BY <1>1, DeviceWritesCarry DEF S

(* The region an address belongs to is one of the list.                    *)
LEMMA RegionFound ==
    ASSUME NEW addr, NEW size, findRegion(addr, size) # 0
    PROVE  /\ findRegion(addr, size) \in DOMAIN Regions
           /\ Regions[findRegion(addr, size)] \in Region
<1> DEFINE c == Candidates(addr, size)
<1>1. c \in SUBSET Nat /\ c \subseteq 1 .. Len(Regions) /\ Regions \in Seq(Region)
  BY MemoryAssumption DEF Candidates
<1>2. c # {} /\ findRegion(addr, size) = CHOOSE i \in c : \A j \in c : i <= j
  BY DEF findRegion
<1>3. \E i \in c : \A j \in c : i <= j
  BY <1>1, <1>2, LeastNatural, Zenon
<1>4. findRegion(addr, size) \in c
  BY <1>2, <1>3, Zenon
<1> QED BY <1>1, <1>4, ElementOfSeq

LEMMA BusReadStays ==
    ASSUME NEW p, NEW s \in InProgress(p), NEW addr \in Nat, NEW size \in {1, 2}
    PROVE  Reading(p, s, BusRead(s, addr, size))
<1> DEFINE seen == checkWatchpoint(s.bus, "read", addr, size)
<1>1. GoodBus(s.bus) /\ "read" \in AccessOps /\ s.mem \in [Dram -> Words]
  BY Parts DEF AccessOps
<1>2. GoodBus(seen)
  BY <1>1, WatchpointsKeepBus
<1>3. CASE InDRAM(addr, size)
  <2> DEFINE b == DramAccess(s.bus, "read", addr, size)
             v == DramValue(s.mem, addr, size)
  <2>1. BusRead(s, addr, size) = [s EXCEPT !.bus = b, !.value = v]
    BY <1>3 DEF BusRead
  <2>2. v \in Nat
    BY <1>1, <1>3, DramUnits, ValueOfWords
  <2>3. GoodBus(b)
    BY <1>1, AccessesKeepBus
  <2> HIDE DEF b, v
  <2>4. Reading(p, s, [s EXCEPT !.bus = b, !.value = v])
    BY <2>2, <2>3, ReplacingBusValue, Zenon
  <2> QED BY <2>1, <2>4
<1>4. CASE ~InDRAM(addr, size) /\ findRegion(addr, size) # 0
  <2> DEFINE ok == "read" \notin Regions[findRegion(addr, size)].fails
             fault == IF ok THEN "none" ELSE "access"
             b == EndMmio(seen, "read", addr, ok)
  <2>1. BusRead(s, addr, size) = [s EXCEPT !.bus = b, !.fault = fault]
    BY <1>4 DEF BusRead
  <2>2. fault \in Faults
    BY DEF Faults
  <2>3. GoodBus(b)
    BY <1>1, <1>2, AccessesKeepBus
  <2> HIDE DEF b, fault
  <2>4. Reading(p, s, [s EXCEPT !.bus = b, !.fault = fault])
    BY <2>2, <2>3, ReplacingFault, Zenon
  <2> QED BY <2>1, <2>4
<1>5. CASE ~InDRAM(addr, size) /\ findRegion(addr, size) = 0
  <2> DEFINE fault == "access"
  <2>1. BusRead(s, addr, size) = [s EXCEPT !.bus = seen, !.fault = fault]
    BY <1>5 DEF BusRead
  <2>2. fault \in Faults
    BY DEF Faults
  <2> HIDE DEF seen, fault
  <2>4. Reading(p, s, [s EXCEPT !.bus = seen, !.fault = fault])
    BY <1>2, <2>2, ReplacingFault, Zenon
  <2> QED BY <2>1, <2>4
<1> QED BY <1>3, <1>4, <1>5

LEMMA BusWriteStays ==
    ASSUME NEW p, NEW s \in InProgress(p), NEW addr \in Nat, NEW size \in {1, 2}, NEW v \in Int
    PROVE  BusWrite(s, addr, size, v) \in InProgress(p)
<1> DEFINE seen == checkWatchpoint(s.bus, "write", addr, size)
<1>1. GoodBus(seen) /\ "write" \in AccessOps
  BY Parts, WatchpointsKeepBus DEF AccessOps
<1>2. CASE InDRAM(addr, size)
  <2>1. BusWrite(s, addr, size, v) = DramWrite(s, addr, size, v)
    BY <1>2 DEF BusWrite
  <2> QED BY <1>2, <2>1, DramUnits, WritingDram
<1>3. CASE ~InDRAM(addr, size) /\ findRegion(addr, size) # 0
  <2> DEFINE i == findRegion(addr, size)
             ok == "write" \notin Regions[i].fails
             begun == [s EXCEPT !.bus = seen]
             acted == IF ok THEN DeviceWrites(begun, Regions[i].writes) ELSE begun
             b == EndMmio(acted.bus, "write", addr, ok)
             fault == IF ok THEN "none" ELSE "access"
  <2>1. BusWrite(s, addr, size, v) = [acted EXCEPT !.bus = b, !.fault = fault]
    BY <1>3 DEF BusWrite
  <2>2. begun \in InProgress(p)
    BY <1>1, ReplacingBus
  <2>3. Regions[i].writes \in Seq(DmaWrite)
    BY <1>3, RegionFound DEF Region
  <2> HIDE DEF begun
  <2>4. acted \in InProgress(p)
    BY <2>2, <2>3, DeviceWritesStay
  <2> HIDE DEF acted
  <2>5. GoodBus(b)
    BY <1>1, <2>4, Parts, AccessesKeepBus
  <2>6. fault \in Faults
    BY DEF Faults
  <2> HIDE DEF b, fault
  <2>7. Reading(p, acted, [acted EXCEPT !.bus = b, !.fault = fault])
    BY <2>4, <2>5, <2>6, ReplacingFault
  <2> QED BY <2>1, <2>7 DEF Reading
<1>4. CASE ~InDRAM(addr, size) /\ findRegion(addr, size) = 0
  <2> DEFINE fault == "access"
  <2>1. BusWrite(s, addr, size, v) = [s EXCEPT !.bus = seen, !.fault = fault]
    BY <1>4 DEF BusWrite
  <2>2. fault \in Faults
    BY DEF Faults
  <2> HIDE DEF seen, fault
  <2>7. Reading(p, s, [s EXCEPT !.bus = seen, !.fault = fault])
    BY <1>1, <2>2, ReplacingFault
  <2> QED BY <2>1, <2>7 DEF Reading
<1> QED BY <1>2, <1>3, <1>4

LEMMA FailingStays ==
    ASSUME NEW p, NEW s \in InProgress(p), NEW f \in Faults
    PROVE  Reading(p, s, Failed(s, f))
BY ReplacingResult DEF Failed

LEMMA BusFetchStays ==
    ASSUME NEW p, NEW s \in InProgress(p), NEW addr, NEW size
    PROVE  BusFetch(s, addr, size) \in InProgress(p)
<1>1. "access" \in Faults
  BY DEF Faults
<1> QED BY <1>1, FailingStays DEF BusFetch, Reading

-----------------------------------------------------------------------------
(* The walk.                                                               *)

LEMMA ModBelow ==
    ASSUME NEW a \in Nat, NEW m \in Nat \ {0}
    PROVE  a % m \in 0 .. m - 1 /\ a % m <= a /\ a \div m \in Nat
<1>1. PICK k \in Int, r \in 0 .. m - 1 : a = m * k + r /\ a % m = r
  <2>1. a \in Int
    OBVIOUS
  <2> QED BY <2>1, Division
<1>2. k <= -1 => m * k <= -m
  OBVIOUS
<1>3. k >= 0
  BY <1>1, <1>2
<1>4. m * k >= 0
  BY <1>3
<1>5. a \div m \in Nat
  OBVIOUS
<1> QED BY <1>1, <1>4, <1>5

LEMMA PagesIs == \A l \in Levels : Pages(l) \in Nat \ {0}
<1>1. Fan \in Nat \ {0} /\ Fan * Fan \in Nat \ {0}
  BY MmuAssumption
<1> QED BY <1>1 DEF Pages, Levels

LEMMA VpnIs ==
    ASSUME NEW va \in Nat, NEW l \in Levels
    PROVE  Vpn(va, l) \in Nat
<1>1. Fan \in Nat \ {0} /\ Pages(l) \in Nat \ {0}
  BY MmuAssumption, PagesIs
<1>2. Fan * Pages(l) \in Nat \ {0}
  BY <1>1
<1> DEFINE w == Fan * Pages(l)
<1> HIDE DEF w
<1>3. va \div w \in Nat
  BY <1>2, ModBelow DEF w
<1>4. (va \div w) % Fan \in Nat
  BY <1>1, <1>3, ModBelow
<1> QED BY <1>4 DEF Vpn, w

(* The slots the walk reads, level by level, and where it stops.           *)
Slot2(c, va) == c.root * Fan + Vpn(va, 2)
Slot1(pte, c, va) == pte[Slot2(c, va)].ppn * Fan + Vpn(va, 1)
Slot0(pte, c, va) == pte[Slot1(pte, c, va)].ppn * Fan + Vpn(va, 0)
SlotAt(pte, c, va, l) ==
    IF l = 2 THEN Slot2(c, va) ELSE IF l = 1 THEN Slot1(pte, c, va) ELSE Slot0(pte, c, va)
StopAt(pte, c, va) ==
    IF ~Pointer(pte[Slot2(c, va)]) THEN 2
    ELSE IF ~Pointer(pte[Slot1(pte, c, va)]) THEN 1 ELSE 0
Result(c, priv, va, k, stop, e, leaf, reads) ==
    IF \/ e = BusError
       \/ Reserved(e)
       \/ ~Leaf(e)
       \/ Misaligned(e, stop)
       \/ ~pteAllows(e, c, priv, k)
      THEN Fault(reads)
      ELSE [ok |-> TRUE, pa |-> PhysPage(e, va, stop) * Fan + (va % Fan),
            reads |-> reads, leaf |-> leaf, marks |-> MissingAD(e, k)]

LEMMA WalkIs ==
    ASSUME NEW pte, NEW c, NEW priv, NEW va, NEW k
    PROVE  LET stop == StopAt(pte, c, va)
               slot(l) == SlotAt(pte, c, va, l)
           IN  Walk(pte, c, priv, va, k)
               = Result(c, priv, va, k, stop, pte[slot(stop)], slot(stop),
                        [i \in 1 .. 3 - stop |-> slot(3 - i)])
<1> DEFINE Is(f) == f = [l \in Levels |->
                            LET above == IF l = 2 THEN c.root ELSE pte[f[l + 1]].ppn
                            IN  above * Fan + Vpn(va, l)]
           slot == CHOOSE f : Is(f)
           given == [l \in Levels |-> SlotAt(pte, c, va, l)]
           stop == StopAt(pte, c, va)
<1>1. Is(given)
  <2>1. ASSUME NEW l \in Levels
        PROVE  given[l] = (IF l = 2 THEN c.root ELSE pte[given[l + 1]].ppn) * Fan + Vpn(va, l)
    <3>1. CASE l = 2
      BY <3>1 DEF SlotAt, Slot2
    <3>2. CASE l = 1
      <4>1. given[2] = Slot2(c, va)
        BY DEF SlotAt, Levels
      <4> QED BY <3>2, <4>1 DEF SlotAt, Slot1
    <3>3. CASE l = 0
      <4>1. given[1] = Slot1(pte, c, va)
        BY DEF SlotAt, Levels
      <4> QED BY <3>3, <4>1 DEF SlotAt, Slot0
    <3> QED BY <3>1, <3>2, <3>3 DEF Levels
  <2> QED BY <2>1
<1>2. Is(slot)
  BY <1>1, Zenon
<1>3. Walk(pte, c, priv, va, k)
      = LET s == IF ~Pointer(pte[slot[2]]) THEN 2
                 ELSE IF ~Pointer(pte[slot[1]]) THEN 1 ELSE 0
        IN  Result(c, priv, va, k, s, pte[slot[s]], slot[s], [i \in 1 .. 3 - s |-> slot[3 - i]])
  BY Zenon DEF Walk, Result
<1> HIDE DEF slot
<1>4. \A l \in Levels : slot[l] = (IF l = 2 THEN c.root ELSE pte[slot[l + 1]].ppn) * Fan
                                + Vpn(va, l)
  BY <1>2
<1>5. \A l \in Levels : slot[l] = SlotAt(pte, c, va, l)
  <2>1. slot[2] = Slot2(c, va)
    BY <1>4 DEF Levels, Slot2
  <2>2. slot[1] = Slot1(pte, c, va)
    BY <1>4, <2>1 DEF Levels, Slot1
  <2>3. slot[0] = Slot0(pte, c, va)
    BY <1>4, <2>2 DEF Levels, Slot0
  <2> QED BY <2>1, <2>2, <2>3 DEF Levels, SlotAt
<1>6. stop \in Levels /\ stop = IF ~Pointer(pte[slot[2]]) THEN 2
                                ELSE IF ~Pointer(pte[slot[1]]) THEN 1 ELSE 0
  <2>1. slot[2] = Slot2(c, va) /\ slot[1] = Slot1(pte, c, va)
    BY <1>5 DEF Levels, SlotAt
  <2> QED BY <2>1 DEF StopAt, Levels
<1>7. slot[stop] = SlotAt(pte, c, va, stop)
      /\ [i \in 1 .. 3 - stop |-> slot[3 - i]] = [i \in 1 .. 3 - stop |-> SlotAt(pte, c, va, 3 - i)]
  BY <1>5, <1>6 DEF Levels
<1> HIDE DEF stop
<1>8. Walk(pte, c, priv, va, k)
      = Result(c, priv, va, k, stop, pte[slot[stop]], slot[stop],
               [i \in 1 .. 3 - stop |-> slot[3 - i]])
  BY <1>3, <1>6
<1> QED BY <1>7, <1>8 DEF stop

LEMMA FunctionIsSeq ==
    ASSUME NEW S, NEW n \in Nat, NEW f \in [1 .. n -> S]
    PROVE  f \in Seq(S) /\ Len(f) = n
OBVIOUS

LEMMA DecodeIs ==
    ASSUME NEW raw \in Nat
    PROVE  Decode(raw) \in Pte
<1>1. raw \div 128 \in Nat
  OBVIOUS
<1> QED BY <1>1 DEF Decode, Pte

(* An entry the walk can read lies in DRAM.                                *)
LEMMA EntryIs ==
    ASSUME NEW m \in [Dram -> Words], NEW a \in Nat, Tables(m)[a] # BusError
    PROVE  /\ a \in Dram /\ m[a] \in Nat
           /\ Tables(m)[a] = Decode(m[a]) /\ Tables(m)[a] \in Pte
<1>1. Tables(m)[a] = IF InDRAM(a, 1) THEN Decode(m[a]) ELSE BusError
  BY DEF Tables, PteAt
<1>2. InDRAM(a, 1)
  BY <1>1
<1>3. a \in Dram
  BY <1>2, DramUnits DEF Units
<1>4. m[a] \in Nat
  BY <1>3, MemoryAssumption DEF Words
<1> QED BY <1>1, <1>2, <1>3, <1>4, DecodeIs

LEMMA SlotIs ==
    ASSUME NEW n \in Nat, NEW va \in Nat, NEW l \in Levels
    PROVE  n * Fan + Vpn(va, l) \in Nat
<1>1. Fan \in Nat /\ Vpn(va, l) \in Nat
  BY MmuAssumption, VpnIs
<1>2. n * Fan \in Nat
  BY <1>1
<1> QED BY <1>1, <1>2

LEMMA SlotsAre ==
    ASSUME NEW m \in [Dram -> Words], NEW c \in Context, NEW va \in Nat
    PROVE  LET stop == StopAt(Tables(m), c, va)
           IN  stop \in Levels
               /\ \A l \in stop .. 2 : SlotAt(Tables(m), c, va, l) \in Nat
<1> DEFINE pte == Tables(m)
           stop == StopAt(pte, c, va)
<1>1. stop \in Levels
  BY DEF StopAt, Levels
<1>2. \A a \in Nat : Pointer(pte[a]) => pte[a].ppn \in Nat
  BY EntryIs DEF Pointer, Pte
<1> HIDE DEF pte
<1>0. 0 \in Levels /\ 1 \in Levels /\ 2 \in Levels
  BY DEF Levels
<1>3. Slot2(c, va) \in Nat
  <2>1. c.root \in Nat
    BY MmuAssumption DEF Context
  <2>2. c.root * Fan + Vpn(va, 2) \in Nat
    BY <1>0, <2>1, SlotIs
  <2> QED BY <2>2 DEF Slot2
<1>4. stop # 2 => Slot1(pte, c, va) \in Nat
  <2> SUFFICES ASSUME stop # 2  PROVE Slot1(pte, c, va) \in Nat
    OBVIOUS
  <2>1. pte[Slot2(c, va)].ppn \in Nat
    BY <1>2, <1>3 DEF StopAt
  <2>2. pte[Slot2(c, va)].ppn * Fan + Vpn(va, 1) \in Nat
    BY <1>0, <2>1, SlotIs
  <2> QED BY <2>2 DEF Slot1
<1>5. stop = 0 => Slot0(pte, c, va) \in Nat
  <2> SUFFICES ASSUME stop = 0  PROVE Slot0(pte, c, va) \in Nat
    OBVIOUS
  <2>1. pte[Slot1(pte, c, va)].ppn \in Nat
    BY <1>2, <1>4 DEF StopAt
  <2>2. pte[Slot1(pte, c, va)].ppn * Fan + Vpn(va, 0) \in Nat
    BY <1>0, <2>1, SlotIs
  <2> QED BY <2>2 DEF Slot0
<1> HIDE DEF stop
<1> QED BY <1>1, <1>3, <1>4, <1>5 DEF stop, pte, Levels, SlotAt

LEMMA PhysPageIs ==
    ASSUME NEW e \in Pte, NEW va \in Nat, NEW l \in Levels
    PROVE  PhysPage(e, va, l) * Fan + (va % Fan) \in Nat
<1> DEFINE w == Pages(l)
           n == e.ppn
<1>1. Fan \in Nat \ {0} /\ w \in Nat \ {0} /\ n \in Nat
  BY MmuAssumption, PagesIs DEF Pte
<1> HIDE DEF w, n
<1>2. n % w \in Nat /\ n % w <= n /\ va \div Fan \in Nat /\ va % Fan \in Nat
  BY <1>1, ModBelow
<1>3. (va \div Fan) % w \in Nat
  BY <1>1, <1>2, ModBelow
<1> DEFINE page == (n - (n % w)) + ((va \div Fan) % w)
<1>4. page \in Nat
  <2> DEFINE x == n % w
             y == (va \div Fan) % w
  <2>1. x \in Nat /\ x <= n /\ y \in Nat
    BY <1>2, <1>3
  <2> HIDE DEF x, y
  <2>2. (n - x) + y \in Nat
    BY <1>1, <2>1
  <2> QED BY <2>2 DEF x, y
<1> HIDE DEF page
<1>5. page * Fan \in Nat
  BY <1>1, <1>4
<1> QED BY <1>2, <1>5 DEF PhysPage, page, w, n

(* What translate returns: entries to read, and either a leaf of the       *)
(* tables with the marks it lacks, or no leaf at all.                      *)
Found(m, k, t) ==
    /\ t.reads \in Seq(Nat) /\ t.pa \in Nat
    /\ t.ok => \/ t.leaf = 0 /\ t.marks = 0
               \/ t.leaf \in Dram /\ t.marks = MissingAD(Decode(m[t.leaf]), k)

LEMMA TranslateIs ==
    ASSUME NEW m \in [Dram -> Words], NEW c \in Context, NEW va \in Nat, NEW k
    PROVE  Found(m, k, translate(Tables(m), c, va, k))
<1> DEFINE pte == Tables(m)
           priv == effectivePriv(c, k)
           stop == StopAt(pte, c, va)
           leaf == SlotAt(pte, c, va, stop)
           e == pte[leaf]
           reads == [i \in 1 .. 3 - stop |-> SlotAt(pte, c, va, 3 - i)]
           walk == Result(c, priv, va, k, stop, e, leaf, reads)
<1>1. Found(m, k, Direct(va)) /\ Found(m, k, Fault(<<>>))
  BY DEF Found, Direct, Fault
<1>2. Walk(pte, c, priv, va, k) = walk
  BY WalkIs
<1>3. stop \in Levels /\ leaf \in Nat /\ reads \in Seq(Nat)
  <2>1. stop \in Levels /\ \A l \in stop .. 2 : SlotAt(pte, c, va, l) \in Nat
    BY SlotsAre
  <2> HIDE DEF stop, pte
  <2>2. leaf \in Nat
    BY <2>1 DEF Levels
  <2>3. 3 - stop \in Nat /\ reads \in [1 .. 3 - stop -> Nat]
    BY <2>1 DEF Levels
  <2> HIDE DEF reads, leaf
  <2>4. reads \in Seq(Nat)
    BY <2>3, FunctionIsSeq
  <2> QED BY <2>1, <2>2, <2>4
<1>4. e # BusError => leaf \in Dram /\ e = Decode(m[leaf]) /\ e \in Pte
  <2> HIDE DEF leaf
  <2> QED BY <1>3, EntryIs
<1> HIDE DEF pte, priv, stop, leaf, e, reads
<1>5. Found(m, k, walk)
  <2>1. Found(m, k, Fault(reads))
    BY <1>3 DEF Found, Fault
  <2>2. CASE e # BusError
    <3> DEFINE t == [ok |-> TRUE, pa |-> PhysPage(e, va, stop) * Fan + (va % Fan),
                     reads |-> reads, leaf |-> leaf, marks |-> MissingAD(e, k)]
    <3>1. PhysPage(e, va, stop) * Fan + (va % Fan) \in Nat
      BY <1>3, <1>4, <2>2, PhysPageIs
    <3>2. Found(m, k, t)
      BY <1>3, <1>4, <2>2, <3>1 DEF Found
    <3>3. walk = Fault(reads) \/ walk = t
      BY DEF Result
    <3> HIDE DEF t, walk
    <3> QED BY <2>1, <3>2, <3>3
  <2>3. CASE e = BusError
    <3>1. walk = Fault(reads)
      BY <2>3 DEF Result
    <3> QED BY <2>1, <3>1
  <2> QED BY <2>2, <2>3
<1>6. \/ translate(pte, c, va, k) = Direct(va)
      \/ translate(pte, c, va, k) = Walk(pte, c, priv, va, k)
      \/ translate(pte, c, va, k) = Fault(<<>>)
  BY DEF translate, priv
<1> HIDE DEF walk
<1> QED BY <1>1, <1>2, <1>5, <1>6 DEF pte

-----------------------------------------------------------------------------
(* Translation keeps memory sound: it only sets the marks its leaf lacks.  *)

(* Bits 5 and 6 can be added where they are missing; no other bit moves.   *)
SameBits(n, x) ==
    /\ x \div 128 = n \div 128
    /\ (x \div 16) % 2 = (n \div 16) % 2
    /\ (x \div 8) % 2 = (n \div 8) % 2
    /\ (x \div 4) % 2 = (n \div 4) % 2
    /\ (x \div 2) % 2 = (n \div 2) % 2
    /\ (x \div 1) % 2 = (n \div 1) % 2
LEMMA AddingBits ==
    ASSUME NEW n \in Nat
    PROVE  /\ (n \div 32) % 2 # 1 => /\ ((n + 32) \div 32) % 2 = 1
                                     /\ ((n + 32) \div 64) % 2 = (n \div 64) % 2
                                     /\ SameBits(n, n + 32)
           /\ (n \div 64) % 2 # 1 => /\ ((n + 64) \div 32) % 2 = (n \div 32) % 2
                                     /\ ((n + 64) \div 64) % 2 = 1
                                     /\ SameBits(n, n + 64)
<1>1. /\ (n \div 32) % 2 # 1 => /\ ((n + 32) \div 32) % 2 = 1
                                /\ ((n + 32) \div 64) % 2 = (n \div 64) % 2
      /\ (n \div 64) % 2 # 1 => /\ ((n + 64) \div 32) % 2 = (n \div 32) % 2
                                /\ ((n + 64) \div 64) % 2 = 1
  OBVIOUS
<1>2. (n \div 32) % 2 # 1 => (n + 32) \div 128 = n \div 128
  OBVIOUS
<1>3. (n \div 64) % 2 # 1 => (n + 64) \div 128 = n \div 128
  OBVIOUS
<1>4. ((n + 32) \div 16) % 2 = (n \div 16) % 2 /\ ((n + 64) \div 16) % 2 = (n \div 16) % 2
  OBVIOUS
<1>5. ((n + 32) \div 8) % 2 = (n \div 8) % 2 /\ ((n + 64) \div 8) % 2 = (n \div 8) % 2
  OBVIOUS
<1>6. ((n + 32) \div 4) % 2 = (n \div 4) % 2 /\ ((n + 64) \div 4) % 2 = (n \div 4) % 2
  OBVIOUS
<1>7. ((n + 32) \div 2) % 2 = (n \div 2) % 2 /\ ((n + 64) \div 2) % 2 = (n \div 2) % 2
  OBVIOUS
<1>8. ((n + 32) \div 1) % 2 = (n \div 1) % 2 /\ ((n + 64) \div 1) % 2 = (n \div 1) % 2
  OBVIOUS
<1> QED BY <1>1, <1>2, <1>3, <1>4, <1>5, <1>6, <1>7, <1>8 DEF SameBits

LEMMA WordsBelow ==
    ASSUME NEW n \in Words, NEW x \in Nat, x \div 128 = n \div 128
    PROVE  x \in Words
<1>1. PICK j \in Int, r \in 0 .. 127 : WordMod = 128 * j + r /\ WordMod % 128 = r
  <2>1. WordMod \in Int /\ 128 \in Nat \ {0}
    BY MemoryAssumption
  <2> QED BY <2>1, Division
<1>2. WordMod = 128 * j /\ n \in Nat /\ n < 128 * j
  BY <1>1, MemoryAssumption DEF Words
<1>3. n \div 128 < j
  BY <1>2
<1>4. x < 128 * j
  BY <1>3
<1> QED BY <1>2, <1>4 DEF Words

(* Whatever the marks an entry has had added, more may be added.           *)
LEMMA MarkingMore ==
    ASSUME NEW e, NEW f, NEW g, OnlyMarked(e, f), OnlyMarked(f, g)
    PROVE  OnlyMarked(e, g)
BY DEF OnlyMarked

(* The word of a leaf with the marks it lacked.                            *)
LEMMA MarkingWord ==
    ASSUME NEW n \in Words, NEW k
    PROVE  LET w == n + MissingAD(Decode(n), k)
           IN  /\ w \in Words
               /\ Decode(w).a
               /\ k = "store" \/ Decode(n).d => Decode(w).d
               /\ OnlyMarked(Decode(n), Decode(w))
<1> DEFINE hasA == (n \div 32) % 2 = 1
           hasD == (n \div 64) % 2 = 1
           a == IF hasA THEN 0 ELSE 32
           d == IF k # "store" \/ hasD THEN 0 ELSE 64
           x == n + a
           w == x + d
<1>1. n \in Nat
  BY MemoryAssumption DEF Words
<1>2. MissingAD(Decode(n), k) = a + d
  BY DEF MissingAD, Decode, FlagBits
<1>3. x \in Nat /\ SameBits(n, x) /\ (x \div 32) % 2 = 1
      /\ (x \div 64) % 2 = (n \div 64) % 2
  <2>1. CASE hasA
    BY <1>1, <2>1 DEF SameBits
  <2>2. CASE ~hasA
    BY <1>1, <2>2, AddingBits
  <2> QED BY <2>1, <2>2
<1>4. w \in Nat /\ SameBits(x, w) /\ (w \div 32) % 2 = 1
      /\ (k = "store" => (w \div 64) % 2 = 1)
      /\ (hasD => (w \div 64) % 2 = 1)
      /\ (k # "store" => (w \div 64) % 2 = (n \div 64) % 2)
  <2> HIDE DEF x
  <2>1. CASE k # "store" \/ hasD
    <3>1. w = x
      BY <1>3, <2>1
    <3> QED BY <1>3, <2>1, <3>1 DEF SameBits
  <2>2. CASE ~(k # "store" \/ hasD)
    <3>1. w = x + 64
      BY <2>2
    <3> QED BY <1>3, <2>2, <3>1, AddingBits
  <2> QED BY <2>1, <2>2
<1>5. n + MissingAD(Decode(n), k) = w
  BY <1>1, <1>2
<1> HIDE DEF w, x
<1>6. SameBits(n, w)
  BY <1>3, <1>4 DEF SameBits
<1>7. w \in Words
  BY <1>4, <1>6, WordsBelow DEF SameBits
<1>8. Decode(w).a /\ (k = "store" \/ Decode(n).d => Decode(w).d)
  BY <1>4 DEF Decode, FlagBits
<1>9. OnlyMarked(Decode(n), Decode(w))
  <2>1. /\ Decode(w).v = Decode(n).v /\ Decode(w).r = Decode(n).r
        /\ Decode(w).w = Decode(n).w /\ Decode(w).x = Decode(n).x
        /\ Decode(w).u = Decode(n).u /\ Decode(w).ppn = Decode(n).ppn
    BY <1>6 DEF Decode, FlagBits, SameBits
  <2>2. Decode(n).d => Decode(w).d
    BY <1>8
  <2> QED BY <1>8, <2>1, <2>2 DEF OnlyMarked
<1> QED BY <1>5, <1>7, <1>8, <1>9

-----------------------------------------------------------------------------
(* The states in which an instruction that began with memory m has changed *)
(* nothing of it but marks of entries it was translated by.                *)
Sparing(p, m) == {s \in InProgress(p) : Spares(m, s)}

LEMMA ReadingSpares ==
    ASSUME NEW p, NEW m, NEW s \in Sparing(p, m), NEW x, Reading(p, s, x)
    PROVE  x \in Sparing(p, m)
BY DEF Sparing, Reading, Spares

LEMMA FailingSpares ==
    ASSUME NEW p, NEW m, NEW s \in Sparing(p, m), NEW f \in Faults
    PROVE  Failed(s, f) \in Sparing(p, m)
BY FailingStays, ReadingSpares DEF Sparing

LEMMA ReplacingValue ==
    ASSUME NEW p, NEW s \in InProgress(p), NEW v \in Nat
    PROVE  /\ [s EXCEPT !.value = v] \in InProgress(p)
           /\ [s EXCEPT !.value = v].fault = s.fault
           /\ \A m : s \in Sparing(p, m) => [s EXCEPT !.value = v] \in Sparing(p, m)
<1>1. Reading(p, s, [s EXCEPT !.value = v])
  BY DEF InProgress, Progress, Reading
<1>2. [s EXCEPT !.value = v].fault = s.fault
  BY DEF InProgress, Progress
<1> QED BY <1>1, <1>2, ReadingSpares DEF Reading

LEMMA WalkedStays ==
    ASSUME NEW p, NEW s \in InProgress(p), NEW reads \in Seq(Nat)
    PROVE  Reading(p, s, Walked(s, reads))
<1> DEFINE S == {x \in InProgress(p) : x.mem = s.mem /\ x.touched = s.touched}
           n == Len(reads)
           Next1(x, i) == [BusRead(x, reads[i], 1) EXCEPT !.fault = "none"]
           g == [z \in S \X (1 .. n) |-> Next1(z[1], z[2])]
           Is(f) == f = [i \in 0 .. n |-> IF i = 0 THEN s ELSE Next1(f[i - 1], i)]
<1>1. n \in Nat
  OBVIOUS
<1>2. ASSUME NEW x \in S, NEW i \in 1 .. n  PROVE Next1(x, i) \in S
  <2>1. reads[i] \in Nat /\ "none" \in Faults /\ 1 \in {1, 2} /\ 0 \in Nat
    BY <1>1, ElementOfSeq DEF Faults
  <2> DEFINE y == BusRead(x, reads[i], 1)
  <2>2. Reading(p, x, y)
    BY <2>1, BusReadStays
  <2> HIDE DEF y
  <2>3. y \in InProgress(p)
    BY <2>2 DEF Reading
  <2>4. Reading(p, y, [y EXCEPT !.fault = "none"])
    BY <2>1, <2>3, ReplacingResult
  <2>5. [y EXCEPT !.fault = "none"] \in S
    BY <2>2, <2>4 DEF Reading
  <2> QED BY <2>5 DEF y
<1> HIDE DEF Next1, S
<1>3. g \in [S \X (1 .. n) -> S]
  BY <1>2
<1>4. s \in S
  BY DEF S
<1>5. PICK f \in [0 .. n -> S] : Unrolls(f, n, s, g)
  <2> HIDE DEF n, g
  <2> QED BY <1>1, <1>3, <1>4, Recursion
<1>6. Is(f)
  <2>1. ASSUME NEW i \in 1 .. n  PROVE g[<<f[i - 1], i>>] = Next1(f[i - 1], i)
    <3> HIDE DEF n
    <3>1. i - 1 \in 0 .. n
      BY <1>1
    <3>2. f[i - 1] \in S
      BY <1>5, <3>1
    <3> QED BY <3>2
  <2>2. f = [i \in 0 .. n |-> IF i = 0 THEN s ELSE g[<<f[i - 1], i>>]]
    BY <1>5 DEF Unrolls
  <2> HIDE DEF g, n
  <2>3. \A i \in 0 .. n : (IF i = 0 THEN s ELSE g[<<f[i - 1], i>>])
                          = (IF i = 0 THEN s ELSE Next1(f[i - 1], i))
    BY <1>1, <2>1
  <2> QED BY <2>2, <2>3
<1> DEFINE r == CHOOSE h : Is(h)
<1>7. Is(r)
  BY <1>6, Zenon
<1>8. Walked(s, reads) = r[n]
  BY Zenon DEF Walked, Next1
<1> HIDE DEF r
<1>9. r[0] \in S /\ \A i \in 1 .. n : r[i - 1] \in S => r[i] \in S
  <2> HIDE DEF n
  <2>1. r[0] = s /\ \A i \in 1 .. n : r[i] = Next1(r[i - 1], i)
    BY <1>1, <1>7
  <2> QED BY <1>2, <1>4, <2>1
<1>10. r[n] \in S
  <2> HIDE DEF n
  <2> QED BY <1>1, <1>9, Carried
<1> QED BY <1>8, <1>10 DEF S, Reading

LEMMA MarkedStays ==
    ASSUME NEW p, NEW m \in [Dram -> Words], NEW s \in Sparing(p, m),
           NEW k, NEW t, Found(s.mem, k, t), t.ok
    PROVE  Marked(s, t, k) \in Sparing(p, m)
<1> DEFINE leaf == IF t.leaf = 0 THEN {} ELSE {t.leaf}
           used == [a |-> s.touched.a \cup leaf,
                    d |-> s.touched.d \cup (IF k = "store" THEN leaf ELSE {})]
           base == IF t.marks = 0 THEN s ELSE DramWrite(s, t.leaf, 1, s.mem[t.leaf] + t.marks)
<1>1. Marked(s, t, k) = [base EXCEPT !.touched = used]
  BY DEF Marked
<1>0. s \in InProgress(p) /\ Spares(m, s)
  BY DEF Sparing
<1>2. s.mem \in [Dram -> Words] /\ s.touched \in Touched /\ MarksKept(s.mem, s.touched)
  BY <1>0, Parts
<1>3. CASE t.leaf = 0 /\ t.marks = 0
  <2>1. base = s /\ used = s.touched
    BY <1>2, <1>3 DEF Touched
  <2>2. [s EXCEPT !.touched = s.touched] = s
    BY <1>0 DEF InProgress, Progress
  <2> HIDE DEF base, used
  <2> QED BY <1>1, <2>1, <2>2
<1>4. CASE t.leaf \in Dram /\ t.marks = MissingAD(Decode(s.mem[t.leaf]), k)
  <2> DEFINE n == s.mem[t.leaf]
             w == n + t.marks
  <2>1. n \in Words /\ n \in Nat /\ Words \subseteq Nat
    BY <1>2, <1>4, MemoryAssumption DEF Words
  <2>2. w \in Words /\ Decode(w).a /\ (k = "store" \/ Decode(n).d => Decode(w).d)
        /\ OnlyMarked(Decode(n), Decode(w))
    <3> HIDE DEF n
    <3> QED BY <1>4, <2>1, MarkingWord DEF n
  <2>3. base \in InProgress(p) /\ base.mem = [s.mem EXCEPT ![t.leaf] = w]
    <3>1. CASE t.marks = 0
      <4>1. w = n
        BY <2>1, <3>1
      <4>2. [s.mem EXCEPT ![t.leaf] = n] = s.mem
        BY <1>2, <1>4
      <4> QED BY <1>0, <3>1, <4>1, <4>2
    <3>2. CASE t.marks # 0
      <4> HIDE DEF w
      <4>1. base = DramWrite(s, t.leaf, 1, w)
        BY <3>2 DEF w
      <4>2. t.leaf \in Nat /\ Units(t.leaf, 1) \subseteq Dram /\ w \in Int
        BY <1>4, <2>1, <2>2, BusAssumption DEF Units, Dram
      <4>3. /\ DramWrite(s, t.leaf, 1, w) \in InProgress(p)
            /\ DramWrite(s, t.leaf, 1, w).mem = DramStored(s.mem, t.leaf, 1, w)
        BY <1>0, <4>2, WritingDram
      <4>4. w % WordMod = w
        <5>1. WordMod \in Nat \ {0}
          BY MemoryAssumption
        <5>2. w \in Int /\ 0 <= w /\ w < WordMod
          BY <2>2, <5>1 DEF Words
        <5> QED BY <5>1, <5>2, ModSmall, Zenon
      <4>5. DramStored(s.mem, t.leaf, 1, w) = [s.mem EXCEPT ![t.leaf] = w]
        BY <4>4 DEF DramStored
      <4> HIDE DEF base
      <4> QED BY <4>1, <4>3, <4>5
    <3> QED BY <3>1, <3>2
  <2> HIDE DEF base, w
  <2>4. used \in Touched
    BY <1>2, <1>4 DEF Touched
  <2>5. MarksKept(base.mem, used)
    <3>1. \A a \in s.touched.a \cup leaf : Decode(base.mem[a]).a
      BY <1>2, <1>4, <2>2, <2>3 DEF MarksKept, Touched
    <3>2. \A a \in s.touched.d \cup (IF k = "store" THEN leaf ELSE {}) : Decode(base.mem[a]).d
      BY <1>2, <1>4, <2>2, <2>3 DEF MarksKept, Touched
    <3> QED BY <3>1, <3>2 DEF MarksKept
  <2>6. s.touched.a \subseteq used.a /\ t.leaf \in used.a
    <3>1. t.leaf # 0
      BY <1>4, BusAssumption DEF Dram
    <3> QED BY <3>1
  <2> HIDE DEF used
  <2> DEFINE x == [base EXCEPT !.touched = used]
  <2>7. x \in InProgress(p) /\ x.mem = [s.mem EXCEPT ![t.leaf] = w] /\ x.touched = used
    BY <2>3, <2>4, <2>5 DEF InProgress, Progress
  <2> HIDE DEF x
  <2>8. ASSUME NEW a \in Dram
        PROVE  \/ x.mem[a] = m[a]
               \/ a \in x.touched.a /\ OnlyMarked(Decode(m[a]), Decode(x.mem[a]))
    <3>1. \/ s.mem[a] = m[a]
          \/ a \in s.touched.a /\ OnlyMarked(Decode(m[a]), Decode(s.mem[a]))
      BY <1>0 DEF Spares
    <3>2. CASE a # t.leaf
      BY <1>2, <2>6, <2>7, <3>1, <3>2
    <3>3. CASE a = t.leaf
      <4>1. x.mem[a] = w /\ a \in x.touched.a /\ s.mem[a] = n
        BY <1>2, <2>6, <2>7, <3>3
      <4>2. m[a] \in Nat /\ w \in Nat /\ n \in Nat
        BY <2>1, <2>2
      <4> HIDE DEF n
      <4>3. OnlyMarked(Decode(m[a]), Decode(w))
        <5>1. CASE n = m[a]
          BY <2>2, <5>1
        <5>2. CASE OnlyMarked(Decode(m[a]), Decode(n))
          BY <2>2, <4>2, <5>2, MarkingMore
        <5> QED BY <3>1, <4>1, <5>1, <5>2
      <4> QED BY <4>1, <4>3
    <3> QED BY <3>2, <3>3
  <2>9. Spares(m, x)
    BY <2>8 DEF Spares
  <2> QED BY <1>1, <2>7, <2>9 DEF x, Sparing
<1> QED BY <1>3, <1>4 DEF Found

LEMMA TranslatedStays ==
    ASSUME NEW p, NEW m \in [Dram -> Words], NEW s \in Sparing(p, m), NEW c \in Context,
           NEW va \in Nat, NEW k
    PROVE  Translated(s, c, va, k).s \in Sparing(p, m) /\ Translated(s, c, va, k).pa \in Nat
<1> DEFINE t == translate(Tables(s.mem), c, va, k)
           w == Walked(s, t.reads)
<1>0. s \in InProgress(p)
  BY DEF Sparing
<1>1. Found(s.mem, k, t)
  BY <1>0, Parts, TranslateIs
<1>2. Translated(s, c, va, k) = Translation(s, t, k)
  BY DEF Translated
<1> HIDE DEF t
<1>3. Reading(p, s, w)
  BY <1>0, <1>1, WalkedStays DEF Found
<1> HIDE DEF w
<1>4. w \in Sparing(p, m) /\ Found(w.mem, k, t) /\ "page" \in Faults
  BY <1>1, <1>3, ReadingSpares DEF Reading, Faults
<1>5. t.ok => Marked(w, t, k) \in Sparing(p, m)
  BY <1>4, MarkedStays
<1>6. Failed(w, "page") \in Sparing(p, m)
  BY <1>4, FailingSpares
<1>7. Translation(s, t, k) = IF t.ok THEN [s |-> Marked(w, t, k), pa |-> t.pa]
                             ELSE [s |-> Failed(w, "page"), pa |-> 0]
  BY DEF Translation, w
<1>8. t.pa \in Nat
  BY <1>1 DEF Found
<1> QED BY <1>2, <1>5, <1>6, <1>7, <1>8


-----------------------------------------------------------------------------
(* An access, and the instructions made of accesses.                       *)

LEMMA ProtectedStays ==
    ASSUME NEW p \in PmpState, NEW m, NEW s \in Sparing(p, m),
           NEW pa, NEW size, NEW k, NEW priv
    PROVE  Protected(s, pa, size, k, priv) \in Sparing(p, m)
<1> DEFINE q == CheckCache(s.pmp)
           checked == [s EXCEPT !.pmp = q]
<1>1. s \in InProgress(p)
  BY DEF Sparing
<1>2. q = CheckCache(p) /\ q \in PmpState
  BY <1>1, Parts, FillingTheCache
<1> HIDE DEF q
<1>3. Reading(p, s, checked)
  BY <1>1, <1>2 DEF InProgress, Progress, Reading
<1>4. "access" \in Faults
  BY DEF Faults
<1> HIDE DEF checked
<1>5. checked \in Sparing(p, m)
  BY <1>3, ReadingSpares
<1>6. Failed(checked, "access") \in Sparing(p, m)
  BY <1>4, <1>5, FailingSpares
<1>7. \/ Protected(s, pa, size, k, priv) = checked
      \/ Protected(s, pa, size, k, priv) = Failed(checked, "access")
  BY DEF Protected, checked, q
<1> QED BY <1>5, <1>6, <1>7

(* A store to memory completes; one to a device completes or writes        *)
(* nothing.                                                                *)
LEMMA WritingSpares ==
    ASSUME NEW p, NEW m, NEW s \in Sparing(p, m), NEW pa \in Nat, NEW size \in {1, 2},
           NEW v \in Int, s.fault = "none"
    PROVE  BusWrite(s, pa, size, v).fault # "none" => BusWrite(s, pa, size, v) \in Sparing(p, m)
<1> DEFINE x == BusWrite(s, pa, size, v)
           seen == checkWatchpoint(s.bus, "write", pa, size)
<1>0. s \in InProgress(p)
  BY DEF Sparing
<1>1. CASE InDRAM(pa, size)
  <2>1. x = DramWrite(s, pa, size, v)
    BY <1>1 DEF BusWrite
  <2>2. DramWrite(s, pa, size, v).fault = s.fault
    BY <1>0, <1>1, DramUnits, WritingDram
  <2> QED BY <2>1, <2>2
<1>2. GoodBus(seen) /\ "write" \in AccessOps /\ {"none", "access"} \subseteq Faults
  BY <1>0, Parts, WatchpointsKeepBus DEF AccessOps, Faults
<1>3. CASE ~InDRAM(pa, size) /\ findRegion(pa, size) # 0
  <2> DEFINE i == findRegion(pa, size)
             ok == "write" \notin Regions[i].fails
             begun == [s EXCEPT !.bus = seen]
             acted == IF ok THEN DeviceWrites(begun, Regions[i].writes) ELSE begun
             b == EndMmio(acted.bus, "write", pa, ok)
             fault == IF ok THEN "none" ELSE "access"
  <2>1. x = [acted EXCEPT !.bus = b, !.fault = fault]
    BY <1>3 DEF BusWrite
  <2>2. begun \in InProgress(p)
    BY <1>0, <1>2, ReplacingBus
  <2>3. Regions[i].writes \in Seq(DmaWrite)
    BY <1>3, RegionFound DEF Region
  <2>4. begun.mem = s.mem /\ begun.touched = s.touched /\ begun.bus = seen
    BY <1>0 DEF InProgress, Progress
  <2> HIDE DEF begun
  <2>5. acted \in InProgress(p)
    BY <2>2, <2>3, DeviceWritesStay
  <2>6. ~ok => acted = begun
    OBVIOUS
  <2> HIDE DEF acted
  <2>7. GoodBus(b)
    BY <1>2, <2>5, Parts, AccessesKeepBus
  <2>8. fault \in Faults
    BY <1>2
  <2>9. ok => fault = "none"
    OBVIOUS
  <2> HIDE DEF b, fault, ok
  <2>10. Reading(p, acted, [acted EXCEPT !.bus = b, !.fault = fault])
    BY <2>5, <2>7, <2>8, ReplacingFault
  <2>11. [acted EXCEPT !.bus = b, !.fault = fault].fault = fault
    BY <2>5 DEF InProgress, Progress
  <2>12. CASE ok
    BY <2>1, <2>9, <2>11, <2>12
  <2>13. CASE ~ok
    <3>1. Reading(p, s, x)
      BY <2>1, <2>4, <2>6, <2>10, <2>13 DEF Reading
    <3> QED BY <3>1, ReadingSpares
  <2> QED BY <2>12, <2>13
<1>4. CASE ~InDRAM(pa, size) /\ findRegion(pa, size) = 0
  <2> DEFINE fault == "access"
  <2>1. x = [s EXCEPT !.bus = seen, !.fault = fault]
    BY <1>4 DEF BusWrite
  <2>2. fault \in Faults
    BY <1>2
  <2> HIDE DEF seen, fault
  <2>3. Reading(p, s, [s EXCEPT !.bus = seen, !.fault = fault])
    BY <1>0, <1>2, <2>2, ReplacingFault
  <2> QED BY <2>1, <2>3, ReadingSpares
<1> QED BY <1>1, <1>3, <1>4

(* What an instruction has reached after an access of kind k: unless it    *)
(* stored something, memory is spared.                                     *)
After(p, m, k) == {x \in InProgress(p) : k # "store" \/ x.fault # "none" => x \in Sparing(p, m)}

LEMMA PerformedStays ==
    ASSUME NEW p, NEW m, NEW s \in Sparing(p, m), NEW pa \in Nat, NEW size \in {1, 2},
           NEW k \in AccessKinds, NEW v \in Int
    PROVE  Performed(s, pa, size, k, v) \in After(p, m, k)
<1>0. s \in InProgress(p)
  BY DEF Sparing
<1>1. Sparing(p, m) \subseteq After(p, m, k)
  BY DEF Sparing, After
<1>2. CASE s.fault # "none"
  <2>1. Performed(s, pa, size, k, v) = s
    BY <1>2 DEF Performed
  <2> QED BY <1>1, <2>1
<1>3. CASE s.fault = "none" /\ k = "fetch"
  <2>1. Performed(s, pa, size, k, v) = BusFetch(s, pa, size)
    BY <1>3 DEF Performed
  <2>2. "access" \in Faults
    BY DEF Faults
  <2>3. Failed(s, "access") \in Sparing(p, m)
    BY <2>2, FailingSpares
  <2>4. BusFetch(s, pa, size) \in Sparing(p, m)
    BY <2>3 DEF BusFetch
  <2> QED BY <1>1, <2>1, <2>4
<1>4. CASE s.fault = "none" /\ k = "load"
  <2>1. Performed(s, pa, size, k, v) = BusRead(s, pa, size)
    BY <1>4 DEF Performed
  <2>2. BusRead(s, pa, size) \in Sparing(p, m)
    BY <1>0, BusReadStays, ReadingSpares
  <2> QED BY <1>1, <2>1, <2>2
<1>5. CASE s.fault = "none" /\ k = "store"
  <2>1. Performed(s, pa, size, k, v) = BusWrite(s, pa, size, v)
    BY <1>5 DEF Performed
  <2>2. BusWrite(s, pa, size, v) \in InProgress(p)
    BY <1>0, BusWriteStays
  <2>3. BusWrite(s, pa, size, v).fault # "none" => BusWrite(s, pa, size, v) \in Sparing(p, m)
    BY <1>5, WritingSpares
  <2> QED BY <1>5, <2>1, <2>2, <2>3 DEF After
<1> QED BY <1>2, <1>3, <1>4, <1>5 DEF AccessKinds

LEMMA AccessStays ==
    ASSUME NEW p \in PmpState, NEW m \in [Dram -> Words], NEW s \in Sparing(p, m),
           NEW c \in Context, NEW va \in Nat,
           NEW size \in {1, 2}, NEW k \in AccessKinds, NEW v \in Int
    PROVE  Access(s, c, va, size, k, v) \in After(p, m, k)
<1> DEFINE t == Translated(s, c, va, k)
           q == Protected(t.s, t.pa, size, k, effectivePriv(c, k))
<1>1. t.s \in Sparing(p, m) /\ t.pa \in Nat
  BY TranslatedStays
<1>2. Access(s, c, va, size, k, v) = IF t.s.fault # "none" THEN t.s
                                     ELSE Performed(q, t.pa, size, k, v)
  BY DEF Access, Accessed
<1> HIDE DEF t
<1>3. q \in Sparing(p, m)
  BY <1>1, ProtectedStays
<1> HIDE DEF q
<1>4. Performed(q, t.pa, size, k, v) \in After(p, m, k)
  BY <1>1, <1>3, PerformedStays
<1>5. t.s \in After(p, m, k)
  BY <1>1 DEF Sparing, After
<1> QED BY <1>2, <1>4, <1>5

(* A fetch over the end of a page, parcel by parcel.                       *)
LEMMA FetchingCarries ==
    ASSUME NEW S, NEW s \in S, NEW c, NEW va \in Vas, NEW size \in {1, 2},
           \A x \in S, a \in Nat, n \in {1, 2} : Access(x, c, a, n, "fetch", 0) \in S
    PROVE  readVirtualFetch(s, c, va, size) \in S
<1> DEFINE n == size
           Next1(x, i) == IF x.fault # "none" THEN x
                          ELSE Access(x, c, (va + i - 1) % VaMod, 1, "fetch", 0)
           g == [z \in S \X (1 .. n) |-> Next1(z[1], z[2])]
           Is(f) == f = [i \in 0 .. n |->
                            CASE i = 0 -> s
                              [] i > 0 /\ f[i - 1].fault # "none" -> f[i - 1]
                              [] OTHER -> Access(f[i - 1], c, (va + i - 1) % VaMod, 1,
                                                 "fetch", 0)]
<1>0. n \in Nat /\ va \in Nat /\ 1 \in {1, 2}
  BY MmuAssumption DEF Vas
<1>1. CASE (va % Fan) + size <= Fan
  <2>1. readVirtualFetch(s, c, va, size) = Access(s, c, va, size, "fetch", 0)
    BY <1>1 DEF readVirtualFetch
  <2>2. Access(s, c, va, size, "fetch", 0) \in S
    BY <1>0
  <2> QED BY <2>1, <2>2
<1>2. ASSUME NEW x \in S, NEW i \in 1 .. n  PROVE Next1(x, i) \in S
  <2>1. (va + i - 1) % VaMod \in Nat
    BY <1>0, MmuAssumption
  <2>2. Access(x, c, (va + i - 1) % VaMod, 1, "fetch", 0) \in S
    BY <1>0, <2>1
  <2> QED BY <2>2
<1>3. \A f : \A i \in 0 .. n :
         (CASE i = 0 -> s
            [] i > 0 /\ f[i - 1].fault # "none" -> f[i - 1]
            [] OTHER -> Access(f[i - 1], c, (va + i - 1) % VaMod, 1, "fetch", 0))
         = (IF i = 0 THEN s ELSE Next1(f[i - 1], i))
  BY <1>0
<1> DEFINE r == CHOOSE h : Is(h)
<1>4. ~((va % Fan) + size <= Fan) => readVirtualFetch(s, c, va, size) = r[n]
  BY Zenon DEF readVirtualFetch
<1> HIDE DEF Next1
<1>5. g \in [S \X (1 .. n) -> S]
  BY <1>2
<1>6. s \in S
  OBVIOUS
<1>7. PICK f \in [0 .. n -> S] : Unrolls(f, n, s, g)
  <2> HIDE DEF n, g
  <2> QED BY <1>0, <1>5, <1>6, Recursion
<1>8. Is(f)
  <2>1. ASSUME NEW i \in 1 .. n  PROVE g[<<f[i - 1], i>>] = Next1(f[i - 1], i)
    <3> HIDE DEF n
    <3>1. i - 1 \in 0 .. n
      BY <1>0
    <3>2. f[i - 1] \in S
      BY <1>7, <3>1
    <3> QED BY <3>2
  <2>2. f = [i \in 0 .. n |-> IF i = 0 THEN s ELSE g[<<f[i - 1], i>>]]
    BY <1>7 DEF Unrolls
  <2> HIDE DEF g, n
  <2>3. ASSUME NEW i \in 0 .. n
        PROVE  (IF i = 0 THEN s ELSE g[<<f[i - 1], i>>]) = (IF i = 0 THEN s ELSE Next1(f[i - 1], i))
    <3>1. i = 0 \/ i \in 1 .. n
      BY <1>0
    <3> QED BY <2>1, <3>1, Zenon
  <2> QED BY <1>3, <2>2, <2>3
<1>9. Is(r)
  BY <1>8, Zenon
<1> HIDE DEF r
<1>10. r[0] \in S /\ \A i \in 1 .. n : r[i - 1] \in S => r[i] \in S
  <2> HIDE DEF n
  <2>1. ASSUME NEW i \in 0 .. n  PROVE r[i] = IF i = 0 THEN s ELSE Next1(r[i - 1], i)
    <3> DEFINE v == CASE i = 0 -> s
                      [] i > 0 /\ r[i - 1].fault # "none" -> r[i - 1]
                      [] OTHER -> Access(r[i - 1], c, (va + i - 1) % VaMod, 1, "fetch", 0)
    <3>1. r[i] = v
      BY <1>9, Zenon
    <3>2. v = IF i = 0 THEN s ELSE Next1(r[i - 1], i)
      BY <1>3, Zenon
    <3> QED BY <3>1, <3>2
  <2>2. r[0] = s /\ \A i \in 1 .. n : r[i] = Next1(r[i - 1], i)
    BY <1>0, <2>1
  <2> QED BY <1>2, <1>6, <2>2
<1>11. r[n] \in S
  <2> HIDE DEF n
  <2> QED BY <1>0, <1>10, Carried
<1> QED BY <1>1, <1>4, <1>11

LEMMA FetchingStays ==
    ASSUME NEW p \in PmpState, NEW m \in [Dram -> Words], NEW s \in Sparing(p, m),
           NEW c \in Context, NEW va \in Vas, NEW size \in {1, 2}
    PROVE  readVirtualFetch(s, c, va, size) \in Sparing(p, m)
<1> DEFINE S == Sparing(p, m)
<1>1. "fetch" \in AccessKinds /\ 0 \in Int
  BY DEF AccessKinds
<1>2. ASSUME NEW x \in S, NEW a \in Nat, NEW n \in {1, 2}
      PROVE  Access(x, c, a, n, "fetch", 0) \in S
  BY <1>1, AccessStays DEF After
<1> HIDE DEF S
<1> QED BY <1>2, FetchingCarries DEF S

LEMMA FetchStays ==
    ASSUME NEW p \in PmpState, NEW m \in [Dram -> Words], NEW s \in Sparing(p, m),
           NEW c \in Context, NEW va \in Vas, NEW size
    PROVE  Fetch(s, c, va, size) \in Sparing(p, m)
<1> DEFINE first == readVirtualFetch(s, c, va, 1)
<1>1. first \in Sparing(p, m)
  BY FetchingStays
<1> HIDE DEF first
<1>2. readVirtualFetch(first, c, va, 2) \in Sparing(p, m)
  BY <1>1, FetchingStays
<1> QED BY <1>1, <1>2 DEF Fetch, FetchRest, first

LEMMA LoadStoreStay ==
    ASSUME NEW p \in PmpState, NEW m \in [Dram -> Words], NEW s \in Sparing(p, m),
           NEW c \in Context, NEW va \in Vas, NEW size \in {1, 2}, NEW v \in Int
    PROVE  /\ load(s, c, va, size) \in Sparing(p, m)
           /\ store(s, c, va, size, v) \in After(p, m, "store")
<1>1. va \in Nat /\ "load" \in AccessKinds /\ "store" \in AccessKinds /\ 0 \in Int
      /\ "misaligned" \in Faults
  BY MmuAssumption DEF Vas, AccessKinds, Faults
<1>2. Access(s, c, va, size, "load", 0) \in Sparing(p, m)
  BY <1>1, AccessStays DEF After
<1>3. Access(s, c, va, size, "store", v) \in After(p, m, "store")
  BY <1>1, AccessStays
<1>4. Failed(s, "misaligned") \in Sparing(p, m)
  BY <1>1, FailingSpares
<1>5. Sparing(p, m) \subseteq After(p, m, "store")
  BY DEF Sparing, After
<1> QED BY <1>2, <1>3, <1>4, <1>5 DEF load, store

LEMMA WordRangeIs ==
    ASSUME NEW n \in {1, 2}
    PROVE  WordRange(n) \in Nat \ {0}
<1>1. WordMod \in Nat \ {0}
  BY MemoryAssumption
<1>2. WordMod * WordMod \in Nat \ {0}
  BY <1>1
<1> QED BY <1>1, <1>2 DEF WordRange

LEMMA BitwiseIs ==
    ASSUME NEW n \in {1, 2}, NEW table \in [0 .. 2 -> {0, 1}], NEW x \in Nat, NEW y \in Nat
    PROVE  Bitwise(n, table, x, y) \in Int
<1> DEFINE N == n * WordBits
           bit(i) == table[BitOf(x, i - 1) + BitOf(y, i - 1)] * 2 ^ (i - 1)
           g == [z \in Int \X (1 .. N) |-> z[1] + bit(z[2])]
           Is(f) == f = [i \in 0 .. N |-> IF i = 0 THEN 0 ELSE f[i - 1] + bit(i)]
<1>1. N \in Nat /\ N <= 2 * WordBits
  BY MemoryAssumption
<1>2. ASSUME NEW i \in 1 .. N  PROVE bit(i) \in Int
  <2> DEFINE w == 2 ^ (i - 1)
  <2>1. w \in Nat \ {0}
    <3>1. i - 1 \in 0 .. 2 * WordBits
      <4> HIDE DEF N
      <4> QED BY <1>1, MemoryAssumption
    <3> QED BY <3>1, MemoryAssumption
  <2> HIDE DEF w
  <2>2. x \div w \in Int /\ y \div w \in Int
    BY <2>1
  <2>3. (x \div w) % 2 \in {0, 1} /\ (y \div w) % 2 \in {0, 1}
    BY <2>2
  <2> DEFINE b == (x \div w) % 2
             d == (y \div w) % 2
  <2> HIDE DEF b, d
  <2>4. table[b + d] \in {0, 1}
    BY <2>3 DEF b, d
  <2>5. table[b + d] * w \in Int
    BY <2>1, <2>4
  <2> QED BY <2>5 DEF b, d, w, BitOf
<1> DEFINE r == CHOOSE h : Is(h)
<1>3. Bitwise(n, table, x, y) = r[N]
  BY Zenon DEF Bitwise
<1> HIDE DEF bit, N
<1>4. g \in [Int \X (1 .. N) -> Int] /\ 0 \in Int
  BY <1>2
<1>5. PICK f \in [0 .. N -> Int] : Unrolls(f, N, 0, g)
  <2> HIDE DEF g
  <2> QED BY <1>1, <1>4, Recursion
<1>6. Is(f)
  <2>1. ASSUME NEW i \in 1 .. N  PROVE g[<<f[i - 1], i>>] = f[i - 1] + bit(i)
    <3>1. i - 1 \in 0 .. N
      BY <1>1
    <3>2. f[i - 1] \in Int
      BY <1>5, <3>1
    <3> QED BY <3>2
  <2>2. f = [i \in 0 .. N |-> IF i = 0 THEN 0 ELSE g[<<f[i - 1], i>>]]
    BY <1>5 DEF Unrolls
  <2> HIDE DEF g
  <2>3. \A i \in 0 .. N : (IF i = 0 THEN 0 ELSE g[<<f[i - 1], i>>])
                          = (IF i = 0 THEN 0 ELSE f[i - 1] + bit(i))
    BY <1>1, <2>1
  <2> QED BY <2>2, <2>3
<1>7. Is(r)
  BY <1>6, Zenon
<1> HIDE DEF r
<1>8. r[0] \in Int /\ \A i \in 1 .. N : r[i - 1] \in Int => r[i] \in Int
  <2>1. r[0] = 0 /\ \A i \in 1 .. N : r[i] = r[i - 1] + bit(i)
    BY <1>1, <1>7
  <2> QED BY <1>2, <2>1
<1>9. r[N] \in Int
  BY <1>1, <1>8, Carried
<1> QED BY <1>3, <1>9

LEMMA AmoResultIs ==
    ASSUME NEW fn \in AmoFns, NEW n \in {1, 2}, NEW old \in Nat, NEW src \in Nat
    PROVE  AmoResult(fn, n, old, src) \in Int
<1>1. (old + src) % WordRange(n) \in Int
  BY WordRangeIs
<1>2. /\ Bitwise(n, Xor, old, src) \in Int
      /\ Bitwise(n, And, old, src) \in Int
      /\ Bitwise(n, Or, old, src) \in Int
  <2>1. Xor \in [0 .. 2 -> {0, 1}] /\ And \in [0 .. 2 -> {0, 1}] /\ Or \in [0 .. 2 -> {0, 1}]
    BY DEF Xor, And, Or
  <2> QED BY <2>1, BitwiseIs
<1> QED BY <1>1, <1>2 DEF AmoResult, AmoFns

-----------------------------------------------------------------------------
(* The inductive invariant: with the types, both rings are in order, the   *)
(* marks of used entries are kept and the cached answers are sound.        *)

IInv ==
    /\ TypeOK
    /\ InOrder(bus.events) /\ InOrder(bus.hits)
    /\ MarksKept(mem, touched)
    /\ \A h \in setup.harts : CacheSound(pmp[h])

LEMMA StateIs ==
    ASSUME IInv, NEW h \in setup.harts
    PROVE  /\ State(h) \in Sparing(pmp[h], mem) /\ mem \in [Dram -> Words]
           /\ pmp[h] \in PmpState /\ ctx[h] \in Context
<1>1. "none" \in Faults
  BY DEF Faults
<1>2. State(h) \in InProgress(pmp[h])
  BY <1>1 DEF State, InProgress, Progress, IInv, TypeOK, Touched
<1>3. Spares(mem, State(h))
  BY DEF State, Spares
<1> QED BY <1>2, <1>3 DEF Sparing, IInv, TypeOK

LEMMA SetupIs ==
    ASSUME IInv
    PROVE  IsSetup(setup)
BY MemoryAssumption DEF IInv, TypeOK

LEMMA OperationIs ==
    ASSUME IInv, NEW op \in setup.ops
    PROVE  /\ op.hart \in setup.harts /\ op.va \in Vas /\ op.size \in {1, 2} /\ op.val \in Nat
           /\ op.kind \in {"fetch", "load", "store", "lr", "sc", "amo"}
           /\ op.kind = "amo" => op.fn \in AmoFns
           /\ op.val % WordRange(op.size) \in Nat
<1>1. op \in Operations(setup.harts)
  BY SetupIs DEF IsSetup
<1>2. op.size \in {1, 2} /\ op.val \in Nat
  BY <1>1 DEF Operations
<1>3. op.val % WordRange(op.size) \in Nat
  BY <1>2, WordRangeIs
<1> QED BY <1>1, <1>3 DEF Operations

LEMMA AmoStays ==
    ASSUME IInv, NEW op \in setup.ops, op.kind = "amo", NEW p \in PmpState,
           NEW m \in [Dram -> Words], NEW s \in Sparing(p, m), NEW c \in Context
    PROVE  Amo(s, c, op) \in After(p, m, "store")
<1> DEFINE read == load(s, c, op.va, op.size)
           new == AmoResult(op.fn, op.size, read.value, op.val % WordRange(op.size))
           begun == [read EXCEPT !.value = 0]
           done == store(begun, c, op.va, op.size, new)
           x == [done EXCEPT !.value = read.value]
<1>1. /\ op.va \in Vas /\ op.size \in {1, 2} /\ op.fn \in AmoFns
      /\ op.val % WordRange(op.size) \in Nat
  BY OperationIs
<1>2. read \in Sparing(p, m)
  <2>1. 0 \in Int
    OBVIOUS
  <2> QED BY <1>1, <2>1, LoadStoreStay
<1>3. Amo(s, c, op) = IF read.fault # "none" THEN read ELSE x
  BY DEF Amo, AmoWrite
<1> HIDE DEF read
<1>4. read.value \in Nat /\ 0 \in Nat /\ read \in InProgress(p)
  BY <1>2, Parts DEF Sparing
<1>5. new \in Int
  BY <1>1, <1>4, AmoResultIs
<1>6. begun \in Sparing(p, m)
  BY <1>2, <1>4, ReplacingValue
<1> HIDE DEF new, begun
<1>7. done \in After(p, m, "store")
  BY <1>1, <1>5, <1>6, LoadStoreStay
<1> HIDE DEF done
<1>8. /\ x \in InProgress(p) /\ x.fault = done.fault
      /\ done \in Sparing(p, m) => x \in Sparing(p, m)
  BY <1>4, <1>7, ReplacingValue DEF After
<1> HIDE DEF x
<1>9. x \in After(p, m, "store")
  BY <1>7, <1>8 DEF After
<1> QED BY <1>2, <1>3, <1>9 DEF After, Sparing

LEMMA OutcomeStays ==
    ASSUME IInv, NEW op \in setup.ops
    PROVE  Outcome(op) \in After(pmp[op.hart], mem, "store")
<1> DEFINE s == State(op.hart)
           c == ctx[op.hart]
           p == pmp[op.hart]
           src == op.val % WordRange(op.size)
           end == After(p, mem, "store")
<1>1. /\ op.hart \in setup.harts /\ op.va \in Vas /\ op.size \in {1, 2}
      /\ op.val \in Int /\ src \in Int
      /\ op.kind \in {"fetch", "load", "store", "lr", "sc", "amo"}
  BY OperationIs
<1>2. s \in Sparing(p, mem) /\ mem \in [Dram -> Words] /\ p \in PmpState /\ c \in Context
  BY <1>1, StateIs
<1>3. Sparing(p, mem) \subseteq end
  BY DEF Sparing, After
<1>4. \/ Outcome(op) = Fetch(s, c, op.va, op.size)
      \/ Outcome(op) = load(s, c, op.va, op.size)
      \/ Outcome(op) = store(s, c, op.va, op.size, op.val)
      \/ Outcome(op) = StoreConditional(s, op.hart, op)
      \/ (op.kind = "amo" /\ Outcome(op) = Amo(s, c, op))
  BY <1>1, Zenon DEF Outcome
<1>5. \/ StoreConditional(s, op.hart, op) = store(s, c, op.va, op.size, src)
      \/ StoreConditional(s, op.hart, op) = Failed(s, "misaligned")
      \/ StoreConditional(s, op.hart, op) = [s EXCEPT !.value = 1]
  BY DEF StoreConditional
<1> HIDE DEF s, c, p, src, end
<1>6. /\ load(s, c, op.va, op.size) \in Sparing(p, mem)
      /\ store(s, c, op.va, op.size, op.val) \in end
  BY <1>1, <1>2, LoadStoreStay DEF end
<1>7. store(s, c, op.va, op.size, src) \in end
  BY <1>1, <1>2, LoadStoreStay DEF end
<1>8. Fetch(s, c, op.va, op.size) \in Sparing(p, mem)
  BY <1>1, <1>2, FetchStays
<1>9. [s EXCEPT !.value = 1] \in Sparing(p, mem) /\ Failed(s, "misaligned") \in Sparing(p, mem)
  <2>1. 1 \in Nat /\ "misaligned" \in Faults /\ s \in InProgress(p)
    BY <1>2 DEF Faults, Sparing
  <2>2. [s EXCEPT !.value = 1] \in Sparing(p, mem)
    BY <1>2, <2>1, ReplacingValue
  <2>3. Failed(s, "misaligned") \in Sparing(p, mem)
    BY <1>2, <2>1, FailingSpares
  <2> QED BY <2>2, <2>3
<1>10. op.kind = "amo" => Amo(s, c, op) \in end
  BY <1>2, AmoStays DEF end
<1>11. Outcome(op) \in end
  BY <1>3, <1>4, <1>5, <1>6, <1>7, <1>8, <1>9, <1>10
<1> QED BY <1>11 DEF end, p

LEMMA MachineCtxIs == MachineCtx(CHOOSE q \in Ppns : TRUE) \in Context
<1>1. (CHOOSE q \in Ppns : TRUE) \in Ppns
  BY MmuAssumption
<1> QED BY <1>1 DEF MachineCtx, Context, SatpModes

LEMMA InitIsSound == Init => IInv
<1> SUFFICES ASSUME Init  PROVE IInv
  OBVIOUS
<1>1. IsSetup(setup)
  BY MemoryAssumption DEF Init
<1>2. GoodBus(bus)
  BY NewBusIsGood DEF Init
<1>3. mem \in [Dram -> Words] /\ ctx \in [setup.harts -> Context]
  BY <1>1, MachineCtxIs DEF Init, IsSetup
<1>4. pmp \in [setup.harts -> PmpState] /\ \A h \in setup.harts : CacheSound(pmp[h])
  BY AfterReset DEF Init
<1>5. resv \in [setup.harts -> Vas \cup {NoResv}] /\ added \in Words
  BY MemoryAssumption DEF Init, Words
<1>6. touched \in Touched /\ MarksKept(mem, touched)
  BY DEF Init, Touched, MarksKept
<1> QED BY <1>2, <1>3, <1>4, <1>5, <1>6 DEF Init, IInv, TypeOK, GoodBus, Touched

(* What the cache of a hart's registers may become.                        *)
LEMMA CheckedRegisters ==
    ASSUME NEW p \in PmpState, CacheSound(p), NEW q \in {p, CheckCache(p)}
    PROVE  q \in PmpState /\ CacheSound(q) /\ KeepsLocked(p, q)
<1>1. q \in PmpState /\ CacheSound(q) /\ q.cfg = p.cfg /\ q.addr = p.addr
  BY FillingTheCache
<1> QED BY <1>1, SameRegistersSameLocks

LEMMA ReservationIs ==
    ASSUME IInv, NEW op \in setup.ops, NEW fault
    PROVE  ReservationAfter(op.hart, op, fault) \in Vas \cup {NoResv}
<1>1. op.va \in Vas /\ resv[op.hart] \in Vas \cup {NoResv}
  BY OperationIs DEF IInv, TypeOK
<1> QED BY <1>1, Zenon DEF ReservationAfter

LEMMA ExecuteIsSound ==
    ASSUME IInv, NEW op \in setup.ops, Execute(op)
    PROVE  IInv' /\ \A h \in setup.harts : KeepsLocked(pmp[h], pmp'[h])
<1> DEFINE out == Outcome(op)
           p == pmp[op.hart]
           r == ReservationAfter(op.hart, op, out.fault)
<1>1. op.hart \in setup.harts /\ op.val \in Nat
  BY OperationIs
<1>2. out \in InProgress(p) /\ p \in PmpState /\ CacheSound(p)
  BY <1>1, OutcomeStays, StateIs DEF IInv, After
<1>3. r \in Vas \cup {NoResv}
  BY ReservationIs
<1>4. /\ mem' = out.mem /\ bus' = out.bus /\ touched' = out.touched
      /\ pmp' = [pmp EXCEPT ![op.hart] = out.pmp]
      /\ resv' = [resv EXCEPT ![op.hart] = r]
      /\ added' = added \/ added' = (added + op.val) % WordMod
      /\ setup' = setup /\ ctx' = ctx
  BY DEF Execute, Complete
<1>5. /\ out.mem \in [Dram -> Words] /\ GoodBus(out.bus)
      /\ out.touched \in Touched /\ MarksKept(out.mem, out.touched)
      /\ out.pmp \in {p, CheckCache(p)}
  BY <1>2, Parts
<1> HIDE DEF out, r
<1>6. out.pmp \in PmpState /\ CacheSound(out.pmp) /\ KeepsLocked(p, out.pmp)
  BY <1>2, <1>5, CheckedRegisters
<1>7. added' \in Words
  <2>1. WordMod \in Nat \ {0} /\ added \in Words
    BY MemoryAssumption DEF IInv, TypeOK
  <2>2. (added + op.val) % WordMod \in Words
    BY <1>1, <2>1 DEF Words
  <2> QED BY <1>4, <2>1, <2>2
<1>8. /\ pmp \in [setup.harts -> PmpState] /\ resv \in [setup.harts -> Vas \cup {NoResv}]
      /\ ctx \in [setup.harts -> Context] /\ setup \in Setups
      /\ \A h \in setup.harts : CacheSound(pmp[h])
  BY DEF IInv, TypeOK
<1>9. /\ pmp' \in [setup.harts -> PmpState] /\ resv' \in [setup.harts -> Vas \cup {NoResv}]
      /\ \A h \in setup.harts : CacheSound(pmp'[h])
  BY <1>1, <1>3, <1>4, <1>6, <1>8
<1>10. ASSUME NEW h \in setup.harts  PROVE KeepsLocked(pmp[h], pmp'[h])
  <2>1. CASE h = op.hart
    BY <1>1, <1>4, <1>6, <1>8, <2>1
  <2>2. CASE h # op.hart
    <3>1. pmp'[h] = pmp[h] /\ pmp[h] \in PmpState
      BY <1>4, <1>8, <2>2
    <3> QED BY <3>1, SameRegistersSameLocks
  <2> QED BY <2>1, <2>2
<1> QED BY <1>4, <1>5, <1>7, <1>8, <1>9, <1>10 DEF IInv, TypeOK, GoodBus, Touched

(* A write of a hart's protection registers.                               *)
LEMMA RegistersChange ==
    ASSUME IInv, NEW g \in setup.harts, NEW q \in PmpState, CacheSound(q),
           pmp' = [pmp EXCEPT ![g] = q]
    PROVE  /\ pmp' \in [setup.harts -> PmpState]
           /\ \A h \in setup.harts : CacheSound(pmp'[h])
           /\ \A h \in setup.harts : h # g \/ KeepsLocked(pmp[g], q) =>
                                        KeepsLocked(pmp[h], pmp'[h])
<1>1. pmp \in [setup.harts -> PmpState] /\ \A h \in setup.harts : CacheSound(pmp[h])
  BY DEF IInv, TypeOK
<1>2. \A h \in setup.harts : pmp'[h] = IF h = g THEN q ELSE pmp[h]
  BY <1>1
<1>3. \A h \in setup.harts : KeepsLocked(pmp[h], pmp[h])
  BY <1>1, SameRegistersSameLocks
<1> QED BY <1>1, <1>2, <1>3

LEMMA RegisterWritesAreSound ==
    ASSUME IInv, NEW h \in setup.harts,
           \/ \E new \in setup.cfgs, g \in {i \div GroupSize : i \in Entries} :
                 WritePmpCfg(h, g, new)
           \/ \E a \in setup.addrs : WritePmpAddr(h, a[1], a[2])
    PROVE  IInv' /\ \A k \in setup.harts : KeepsLocked(pmp[k], pmp'[k])
<1>1. PICK q : /\ q \in PmpState /\ CacheSound(q) /\ KeepsLocked(pmp[h], q)
               /\ pmp' = [pmp EXCEPT ![h] = q]
               /\ UNCHANGED <<setup, mem, ctx, resv, bus, added, touched>>
  <2>1. pmp[h] \in PmpState /\ CacheSound(pmp[h])
    BY DEF IInv, TypeOK
  <2>2. CASE \E new \in setup.cfgs, g \in {i \div GroupSize : i \in Entries} :
                WritePmpCfg(h, g, new)
    <3>1. PICK new \in setup.cfgs, g \in {i \div GroupSize : i \in Entries} :
             WritePmpCfg(h, g, new)
      BY <2>2
    <3>2. new \in [Entries -> PmpCfg]
      BY SetupIs DEF IsSetup
    <3> DEFINE q == pmpSetCfgCSR(pmp[h], g, new)
    <3>3. q \in PmpState /\ CacheSound(q) /\ KeepsLocked(pmp[h], q)
      BY <2>1, <3>2, WritingCfg
    <3>4. /\ pmp' = [pmp EXCEPT ![h] = q]
          /\ UNCHANGED <<setup, mem, ctx, resv, bus, added, touched>>
      BY <3>1 DEF WritePmpCfg
    <3> HIDE DEF q
    <3> QED BY <3>3, <3>4
  <2>3. CASE \E a \in setup.addrs : WritePmpAddr(h, a[1], a[2])
    <3>1. PICK a \in setup.addrs : WritePmpAddr(h, a[1], a[2])
      BY <2>3
    <3>2. a[1] \in Entries /\ a[2] \in Nat
      BY SetupIs DEF IsSetup
    <3> DEFINE q == pmpSetAddrCSR(pmp[h], a[1], a[2])
    <3>3. q \in PmpState /\ CacheSound(q) /\ KeepsLocked(pmp[h], q)
      BY <2>1, <3>2, WritingAddr
    <3>4. /\ pmp' = [pmp EXCEPT ![h] = q]
          /\ UNCHANGED <<setup, mem, ctx, resv, bus, added, touched>>
      BY <3>1 DEF WritePmpAddr
    <3> HIDE DEF q
    <3> QED BY <3>3, <3>4
  <2> QED BY <2>2, <2>3
<1>2. /\ pmp' \in [setup.harts -> PmpState]
      /\ \A k \in setup.harts : CacheSound(pmp'[k])
      /\ \A k \in setup.harts : KeepsLocked(pmp[k], pmp'[k])
  BY <1>1, RegistersChange
<1> QED BY <1>1, <1>2 DEF IInv, TypeOK

LEMMA ResetIsSound ==
    ASSUME IInv, NEW h \in setup.harts, HartReset(h)
    PROVE  IInv' /\ \A k \in setup.harts : ~HartReset(k) => KeepsLocked(pmp[k], pmp'[k])
<1>1. /\ pmp' \in [setup.harts -> PmpState]
      /\ \A k \in setup.harts : CacheSound(pmp'[k])
      /\ \A k \in setup.harts : k # h => KeepsLocked(pmp[k], pmp'[k])
  <2>1. pmp' = [pmp EXCEPT ![h] = PmpReset]
    BY DEF HartReset
  <2> QED BY <2>1, AfterReset, RegistersChange
<1>2. ctx' \in [setup.harts -> Context] /\ resv' \in [setup.harts -> Vas \cup {NoResv}]
  BY MachineCtxIs DEF HartReset, IInv, TypeOK
<1>3. UNCHANGED <<setup, mem, bus, added, touched>>
  BY DEF HartReset
<1> QED BY <1>1, <1>2, <1>3 DEF IInv, TypeOK

LEMMA DmaIsSound ==
    ASSUME IInv, NEW w \in setup.dma, DeviceDma(w)
    PROVE  IInv' /\ pmp' = pmp
<1> DEFINE m == DramStored(mem, w.addr, 1, w.val)
           b == DramAccess(bus, "write", w.addr, 1)
           t == Without(touched, Units(w.addr, 1))
<1>1. w \in DmaWrite
  BY SetupIs DEF IsSetup
<1>2. w.addr \in Nat /\ Units(w.addr, 1) \subseteq Dram /\ w.val \in Int /\ 1 \in {1, 2}
  BY <1>1, BusAssumption DEF DmaWrite, Units, Dram
<1>3. mem \in [Dram -> Words] /\ touched \in Touched /\ MarksKept(mem, touched) /\ GoodBus(bus)
      /\ "write" \in AccessOps
  BY DEF IInv, TypeOK, Touched, GoodBus, AccessOps
<1>4. /\ mem' = m /\ bus' = b /\ touched' = t
      /\ UNCHANGED <<setup, ctx, pmp, resv, added>>
  BY DEF DeviceDma, DramWrite, Without
<1>5. m \in [Dram -> Words]
  BY <1>2, <1>3, StoringWords
<1>6. t \in Touched /\ MarksKept(m, t)
  BY <1>2, <1>3, StoringKeepsMarks
<1>7. GoodBus(b)
  BY <1>2, <1>3, AccessesKeepBus
<1> HIDE DEF m, b, t
<1> QED BY <1>4, <1>5, <1>6, <1>7 DEF IInv, TypeOK, Touched, GoodBus

LEMMA ObservingIsSound ==
    ASSUME IInv, Viewer \/ TakeWatchpoint
    PROVE  IInv' /\ pmp' = pmp
<1>1. GoodBus(bus) /\ \A op \in {"read", "write"} : op \in AccessOps
  BY DEF IInv, TypeOK, GoodBus, AccessOps
<1>2. setup.watches \subseteq Watchpoint /\ setup.traced \subseteq BOOLEAN
  BY SetupIs DEF IsSetup
<1>3. PICK b : GoodBus(b) /\ Observe(b)
  <2>0. [base |-> 0, size |-> 0] \in Watchpoint /\ "read" \in AccessOps /\ TRUE \in BOOLEAN
    BY DEF Watchpoint, AccessOps
  <2>1. /\ GoodBus(ClearLastWatchpoint(bus))
        /\ GoodBus(ClearWatchpointHits(bus)) /\ GoodBus(ClearAccessTimeline(bus))
    BY <1>1, <2>0, ViewerKeepsBus
  <2>2. \A w \in setup.watches, op \in {"read", "write"} : GoodBus(AddWatchpoint(bus, op, w))
    BY <1>1, <1>2, <2>0, ViewerKeepsBus
  <2>3. \A op \in {"read", "write"} : GoodBus(ClearWatchpoints(bus, op))
    BY <1>1, <2>0, ViewerKeepsBus
  <2>4. \A on \in setup.traced : GoodBus(SetTraceDRAMAccess(bus, on))
    BY <1>1, <1>2, <2>0, ViewerKeepsBus
  <2>5. CASE TakeWatchpoint
    BY <2>1, <2>5 DEF TakeWatchpoint
  <2>6. CASE Viewer
    BY <2>1, <2>2, <2>3, <2>4, <2>6, Zenon DEF Viewer
  <2> QED BY <2>5, <2>6
<1>4. bus' = b /\ UNCHANGED <<setup, mem, ctx, pmp, resv, added, touched>>
  BY <1>3 DEF Observe
<1> QED BY <1>3, <1>4 DEF IInv, TypeOK, GoodBus

(* What LockedRegionsHold says of one step.                                *)
LocksKept == \A h \in setup.harts : ~HartReset(h) => KeepsLocked(pmp[h], pmp'[h])

LEMMA StepIsSound == IInv /\ [Next]_vars => IInv' /\ LocksKept
<1> SUFFICES ASSUME IInv, [Next]_vars  PROVE IInv' /\ LocksKept
  OBVIOUS
<1>0. pmp' = pmp => LocksKept
  <2>1. \A h \in setup.harts : pmp[h] \in PmpState
    BY DEF IInv, TypeOK
  <2>2. \A h \in setup.harts : KeepsLocked(pmp[h], pmp[h])
    BY <2>1, SameRegistersSameLocks
  <2> QED BY <2>2 DEF LocksKept
<1>1. CASE \E op \in setup.ops : Execute(op)
  BY <1>1, ExecuteIsSound DEF LocksKept
<1>2. CASE \E h \in setup.harts : \E c \in setup.contexts[h] : SetContext(h, c)
  <2>1. PICK h \in setup.harts : \E c \in setup.contexts[h] : SetContext(h, c)
    BY <1>2
  <2>2. PICK c \in setup.contexts[h] : SetContext(h, c)
    BY <2>1
  <2>3. c \in Context
    BY SetupIs DEF IsSetup
  <2>4. ctx' \in [setup.harts -> Context]
        /\ UNCHANGED <<setup, mem, pmp, resv, bus, added, touched>>
    BY <2>2, <2>3 DEF SetContext, IInv, TypeOK
  <2>5. IInv'
    BY <2>4 DEF IInv, TypeOK
  <2> QED BY <1>0, <2>4, <2>5
<1>3. CASE \E h \in setup.harts, new \in setup.cfgs :
              \E g \in {i \div GroupSize : i \in Entries} : WritePmpCfg(h, g, new)
  BY <1>3, RegisterWritesAreSound DEF LocksKept
<1>4. CASE \E h \in setup.harts, a \in setup.addrs : WritePmpAddr(h, a[1], a[2])
  BY <1>4, RegisterWritesAreSound DEF LocksKept
<1>5. CASE \E h \in setup.harts : setup.cfgs # {} /\ HartReset(h)
  BY <1>5, ResetIsSound DEF LocksKept
<1>6. CASE \E w \in setup.dma : DeviceDma(w)
  BY <1>0, <1>6, DmaIsSound
<1>7. CASE Viewer \/ TakeWatchpoint
  BY <1>0, <1>7, ObservingIsSound
<1>8. CASE UNCHANGED vars
  <2>1. IInv'
    BY <1>8 DEF vars, IInv, TypeOK
  <2> QED BY <1>0, <1>8, <2>1 DEF vars
<1> QED BY <1>1, <1>2, <1>3, <1>4, <1>5, <1>6, <1>7, <1>8 DEF Next

LEMMA AlwaysSound == Spec => []IInv /\ [][LocksKept]_vars
<1>1. IInv /\ [Next]_vars => IInv'
  BY StepIsSound
<1>2. IInv /\ [Next]_vars => LocksKept
  BY StepIsSound
<1> QED BY <1>1, <1>2, InitIsSound, PTL DEF Spec

-----------------------------------------------------------------------------
(* Registers, memory, rings and reservations keep their ranges, whatever   *)
(* the instructions of exec_amo.go, mmu.go and bus.go, the devices and the *)
(* viewer do and however they interleave.                                  *)
THEOREM TypeCorrect == Spec => []TypeOK
<1>1. IInv => TypeOK
  BY DEF IInv
<1> QED BY <1>1, AlwaysSound, PTL

(* AccessTimeline and WatchpointHits show the newest entries in order,     *)
(* for rings of every size and every limit, after any accesses and clears. *)
THEOREM RingsInOrder == Spec => []RingsShowNewest
<1>1. IInv => RingsShowNewest
  <2> SUFFICES ASSUME IInv  PROVE RingsShowNewest
    OBVIOUS
  <2>1. GoodBus(bus)
    BY DEF IInv, TypeOK, GoodBus
  <2>2. /\ bus.events \in Ring(RingSize, AccessEvent) /\ InOrder(bus.events)
        /\ bus.hits \in Ring(HitSize, WatchpointHit) /\ InOrder(bus.hits)
        /\ bus.events.size = RingSize /\ bus.hits.size = HitSize
    BY <2>1 DEF GoodBus, BusState, Ring
  <2>3. \A limit \in 0 .. RingSize + 1 :
           ReadOut(bus.events, limit)
           = Newest(bus.events.log, IF limit = 0 THEN RingSize ELSE limit)
    BY <2>2, ReadOutIsNewest, BusAssumption
  <2>4. \A limit \in 0 .. HitSize + 1 :
           ReadOut(bus.hits, limit)
           = Newest(bus.hits.log, IF limit = 0 THEN HitSize ELSE limit)
    BY <2>2, ReadOutIsNewest, BusAssumption
  <2> QED BY <2>2, <2>3, <2>4 DEF RingsShowNewest
<1> QED BY <1>1, AlwaysSound, PTL

(* The cached PMPActive of pmp.go agrees with a scan of the registers on   *)
(* every hart, after any resets, register writes and accesses.             *)
THEOREM CacheIsSound == Spec => []PmpCacheSound
<1>1. IInv => PmpCacheSound
  BY DEF IInv, PmpCacheSound, CacheSound
<1> QED BY <1>1, AlwaysSound, PTL

(* Until a reset no step moves what a locked entry protects, but for the   *)
(* base of a top-of-range entry above an unlocked one: pmpSetAddrCSR looks *)
(* at the lock of its own entry alone.                                     *)
THEOREM LocksHold == Spec => LockedRegionsHold
<1>1. LocksKept <=> \A h \in setup.harts : ~HartReset(h) => KeepsLocked(pmp[h], pmp'[h])
  BY DEF LocksKept
<1> QED BY <1>1, AlwaysSound, PTL DEF LockedRegionsHold

(* The update of the accessed and dirty bits in translate is not lost: an  *)
(* entry a completed access used is marked until software rewrites it.     *)
THEOREM PagesMarked == Spec => []WrittenPagesAreDirty
<1>1. IInv => WrittenPagesAreDirty
  BY DEF IInv, MarksKept, WrittenPagesAreDirty
<1> QED BY <1>1, AlwaysSound, PTL

(* A store or an atomic instruction is all or nothing: BusWrite and        *)
(* translate have changed no word by the time an access faults, except for *)
(* the accessed and dirty bits of the leaf.                                *)
THEOREM FaultsSpareMemory == Spec => []FaultsChangeNoData
<1>1. IInv => FaultsChangeNoData
  <2> SUFFICES ASSUME IInv, NEW op \in setup.ops
               PROVE  LET out == Outcome(op) IN out.fault # "none" => Spares(mem, out)
    BY DEF FaultsChangeNoData
  <2>1. Outcome(op) \in After(pmp[op.hart], mem, "store")
    BY OutcomeStays
  <2> QED BY <2>1 DEF After, Sparing
<1> QED BY <1>1, AlwaysSound, PTL

-----------------------------------------------------------------------------
(* What translate grants.                                                  *)

(* The leaf an entry of level l is, with the page of va in it.             *)
Maps(e, l) == e # BusError /\ e.v /\ (e.r \/ (e.x /\ ~e.w)) /\ e.ppn % Pages(l) = 0
PageOf(e, va, l) == e.ppn + ((va \div Fan) % Pages(l))
LeafAt(e, va, l) == IF Maps(e, l) THEN {[e |-> e, page |-> PageOf(e, va, l)]} ELSE {}

(* The walk stops at the one level where there can be a leaf.              *)
LEMMA LeavesAre ==
    ASSUME NEW m \in [Dram -> Words], NEW c \in Context, NEW va \in Nat
    PROVE  LET pte == Tables(m)
               stop == StopAt(pte, c, va)
           IN  Leaves(pte, c, va) = LeafAt(pte[SlotAt(pte, c, va, stop)], va, stop)
<1> DEFINE pte == Tables(m)
           stop == StopAt(pte, c, va)
           top == pte[Slot2(c, va)]
           mid == pte[Slot1(pte, c, va)]
           low == pte[Slot0(pte, c, va)]
           e == pte[SlotAt(pte, c, va, stop)]
           points(x) == x # BusError /\ x.v /\ ~x.r /\ ~x.w /\ ~x.x
<1>1. stop = (IF ~Pointer(top) THEN 2 ELSE IF ~Pointer(mid) THEN 1 ELSE 0)
      /\ e = (IF stop = 2 THEN top ELSE IF stop = 1 THEN mid ELSE low)
  BY DEF StopAt, SlotAt
<1>2. stop \in Levels /\ \A l \in stop .. 2 : SlotAt(pte, c, va, l) \in Nat
  BY SlotsAre
<1>3. \A a \in Nat : pte[a] = BusError \/ pte[a] \in Pte
  BY EntryIs
<1>4. /\ top = BusError \/ top \in Pte
      /\ stop # 2 => mid = BusError \/ mid \in Pte
      /\ stop = 0 => low = BusError \/ low \in Pte
  <2> HIDE DEF pte, stop
  <2>1. Slot2(c, va) \in Nat /\ (stop # 2 => Slot1(pte, c, va) \in Nat)
        /\ (stop = 0 => Slot0(pte, c, va) \in Nat)
    BY <1>2 DEF SlotAt, Levels
  <2> QED BY <1>3, <2>1
<1>5. Leaves(pte, c, va)
      = CASE Maps(top, 2) ->
               {[e |-> top, page |-> top.ppn + ((va \div Fan) % (Fan * Fan))]}
          [] points(top) /\ Maps(mid, 1) ->
               {[e |-> mid, page |-> mid.ppn + ((va \div Fan) % Fan)]}
          [] points(top) /\ points(mid) /\ Maps(low, 0) -> {[e |-> low, page |-> low.ppn]}
          [] OTHER -> {}
  BY Zenon DEF Leaves, Maps, Slot2, Slot1, Slot0
<1>6. Pages(2) = Fan * Fan /\ Pages(1) = Fan /\ Pages(0) = 1
  BY DEF Pages
<1> DEFINE n == va \div Fan
<1>7. n % 1 = 0
  <2>1. n \in Int
    BY MmuAssumption
  <2> HIDE DEF n
  <2> QED BY <2>1
<1> HIDE DEF pte, stop, top, mid, low, e
<1>8. ASSUME NEW x \in Pte
      PROVE  (points(x) <=> Pointer(x) /\ x # BusError) /\ (\A l : Maps(x, l) => ~Pointer(x))
  BY DEF Pte, Pointer, Reserved, Leaf, Maps
<1>9. ASSUME NEW x \in {top, mid, low}  PROVE Pointer(x) => x # BusError
  BY DEF Pointer
<1>10. \A l : ~Maps(BusError, l) /\ ~points(BusError) /\ ~Pointer(BusError)
  BY DEF Maps, Pointer
<1>11. CASE ~Pointer(top)
  <2>1. stop = 2 /\ e = top /\ ~points(top)
    BY <1>1, <1>4, <1>8, <1>10, <1>11
  <2>2. Leaves(pte, c, va) = IF Maps(top, 2)
                             THEN {[e |-> top, page |-> top.ppn + (n % (Fan * Fan))]} ELSE {}
    BY <1>5, <2>1, Zenon
  <2> QED BY <1>6, <2>1, <2>2 DEF LeafAt, PageOf, pte, stop, e
<1>12. CASE Pointer(top) /\ ~Pointer(mid)
  <2>1. stop = 1 /\ e = mid /\ points(top) /\ ~Maps(top, 2) /\ ~points(mid)
    BY <1>1, <1>4, <1>8, <1>9, <1>10, <1>12
  <2>2. Leaves(pte, c, va) = IF Maps(mid, 1)
                             THEN {[e |-> mid, page |-> mid.ppn + (n % Fan)]} ELSE {}
    BY <1>5, <2>1, Zenon
  <2> QED BY <1>6, <2>1, <2>2 DEF LeafAt, PageOf, pte, stop, e
<1>13. CASE Pointer(top) /\ Pointer(mid)
  <2>1. stop = 0 /\ e = low /\ points(top) /\ ~Maps(top, 2) /\ points(mid) /\ ~Maps(mid, 1)
    BY <1>1, <1>4, <1>8, <1>9, <1>10, <1>13
  <2>2. Leaves(pte, c, va) = IF Maps(low, 0) THEN {[e |-> low, page |-> low.ppn]} ELSE {}
    BY <1>5, <2>1, Zenon
  <2>3. Maps(low, 0) => low.ppn + (n % 1) = low.ppn
    <3>1. Maps(low, 0) => low \in Pte
      BY <1>4, <1>10, <2>1
    <3> QED BY <1>7, <3>1 DEF Pte
  <2>4. LeafAt(low, va, 0) = IF Maps(low, 0) THEN {[e |-> low, page |-> low.ppn + (n % 1)]} ELSE {}
    BY <1>6 DEF LeafAt, PageOf
  <2>5. LeafAt(low, va, 0) = IF Maps(low, 0) THEN {[e |-> low, page |-> low.ppn]} ELSE {}
    BY <2>3, <2>4
  <2> QED BY <2>1, <2>2, <2>5 DEF pte, stop, e
<1> QED BY <1>11, <1>12, <1>13

(* Permission as the code tests it and as the property states it.          *)
LEMMA PermissionIs ==
    ASSUME NEW e \in Pte, NEW c \in Context, NEW priv \in {"U", "S"}, NEW k \in AccessKinds
    PROVE  pteAllows(e, c, priv, k) <=> Grants(e, c, priv, k)
BY DEF pteAllows, Grants, Pte, Context, AccessKinds

(* A walk succeeds when there is a leaf that allows the access, and leads  *)
(* to its page.                                                            *)
Follows(t, may, va) ==
    /\ t.ok <=> may # {}
    /\ t.ok => \A x \in may : t.pa = x.page * Fan + (va % Fan)

LEMMA WalkFollows ==
    ASSUME NEW m \in [Dram -> Words], NEW c \in Context, NEW va \in Nat,
           NEW priv \in {"U", "S"}, NEW k \in AccessKinds
    PROVE  Follows(Walk(Tables(m), c, priv, va, k),
                   {x \in Leaves(Tables(m), c, va) : Grants(x.e, c, priv, k)}, va)
<1> DEFINE pte == Tables(m)
           stop == StopAt(pte, c, va)
           leaf == SlotAt(pte, c, va, stop)
           e == pte[leaf]
           reads == [i \in 1 .. 3 - stop |-> SlotAt(pte, c, va, 3 - i)]
           walk == Result(c, priv, va, k, stop, e, leaf, reads)
           may == {x \in LeafAt(e, va, stop) : Grants(x.e, c, priv, k)}
<1>1. Walk(pte, c, priv, va, k) = walk
  BY WalkIs
<1>2. Leaves(pte, c, va) = LeafAt(e, va, stop)
  BY LeavesAre
<1>3. stop \in Levels /\ leaf \in Nat
  <2>1. stop \in Levels /\ \A l \in stop .. 2 : SlotAt(pte, c, va, l) \in Nat
    BY SlotsAre
  <2> HIDE DEF stop, pte
  <2> QED BY <2>1 DEF Levels
<1>4. e # BusError => e \in Pte
  <2> HIDE DEF leaf
  <2> QED BY <1>3, EntryIs
<1> HIDE DEF pte, stop, leaf, e, reads
<1>5. CASE e = BusError
  <2>1. walk = Fault(reads) /\ may = {}
    BY <1>5 DEF Result, LeafAt, Maps
  <2> HIDE DEF walk, may
  <2>2. Follows(walk, may, va)
    BY <2>1 DEF Follows, Fault
  <2> QED BY <1>1, <1>2, <2>2 DEF may, pte
<1>6. CASE e # BusError
  <2> DEFINE good == /\ ~Reserved(e) /\ Leaf(e) /\ ~Misaligned(e, stop)
                     /\ pteAllows(e, c, priv, k)
             t == [ok |-> TRUE, pa |-> PhysPage(e, va, stop) * Fan + (va % Fan),
                   reads |-> reads, leaf |-> leaf, marks |-> MissingAD(e, k)]
             one == [e |-> e, page |-> PageOf(e, va, stop)]
  <2>1. walk = IF good THEN t ELSE Fault(reads)
    BY <1>6 DEF Result
  <2>2. good <=> Maps(e, stop) /\ Grants(e, c, priv, k)
    <3>1. ~Reserved(e) /\ Leaf(e) /\ ~Misaligned(e, stop) <=> Maps(e, stop)
      BY <1>4, <1>6 DEF Reserved, Leaf, Misaligned, Maps, Pte
    <3>2. pteAllows(e, c, priv, k) <=> Grants(e, c, priv, k)
      BY <1>4, <1>6, PermissionIs
    <3> QED BY <3>1, <3>2
  <2>3. may = IF Maps(e, stop) /\ Grants(e, c, priv, k) THEN {one} ELSE {}
    BY DEF LeafAt
  <2>4. Maps(e, stop) => PhysPage(e, va, stop) = PageOf(e, va, stop)
    <3> DEFINE w == Pages(stop)
               x == (va \div Fan) % w
    <3>1. e.ppn \in Nat
      BY <1>4, <1>6 DEF Pte
    <3>2. Maps(e, stop) => e.ppn % w = 0
      BY DEF Maps
    <3>3. PhysPage(e, va, stop) = (e.ppn - (e.ppn % w)) + x /\ PageOf(e, va, stop) = e.ppn + x
      BY DEF PhysPage, PageOf
    <3> HIDE DEF w, x
    <3>4. e.ppn - 0 = e.ppn
      BY <3>1
    <3> QED BY <3>2, <3>3, <3>4
  <2>5. t.ok /\ t.pa = PhysPage(e, va, stop) * Fan + (va % Fan)
        /\ ~Fault(reads).ok /\ one.page = PageOf(e, va, stop)
    BY DEF Fault
  <2> HIDE DEF walk, may, t, one, good
  <2>6. CASE good
    <3>1. walk = t /\ may = {one}
      BY <2>1, <2>2, <2>3, <2>6
    <3> QED BY <1>1, <1>2, <2>2, <2>4, <2>5, <2>6, <3>1 DEF Follows, may, pte
  <2>7. CASE ~good
    <3>1. walk = Fault(reads) /\ may = {}
      BY <2>1, <2>2, <2>3, <2>7
    <3>2. Follows(walk, may, va)
      BY <2>5, <3>1 DEF Follows
    <3> QED BY <1>1, <1>2, <3>2 DEF may, pte
  <2> QED BY <2>6, <2>7
<1> QED BY <1>5, <1>6

(* Translation grants exactly what the tables in memory say.               *)
THEOREM TablesFollowed == Spec => []AccessesFollowTables
<1>1. IInv => AccessesFollowTables
  <2> SUFFICES ASSUME IInv, NEW op \in setup.ops
               PROVE  LET c == ctx[op.hart]
                          k == KindOf(op)
                          priv == effectivePriv(c, k)
                          t == translate(Tables(mem), c, op.va, k)
                          may == {m \in Leaves(Tables(mem), c, op.va) :
                                     Grants(m.e, c, priv, k)}
                      IN  priv # "M" /\ c.satp = "sv39" =>
                            /\ t.ok <=> Canonical(op.va) /\ may # {}
                            /\ t.ok => \A m \in may : t.pa = m.page * Fan + (op.va % Fan)
    BY DEF AccessesFollowTables
  <2> DEFINE c == ctx[op.hart]
             k == KindOf(op)
             priv == effectivePriv(c, k)
             t == translate(Tables(mem), c, op.va, k)
             may == {m \in Leaves(Tables(mem), c, op.va) : Grants(m.e, c, priv, k)}
             walk == Walk(Tables(mem), c, priv, op.va, k)
  <2>1. mem \in [Dram -> Words] /\ c \in Context /\ op.va \in Nat /\ k \in AccessKinds
    <3>1. op.hart \in setup.harts /\ op.va \in Vas
      BY OperationIs
    <3>2. op.va \in Nat
      BY <3>1, MmuAssumption DEF Vas
    <3> QED BY <3>1, <3>2 DEF IInv, TypeOK, KindOf, AccessKinds
  <2>2. priv \in {"U", "S", "M"}
    BY <2>1 DEF effectivePriv, Context
  <2>3. ASSUME priv # "M", c.satp = "sv39"
        PROVE  t = IF Canonical(op.va) THEN walk ELSE Fault(<<>>)
    BY <2>3 DEF translate
  <2> HIDE DEF c, k, t, walk, priv
  <2>4. priv # "M" => Follows(walk, may, op.va)
    <3>1. priv # "M" => priv \in {"U", "S"}
      BY <2>2
    <3> QED BY <2>1, <3>1, WalkFollows DEF walk
  <2> HIDE DEF may
  <2>5. ~Fault(<<>>).ok
    BY DEF Fault
  <2>6. priv # "M" /\ c.satp = "sv39" =>
          /\ t.ok <=> Canonical(op.va) /\ may # {}
          /\ t.ok => \A m \in may : t.pa = m.page * Fan + (op.va % Fan)
    BY <2>3, <2>4, <2>5 DEF Follows
  <2> QED BY <2>6 DEF c, k, t, may, priv
<1> QED BY <1>1, AlwaysSound, PTL

-----------------------------------------------------------------------------
(* The counter.  Quiet(p, q, v): what an instruction may pass through while*)
(* word q of memory stays v.                                               *)
Quiet(p, q, v) == {s \in InProgress(p) : s.mem[q] = v}

(* A step that writes no memory is quiet.                                  *)
LEMMA ReadingIsQuiet ==
    ASSUME NEW p, NEW q, NEW v, NEW s \in Quiet(p, q, v), NEW x, Reading(p, s, x)
    PROVE  x \in Quiet(p, q, v)
BY DEF Quiet, Reading

(* So is a store to other words of DRAM.                                   *)
LEMMA DramWriteIsQuiet ==
    ASSUME NEW p, NEW q \in Dram, NEW v, NEW s \in Quiet(p, q, v), NEW addr \in Nat,
           NEW size \in {1, 2}, Units(addr, size) \subseteq Dram, NEW w \in Int,
           q \notin Units(addr, size)
    PROVE  DramWrite(s, addr, size, w) \in Quiet(p, q, v)
<1>1. s \in InProgress(p) /\ s.mem[q] = v
  BY DEF Quiet
<1>2. s.mem \in [Dram -> Words]
  BY <1>1, Parts
<1>3. DramStored(s.mem, addr, size, w)[q] = s.mem[q]
  BY <1>2, StoringWords
<1>4. /\ DramWrite(s, addr, size, w) \in InProgress(p)
      /\ DramWrite(s, addr, size, w).mem = DramStored(s.mem, addr, size, w)
  BY <1>1, WritingDram
<1> QED BY <1>1, <1>3, <1>4 DEF Quiet

(* No device writes the counter.                                           *)
Spared(q) == \A i \in DOMAIN Regions : \A j \in DOMAIN Regions[i].writes :
                Regions[i].writes[j].addr # q

LEMMA DeviceWritesAreQuiet ==
    ASSUME NEW p, NEW q \in Dram, NEW v, NEW s \in Quiet(p, q, v),
           NEW list \in Seq(DmaWrite), \A j \in DOMAIN list : list[j].addr # q
    PROVE  DeviceWrites(s, list) \in Quiet(p, q, v)
<1> DEFINE S == Quiet(p, q, v)
<1>1. ASSUME NEW x \in S, NEW i \in 1 .. Len(list)
      PROVE  DramWrite(x, list[i].addr, 1, list[i].val) \in S
  <2>1. list[i] \in DmaWrite /\ list[i].addr # q
    BY ElementOfSeq
  <2>2. list[i].addr \in Dram /\ list[i].val \in Int
    BY <2>1 DEF DmaWrite
  <2>3. /\ list[i].addr \in Nat /\ Units(list[i].addr, 1) \subseteq Dram
        /\ q \notin Units(list[i].addr, 1)
    BY <2>1, <2>2, BusAssumption DEF Units, Dram
  <2> QED BY <2>2, <2>3, DramWriteIsQuiet
<1> HIDE DEF S
<1> QED BY <1>1, DeviceWritesCarry DEF S

(* A bus write that does not reach the counter, to memory or to a device.  *)
LEMMA BusWriteIsQuiet ==
    ASSUME NEW p, NEW q \in Dram, Spared(q), NEW v, NEW s \in Quiet(p, q, v),
           NEW addr \in Nat, NEW size \in {1, 2}, NEW w \in Int, q \notin Units(addr, size)
    PROVE  BusWrite(s, addr, size, w) \in Quiet(p, q, v)
<1> DEFINE i == findRegion(addr, size)
           seen == checkWatchpoint(s.bus, "write", addr, size)
           begun == [s EXCEPT !.bus = seen]
<1>1. s \in InProgress(p) /\ s.mem[q] = v
  BY DEF Quiet
<1>2. GoodBus(seen) /\ "write" \in AccessOps
  BY <1>1, Parts, WatchpointsKeepBus DEF AccessOps
<1>3. CASE InDRAM(addr, size)
  <2>1. BusWrite(s, addr, size, w) = DramWrite(s, addr, size, w)
    BY <1>3 DEF BusWrite
  <2> QED BY <1>3, <2>1, DramUnits, DramWriteIsQuiet
<1>4. CASE ~InDRAM(addr, size) /\ i # 0
  <2> DEFINE ok == "write" \notin Regions[i].fails
             acted == IF ok THEN DeviceWrites(begun, Regions[i].writes) ELSE begun
             b == EndMmio(acted.bus, "write", addr, ok)
             fault == IF ok THEN "none" ELSE "access"
  <2>1. BusWrite(s, addr, size, w) = [acted EXCEPT !.bus = b, !.fault = fault]
    BY <1>4 DEF BusWrite
  <2>2. begun \in Quiet(p, q, v)
    <3>1. begun \in InProgress(p)
      BY <1>1, <1>2, ReplacingBus
    <3>2. begun.mem = s.mem
      BY <1>1 DEF InProgress, Progress
    <3> QED BY <1>1, <3>1, <3>2 DEF Quiet
  <2>3. Regions[i] \in Region /\ i \in DOMAIN Regions
    BY <1>4, RegionFound
  <2>4. Regions[i].writes \in Seq(DmaWrite)
    BY <2>3 DEF Region
  <2>5. \A j \in DOMAIN Regions[i].writes : Regions[i].writes[j].addr # q
    BY <2>3 DEF Spared
  <2> HIDE DEF begun
  <2>6. acted \in Quiet(p, q, v)
    BY <2>2, <2>4, <2>5, DeviceWritesAreQuiet
  <2> HIDE DEF acted
  <2>7. acted \in InProgress(p)
    BY <2>6 DEF Quiet
  <2>8. GoodBus(b) /\ fault \in Faults
    BY <1>2, <2>7, Parts, AccessesKeepBus DEF Faults
  <2> HIDE DEF b, fault
  <2>9. Reading(p, acted, [acted EXCEPT !.bus = b, !.fault = fault])
    BY <2>7, <2>8, ReplacingFault
  <2> QED BY <2>1, <2>6, <2>9, ReadingIsQuiet
<1>5. CASE ~InDRAM(addr, size) /\ i = 0
  <2> DEFINE fault == "access"
  <2>1. BusWrite(s, addr, size, w) = [s EXCEPT !.bus = seen, !.fault = fault]
    BY <1>5 DEF BusWrite
  <2>2. fault \in Faults
    BY DEF Faults
  <2> HIDE DEF seen, fault
  <2>3. Reading(p, s, [s EXCEPT !.bus = seen, !.fault = fault])
    BY <1>1, <1>2, <2>2, ReplacingFault
  <2> QED BY <2>1, <2>3, ReadingIsQuiet
<1> QED BY <1>3, <1>4, <1>5

(* An untranslated access reaches the bus at its own address, or fails     *)
(* before: either way it is performed from a quiet state.                  *)
LEMMA UntranslatedAccess ==
    ASSUME NEW p \in PmpState, NEW q \in Dram, NEW v, NEW s \in Quiet(p, q, v),
           NEW c \in Context, c.satp # "sv39", NEW va \in Nat, NEW size \in {1, 2},
           NEW k \in AccessKinds, NEW w \in Int
    PROVE  \E y \in Quiet(p, q, v) : Access(s, c, va, size, k, w) = Performed(y, va, size, k, w)
<1> DEFINE t == translate(Tables(s.mem), c, va, k)
           found == Translation(s, t, k)
           walked == Walked(s, <<>>)
           checked == Protected(found.s, found.pa, size, k, effectivePriv(c, k))
<1>1. s \in InProgress(p)
  BY DEF Quiet
<1>2. t = Direct(va) \/ t = Fault(<<>>)
  BY DEF translate
<1>3. Access(s, c, va, size, k, w) = IF found.s.fault # "none" THEN found.s
                                     ELSE Performed(checked, found.pa, size, k, w)
  BY DEF Access, Accessed, Translated
<1> HIDE DEF t
<1>4. walked \in Quiet(p, q, v)
  <2>1. <<>> \in Seq(Nat)
    OBVIOUS
  <2> QED BY <1>1, <2>1, WalkedStays, ReadingIsQuiet
<1>5. walked \in InProgress(p)
  BY <1>4 DEF Quiet
<1>6. found.s \in Quiet(p, q, v) /\ (found.s.fault = "none" => found.pa = va)
  <2>1. CASE t = Direct(va)
    <3> DEFINE marked == Marked(walked, t, k)
    <3>1. found = [s |-> marked, pa |-> va]
      BY <2>1 DEF Translation, Direct
    <3>2. Reading(p, walked, marked)
      <4>1. walked.touched \in Touched
        BY <1>5, Parts
      <4>2. marked = [walked EXCEPT !.touched = [a |-> walked.touched.a \cup {},
                                                 d |-> walked.touched.d \cup {}]]
        BY <2>1 DEF Marked, Direct
      <4>3. [a |-> walked.touched.a \cup {}, d |-> walked.touched.d \cup {}] = walked.touched
        BY <4>1 DEF Touched
      <4> HIDE DEF walked
      <4>4. [walked EXCEPT !.touched = walked.touched] = walked
        BY <1>5 DEF InProgress, Progress
      <4> QED BY <1>5, <4>2, <4>3, <4>4 DEF Reading
    <3> HIDE DEF marked, walked
    <3>3. marked \in Quiet(p, q, v)
      BY <1>4, <3>2, ReadingIsQuiet
    <3> QED BY <3>1, <3>3
  <2>2. CASE t = Fault(<<>>)
    <3> DEFINE failed == Failed(walked, "page")
    <3>1. found = [s |-> failed, pa |-> 0]
      BY <2>2 DEF Translation, Fault
    <3> HIDE DEF walked
    <3>2. Reading(p, walked, failed)
      BY <1>5, FailingStays DEF Faults
    <3>3. failed.fault = "page"
      BY <1>5 DEF Failed, InProgress, Progress
    <3> HIDE DEF failed
    <3>4. failed \in Quiet(p, q, v)
      BY <1>4, <3>2, ReadingIsQuiet
    <3> QED BY <3>1, <3>3, <3>4
  <2> QED BY <1>2, <2>1, <2>2
<1> HIDE DEF found
<1>7. checked \in Quiet(p, q, v)
  <2> DEFINE x == found.s
             r == CheckCache(x.pmp)
             filled == [x EXCEPT !.pmp = r]
  <2>0. checked = filled \/ checked = Failed(filled, "access")
    BY DEF Protected
  <2>1. x \in InProgress(p)
    BY <1>6 DEF Quiet
  <2> HIDE DEF x
  <2>2. r = CheckCache(p) /\ r \in PmpState
    BY <2>1, Parts, FillingTheCache
  <2> HIDE DEF r
  <2>3. Reading(p, x, filled)
    BY <2>1, <2>2 DEF InProgress, Progress, Reading
  <2> HIDE DEF filled, checked
  <2>4. filled \in Quiet(p, q, v) /\ filled \in InProgress(p)
    BY <1>6, <2>3, ReadingIsQuiet DEF x, Reading
  <2>5. Reading(p, filled, Failed(filled, "access"))
    BY <2>4, FailingStays DEF Faults
  <2>6. Failed(filled, "access") \in Quiet(p, q, v)
    BY <2>4, <2>5, ReadingIsQuiet
  <2> QED BY <2>0, <2>4, <2>6
<1> HIDE DEF checked
<1>8. CASE found.s.fault # "none"
  <2>1. Performed(found.s, va, size, k, w) = found.s
    BY <1>8 DEF Performed
  <2> QED BY <1>3, <1>6, <1>8, <2>1
<1>9. CASE found.s.fault = "none"
  BY <1>3, <1>6, <1>7, <1>9
<1> QED BY <1>8, <1>9

(* So an access that does not store to the counter is quiet.               *)
LEMMA AccessIsQuiet ==
    ASSUME NEW p \in PmpState, NEW q \in Dram, Spared(q), NEW v, NEW s \in Quiet(p, q, v),
           NEW c \in Context, c.satp # "sv39", NEW va \in Nat, NEW size \in {1, 2},
           NEW k \in AccessKinds, NEW w \in Int, k = "store" => q \notin Units(va, size)
    PROVE  Access(s, c, va, size, k, w) \in Quiet(p, q, v)
<1>1. PICK y \in Quiet(p, q, v) : Access(s, c, va, size, k, w) = Performed(y, va, size, k, w)
  BY UntranslatedAccess
<1>2. y \in InProgress(p)
  BY DEF Quiet
<1>3. CASE y.fault # "none"
  BY <1>1, <1>3 DEF Performed
<1>4. CASE y.fault = "none" /\ k = "fetch"
  <2>1. Access(s, c, va, size, k, w) = BusFetch(y, va, size)
    BY <1>1, <1>4 DEF Performed
  <2>2. Failed(y, "access") \in Quiet(p, q, v)
    <3>1. Reading(p, y, Failed(y, "access"))
      BY <1>2, FailingStays DEF Faults
    <3> QED BY <3>1, ReadingIsQuiet
  <2> QED BY <2>1, <2>2 DEF BusFetch
<1>5. CASE y.fault = "none" /\ k = "load"
  <2>1. Access(s, c, va, size, k, w) = BusRead(y, va, size)
    BY <1>1, <1>5 DEF Performed
  <2> QED BY <1>2, <2>1, BusReadStays, ReadingIsQuiet
<1>6. CASE y.fault = "none" /\ k = "store"
  <2>1. Access(s, c, va, size, k, w) = BusWrite(y, va, size, w)
    BY <1>1, <1>6 DEF Performed
  <2> QED BY <1>6, <2>1, BusWriteIsQuiet
<1> QED BY <1>3, <1>4, <1>5, <1>6 DEF AccessKinds

(* Loading the counter finds it; storing to it replaces it, or fails and   *)
(* does not.                                                               *)
LEMMA CounterAccess ==
    ASSUME NEW p \in PmpState, NEW q \in Dram, NEW v, NEW s \in Quiet(p, q, v),
           NEW c \in Context, c.satp # "sv39", NEW w \in Int
    PROVE  /\ load(s, c, q, 1).fault = "none" => load(s, c, q, 1).value = v
           /\ store(s, c, q, 1, w).mem[q]
              = IF store(s, c, q, 1, w).fault = "none" THEN w % WordMod ELSE v
<1>1. /\ q \in Nat /\ Units(q, 1) \subseteq Dram /\ 1 \in {1, 2} /\ 0 \in Int /\ q % 1 = 0
      /\ "load" \in AccessKinds /\ "store" \in AccessKinds
  BY BusAssumption DEF Dram, Units, AccessKinds
<1>2. InDRAM(q, 1)
  BY <1>1, DramUnits
<1>3. PICK y \in Quiet(p, q, v) : Access(s, c, q, 1, "load", 0) = Performed(y, q, 1, "load", 0)
  BY <1>1, UntranslatedAccess
<1>4. PICK z \in Quiet(p, q, v) : Access(s, c, q, 1, "store", w) = Performed(z, q, 1, "store", w)
  BY <1>1, UntranslatedAccess
<1>5. load(s, c, q, 1).fault = "none" => load(s, c, q, 1).value = v
  <2>1. y \in InProgress(p) /\ y.mem[q] = v
    BY DEF Quiet
  <2>2. load(s, c, q, 1) = Performed(y, q, 1, "load", 0)
    BY <1>1, <1>3 DEF load
  <2>3. CASE y.fault # "none"
    BY <2>2, <2>3 DEF Performed
  <2>4. CASE y.fault = "none"
    <3> DEFINE b == DramAccess(y.bus, "read", q, 1)
               n == DramValue(y.mem, q, 1)
    <3>1. Performed(y, q, 1, "load", 0) = [y EXCEPT !.bus = b, !.value = n]
      BY <1>2, <2>4 DEF Performed, BusRead
    <3>2. n = v
      BY <2>1 DEF DramValue
    <3> HIDE DEF b, n
    <3>3. [y EXCEPT !.bus = b, !.value = n].value = n
      BY <2>1 DEF InProgress, Progress
    <3> QED BY <2>2, <3>1, <3>2, <3>3
  <2> QED BY <2>3, <2>4
<1>6. store(s, c, q, 1, w).mem[q] = IF store(s, c, q, 1, w).fault = "none" THEN w % WordMod ELSE v
  <2>1. z \in InProgress(p) /\ z.mem[q] = v
    BY DEF Quiet
  <2>2. store(s, c, q, 1, w) = Performed(z, q, 1, "store", w)
    BY <1>1, <1>4 DEF store
  <2>3. CASE z.fault # "none"
    BY <2>1, <2>2, <2>3 DEF Performed
  <2>4. CASE z.fault = "none"
    <3>1. Performed(z, q, 1, "store", w) = DramWrite(z, q, 1, w)
      BY <1>2, <2>4 DEF Performed, BusWrite
    <3>2. /\ DramWrite(z, q, 1, w).mem = DramStored(z.mem, q, 1, w)
          /\ DramWrite(z, q, 1, w).fault = "none"
      BY <1>1, <2>1, <2>4, WritingDram
    <3>3. DramStored(z.mem, q, 1, w)[q] = w % WordMod
      <4>1. z.mem \in [Dram -> Words]
        BY <2>1, Parts
      <4> QED BY <4>1 DEF DramStored
    <3> QED BY <2>2, <3>1, <3>2, <3>3
  <2> QED BY <2>3, <2>4
<1> QED BY <1>5, <1>6

(* Fetches, loads, and stores elsewhere are quiet.                         *)
LEMMA InstructionsAreQuiet ==
    ASSUME NEW p \in PmpState, NEW q \in Dram, Spared(q), NEW v, NEW s \in Quiet(p, q, v),
           NEW c \in Context, c.satp # "sv39", NEW va \in Vas, NEW size \in {1, 2}, NEW w \in Int
    PROVE  /\ Fetch(s, c, va, size) \in Quiet(p, q, v)
           /\ load(s, c, va, size) \in Quiet(p, q, v)
           /\ q \notin Units(va, size) => store(s, c, va, size, w) \in Quiet(p, q, v)
<1>1. /\ va \in Nat /\ 0 \in Int /\ 1 \in {1, 2} /\ 2 \in {1, 2}
      /\ "fetch" \in AccessKinds /\ "load" \in AccessKinds /\ "store" \in AccessKinds
  BY MmuAssumption DEF Vas, AccessKinds
<1>2. ASSUME NEW x \in Quiet(p, q, v), NEW n \in {1, 2}
      PROVE  readVirtualFetch(x, c, va, n) \in Quiet(p, q, v)
  <2> DEFINE S == Quiet(p, q, v)
  <2>1. ASSUME NEW y \in S, NEW a \in Nat, NEW m \in {1, 2}
        PROVE  Access(y, c, a, m, "fetch", 0) \in S
    BY <1>1, AccessIsQuiet
  <2> HIDE DEF S
  <2> QED BY <2>1, FetchingCarries DEF S
<1>3. Fetch(s, c, va, size) \in Quiet(p, q, v)
  <2> DEFINE first == readVirtualFetch(s, c, va, 1)
  <2>1. first \in Quiet(p, q, v)
    BY <1>1, <1>2
  <2> HIDE DEF first
  <2>2. readVirtualFetch(first, c, va, 2) \in Quiet(p, q, v)
    BY <1>1, <1>2, <2>1
  <2> QED BY <2>1, <2>2 DEF Fetch, FetchRest, first
<1>4. Failed(s, "misaligned") \in Quiet(p, q, v)
  <2>1. Reading(p, s, Failed(s, "misaligned"))
    BY FailingStays DEF Faults, Quiet
  <2> QED BY <2>1, ReadingIsQuiet
<1>5. Access(s, c, va, size, "load", 0) \in Quiet(p, q, v)
  BY <1>1, AccessIsQuiet
<1>6. q \notin Units(va, size) => Access(s, c, va, size, "store", w) \in Quiet(p, q, v)
  BY <1>1, AccessIsQuiet
<1> QED BY <1>3, <1>4, <1>5, <1>6 DEF load, store

(* What the counter holds, besides IInv: only untranslated accesses reach  *)
(* it, and no reservation an SC to it could use is held.                   *)
CounterKept ==
    /\ \A h \in setup.harts : ctx[h].satp # "sv39"
    /\ \A h \in setup.harts : resv[h] # NoResv =>
          \E r \in setup.ops : r.kind = "lr" /\ r.hart = h /\ r.va = resv[h]
    /\ mem[setup.counter] = (setup.mem[setup.counter] + added) % WordMod
CounterInv == setup.counter # NoResv => CounterKept

LEMMA CounterIs ==
    ASSUME IInv, setup.counter # NoResv
    PROVE  /\ setup.counter \in Dram /\ CounterApart(setup) /\ Spared(setup.counter)
           /\ setup.mem \in [Dram -> Words]
BY SetupIs DEF IsSetup, CounterApart, Spared

(* m + a + b on words, added in two steps or in one.                       *)
WordSum(x, y) == (x + y) % WordMod
LEMMA AddingWords ==
    ASSUME NEW m \in Nat, NEW a \in Nat, NEW b \in Nat
    PROVE  WordSum(WordSum(m, a), b % WordMod) = WordSum(m, WordSum(a, b))
<1> DEFINE W == WordMod
           c == m + a
           d == a + b
           e == b % W
<1>0. W \in Nat \ {0}
  BY MemoryAssumption
<1> HIDE DEF W
<1>1. c \in Int /\ d \in Int /\ e \in Int /\ b \in Int /\ m \in Int
  BY <1>0
<1>2. b + c = d + m
  OBVIOUS
<1> HIDE DEF c, d
<1>3. ((b % W) + c) % W = (b + c) % W
  BY <1>0, <1>1, ModAdd
<1>4. ((d % W) + m) % W = (d + m) % W
  BY <1>0, <1>1, ModAdd
<1> HIDE DEF e
<1>5. ((c % W) + e) % W = (c + e) % W
  BY <1>0, <1>1, ModAdd
<1>6. c + e = e + c /\ (d % W) + m = m + (d % W)
  BY <1>0, <1>1
<1>7. ((c % W) + e) % W = (m + (d % W)) % W
  BY <1>2, <1>3, <1>4, <1>5, <1>6 DEF e
<1> QED BY <1>7 DEF W, c, d, e, WordSum

(* An addition to the counter adds, or faults and leaves it; no other      *)
(* instruction changes it.                                                 *)
LEMMA CountingOutcome ==
    ASSUME IInv, setup.counter # NoResv, CounterKept, NEW op \in setup.ops
    PROVE  Outcome(op).mem[setup.counter]
           = IF AddsToCounter(op) /\ Outcome(op).fault = "none"
               THEN (mem[setup.counter] + (op.val % WordMod)) % WordMod
               ELSE mem[setup.counter]
<1> DEFINE q == setup.counter
           v == mem[q]
           s == State(op.hart)
           c == ctx[op.hart]
           p == pmp[op.hart]
           src == op.val % WordRange(op.size)
           out == Outcome(op)
           end == Quiet(p, q, v)
<1>1. /\ op.hart \in setup.harts /\ op.va \in Vas /\ op.size \in {1, 2}
      /\ op.val \in Int /\ op.val \in Nat /\ src \in Int
      /\ op.kind \in {"fetch", "load", "store", "lr", "sc", "amo"}
      /\ (op.kind = "amo" => op.fn \in AmoFns)
  BY OperationIs
<1>2. q \in Dram /\ CounterApart(setup) /\ Spared(q)
  BY CounterIs
<1>3. s \in end /\ p \in PmpState /\ c \in Context
  <2>1. s \in Sparing(p, mem) /\ p \in PmpState /\ c \in Context
    BY <1>1, StateIs
  <2>2. s.mem = mem
    BY DEF State
  <2> QED BY <2>1, <2>2 DEF Sparing, Quiet
<1>4. c.satp # "sv39"
  BY <1>1 DEF CounterKept
<1>5. op.kind \in {"store", "sc", "amo"} /\ q \in Units(op.va, op.size) =>
        \/ op.kind = "amo" /\ op.fn = "add" /\ op.va = q /\ op.size = 1
        \/ op.kind = "sc" /\ ~HoldsReservation(op.hart, op.va)
  <2>1. op.kind = "sc" /\ (\A r \in setup.ops : r.kind = "lr" /\ r.hart = op.hart => r.va # op.va)
          => ~HoldsReservation(op.hart, op.va)
    BY <1>1 DEF CounterKept, HoldsReservation
  <2> QED BY <1>2, <2>1 DEF CounterApart
<1>6. \/ out = Fetch(s, c, op.va, op.size)
      \/ out = load(s, c, op.va, op.size)
      \/ (op.kind = "store" /\ out = store(s, c, op.va, op.size, op.val))
      \/ (op.kind = "sc" /\ out = StoreConditional(s, op.hart, op))
      \/ (op.kind = "amo" /\ out = Amo(s, c, op))
  BY <1>1, Zenon DEF Outcome
<1>7. \/ (HoldsReservation(op.hart, op.va)
          /\ StoreConditional(s, op.hart, op) = store(s, c, op.va, op.size, src))
      \/ StoreConditional(s, op.hart, op) = Failed(s, "misaligned")
      \/ StoreConditional(s, op.hart, op) = [s EXCEPT !.value = 1]
  BY DEF StoreConditional
<1>8. AddsToCounter(op) => op.kind = "amo" /\ op.va = q /\ op.size = 1 /\ op.fn = "add"
  <2>1. AddsToCounter(op) => op.kind = "amo" /\ op.va = q
    BY DEF AddsToCounter
  <2>2. q \in Units(q, op.size)
    BY <1>1, <1>2, BusAssumption DEF Units, Dram
  <2> QED BY <1>5, <2>1, <2>2
<1>9. \A x \in end : x.mem[q] = v
  BY DEF Quiet
<1> HIDE DEF s, c, p, src, out, v
<1>10. /\ Fetch(s, c, op.va, op.size) \in end /\ load(s, c, op.va, op.size) \in end
       /\ q \notin Units(op.va, op.size) => /\ store(s, c, op.va, op.size, op.val) \in end
                                            /\ store(s, c, op.va, op.size, src) \in end
  BY <1>1, <1>2, <1>3, <1>4, InstructionsAreQuiet
<1>11. [s EXCEPT !.value = 1] \in end /\ Failed(s, "misaligned") \in end
  <2>1. s \in InProgress(p) /\ 1 \in Nat /\ "misaligned" \in Faults
    BY <1>3 DEF Quiet, Faults
  <2>2. Reading(p, s, [s EXCEPT !.value = 1])
    BY <2>1, ReplacingResult
  <2>3. Reading(p, s, Failed(s, "misaligned"))
    BY <2>1, FailingStays
  <2> QED BY <1>3, <2>2, <2>3, ReadingIsQuiet
<1>12. CASE op.kind # "amo"
  <2>1. op.kind = "store" => q \notin Units(op.va, op.size)
    BY <1>5
  <2>2. op.kind = "sc" /\ HoldsReservation(op.hart, op.va) => q \notin Units(op.va, op.size)
    BY <1>5
  <2>3. out \in end
    BY <1>6, <1>7, <1>10, <1>11, <1>12, <2>1, <2>2
  <2>4. ~AddsToCounter(op)
    BY <1>8, <1>12
  <2> QED BY <1>9, <2>3, <2>4 DEF out, v
<1>13. CASE op.kind = "amo"
  <2> DEFINE read == load(s, c, op.va, op.size)
             new == AmoResult(op.fn, op.size, read.value, src)
             begun == [read EXCEPT !.value = 0]
             done == store(begun, c, op.va, op.size, new)
             x == [done EXCEPT !.value = read.value]
  <2>1. out = IF read.fault # "none" THEN read ELSE x
    <3>1. out = Amo(s, c, op)
      BY <1>13, Zenon DEF out, Outcome, s, c
    <3> QED BY <3>1 DEF Amo, AmoWrite, src
  <2> HIDE DEF read
  <2>2. read \in end /\ read \in InProgress(p)
    BY <1>10 DEF read, Quiet
  <2>3. read.value \in Nat /\ src \in Nat /\ op.fn \in AmoFns
    BY <1>1, <1>13, <2>2, Parts, OperationIs DEF src
  <2>4. new \in Int
    BY <1>1, <2>3, AmoResultIs
  <2>5. begun \in end
    <3>1. 0 \in Nat /\ "none" \in Faults
      BY DEF Faults
    <3>2. Reading(p, read, begun)
      BY <2>2, <3>1, ReplacingResult
    <3> QED BY <2>2, <3>2, ReadingIsQuiet
  <2> HIDE DEF begun, new
  <2>6. done \in InProgress(p)
    <3>1. begun \in Sparing(p, begun.mem) /\ begun.mem \in [Dram -> Words]
      <4>1. begun \in InProgress(p)
        BY <2>5 DEF Quiet
      <4> QED BY <4>1, Parts DEF Sparing, Spares
    <3>2. done \in After(p, begun.mem, "store")
      BY <1>1, <1>3, <2>4, <3>1, LoadStoreStay
    <3> QED BY <3>2 DEF After
  <2>7. CASE q \notin Units(op.va, op.size)
    <3>1. done \in end
      BY <1>1, <1>2, <1>3, <1>4, <2>4, <2>5, <2>7, InstructionsAreQuiet
    <3> HIDE DEF done
    <3>2. x.mem = done.mem
      BY <2>6 DEF InProgress, Progress
    <3>3. x.mem[q] = v
      BY <1>9, <3>1, <3>2
    <3> HIDE DEF x
    <3>4. out.mem[q] = v
      BY <1>9, <2>1, <2>2, <3>3
    <3>5. ~AddsToCounter(op)
      <4>1. q \in Units(q, 1)
        BY <1>2, BusAssumption DEF Units, Dram
      <4> QED BY <1>8, <2>7, <4>1
    <3> QED BY <3>4, <3>5 DEF out, v
  <2>8. CASE q \in Units(op.va, op.size)
    <3>1. op.fn = "add" /\ op.va = q /\ op.size = 1 /\ AddsToCounter(op)
      BY <1>5, <1>13, <2>8 DEF AddsToCounter
    <3>2. read.fault = "none" => read.value = v
      BY <1>2, <1>3, <1>4, <3>1, CounterAccess DEF read
    <3>3. done.mem[q] = IF done.fault = "none" THEN new % WordMod ELSE v
      BY <1>2, <1>3, <1>4, <2>4, <2>5, <3>1, CounterAccess
    <3> DEFINE add == op.val % WordMod
    <3>4. read.fault = "none" => new % WordMod = (v + add) % WordMod
      <4>1. WordMod \in Nat \ {0}
        BY MemoryAssumption
      <4>2. new = (read.value + src) % WordMod /\ src = add
        BY <3>1 DEF new, src, AmoResult, WordRange
      <4>3. ((read.value + src) % WordMod) \in 0 .. WordMod - 1
        BY <2>3, <4>1
      <4>4. new % WordMod = new
        BY <4>1, <4>2, <4>3, ModSmall
      <4> QED BY <3>2, <4>2, <4>4
    <3> HIDE DEF done, new, add
    <3>5. x.mem = done.mem /\ x.fault = done.fault
      BY <2>6 DEF InProgress, Progress
    <3> HIDE DEF x
    <3>6. read.fault # "none" => out.mem[q] = v /\ out.fault # "none"
      BY <1>9, <2>1, <2>2
    <3>7. read.fault = "none" =>
            out.mem[q] = IF out.fault = "none" THEN (v + add) % WordMod ELSE v
      BY <2>1, <3>3, <3>4, <3>5
    <3> QED BY <3>1, <3>6, <3>7 DEF out, v, add
  <2> QED BY <2>7, <2>8
<1> QED BY <1>12, <1>13

LEMMA InitCounts == Init => CounterInv
<1> SUFFICES ASSUME Init, setup.counter # NoResv  PROVE CounterKept
  BY DEF CounterInv
<1>1. IInv
  BY InitIsSound
<1>2. setup.counter \in Dram /\ setup.mem \in [Dram -> Words]
  BY <1>1, CounterIs
<1>3. (setup.mem[setup.counter] + 0) % WordMod = setup.mem[setup.counter]
  <2> DEFINE m == setup.mem[setup.counter]
  <2>1. m \in Nat /\ m < WordMod /\ WordMod \in Nat \ {0}
    BY <1>2, MemoryAssumption DEF Words
  <2> HIDE DEF m
  <2>2. (m + 0) % WordMod = m
    BY <2>1, ModSmall
  <2> QED BY <2>2 DEF m
<1> QED BY <1>3 DEF Init, CounterKept, MachineCtx

LEMMA ExecuteCounts ==
    ASSUME IInv, CounterInv, NEW op \in setup.ops, Execute(op)
    PROVE  CounterInv'
<1> SUFFICES ASSUME setup.counter # NoResv  PROVE CounterKept'
  BY DEF CounterInv, Execute, Complete
<1> DEFINE out == Outcome(op)
           q == setup.counter
<1>1. CounterKept
  BY DEF CounterInv
<1>2. /\ mem' = out.mem /\ setup' = setup /\ ctx' = ctx
      /\ resv' = [resv EXCEPT ![op.hart] = ReservationAfter(op.hart, op, out.fault)]
      /\ added' = IF AddsToCounter(op) /\ out.fault = "none"
                    THEN (added + op.val) % WordMod ELSE added
  BY DEF Execute, Complete
<1>3. out.mem[q] = IF AddsToCounter(op) /\ out.fault = "none"
                     THEN (mem[q] + (op.val % WordMod)) % WordMod ELSE mem[q]
  BY <1>1, CountingOutcome
<1> HIDE DEF out
<1>4. mem'[setup'.counter] = (setup'.mem[setup'.counter] + added') % WordMod
  <2>1. mem[q] = (setup.mem[q] + added) % WordMod
    BY <1>1 DEF CounterKept
  <2> DEFINE m == setup.mem[q]
  <2>2. m \in Nat /\ added \in Nat /\ op.val \in Nat /\ WordMod \in Nat \ {0}
    BY CounterIs, OperationIs, MemoryAssumption DEF IInv, TypeOK, Words
  <2> DEFINE n == op.val
             k == added
  <2>3. n \in Nat /\ k \in Nat
    BY <2>2
  <2> HIDE DEF m, n, k
  <2>4. WordSum(WordSum(m, k), n % WordMod) = WordSum(m, WordSum(k, n))
    BY <2>2, <2>3, AddingWords
  <2> QED BY <1>2, <1>3, <2>1, <2>4 DEF m, n, k, WordSum
<1>5. \A h \in setup'.harts : ctx'[h].satp # "sv39"
  BY <1>1, <1>2 DEF CounterKept
<1>6. ASSUME NEW h \in setup.harts, resv'[h] # NoResv
      PROVE  \E r \in setup.ops : r.kind = "lr" /\ r.hart = h /\ r.va = resv'[h]
  <2>1. op.hart \in setup.harts /\ resv \in [setup.harts -> Vas \cup {NoResv}]
    BY OperationIs DEF IInv, TypeOK
  <2>2. resv[h] # NoResv => \E r \in setup.ops : r.kind = "lr" /\ r.hart = h /\ r.va = resv[h]
    BY <1>1 DEF CounterKept
  <2>3. CASE resv'[h] = resv[h]
    BY <1>6, <2>2, <2>3
  <2>4. CASE h = op.hart /\ resv'[h] # resv[h]
    <3>1. resv'[h] = ReservationAfter(op.hart, op, out.fault)
      BY <1>2, <2>1, <2>4
    <3>2. op.kind = "lr" /\ resv'[h] = op.va
      BY <1>6, <2>4, <3>1, Zenon DEF ReservationAfter
    <3> QED BY <2>4, <3>2
  <2>5. h # op.hart => resv'[h] = resv[h]
    BY <1>2, <2>1
  <2> QED BY <2>3, <2>4, <2>5
<1> QED BY <1>2, <1>4, <1>5, <1>6 DEF CounterKept

LEMMA StepCounts == IInv /\ CounterInv /\ [Next]_vars => CounterInv'
<1> SUFFICES ASSUME IInv, CounterInv, [Next]_vars  PROVE CounterInv'
  OBVIOUS
<1>1. CASE \E op \in setup.ops : Execute(op)
  BY <1>1, ExecuteCounts
<1>2. CASE \E h \in setup.harts : \E c \in setup.contexts[h] : SetContext(h, c)
  <2> SUFFICES ASSUME setup.counter # NoResv  PROVE CounterKept'
    BY <1>2 DEF CounterInv, SetContext
  <2>1. PICK h \in setup.harts : \E c \in setup.contexts[h] : SetContext(h, c)
    BY <1>2
  <2>2. PICK c \in setup.contexts[h] : SetContext(h, c)
    BY <2>1
  <2>3. c.satp # "sv39"
    BY CounterIs DEF CounterApart
  <2>4. ctx' = [ctx EXCEPT ![h] = c] /\ UNCHANGED <<setup, mem, resv, added>>
    BY <2>2 DEF SetContext
  <2>5. ctx \in [setup.harts -> Context] /\ CounterKept
    BY DEF IInv, TypeOK, CounterInv
  <2> QED BY <2>3, <2>4, <2>5 DEF CounterKept
<1>3. CASE \/ \E h \in setup.harts, new \in setup.cfgs :
                \E g \in {i \div GroupSize : i \in Entries} : WritePmpCfg(h, g, new)
           \/ \E h \in setup.harts, a \in setup.addrs : WritePmpAddr(h, a[1], a[2])
           \/ Viewer \/ TakeWatchpoint
           \/ UNCHANGED vars
  <2>1. UNCHANGED <<setup, mem, ctx, resv, added>>
    BY <1>3 DEF WritePmpCfg, WritePmpAddr, Viewer, TakeWatchpoint, Observe, vars
  <2> QED BY <2>1 DEF CounterInv, CounterKept
<1>4. CASE \E h \in setup.harts : setup.cfgs # {} /\ HartReset(h)
  <2>1. PICK h \in setup.harts : HartReset(h)
    BY <1>4
  <2> DEFINE c == MachineCtx(CHOOSE q \in Ppns : TRUE)
  <2>2. c.satp = "bare"
    BY DEF MachineCtx
  <2> HIDE DEF c
  <2>3. /\ ctx' = [ctx EXCEPT ![h] = c] /\ resv' = [resv EXCEPT ![h] = NoResv]
        /\ UNCHANGED <<setup, mem, added>>
    BY <2>1 DEF HartReset, c
  <2>4. ctx \in [setup.harts -> Context] /\ resv \in [setup.harts -> Vas \cup {NoResv}]
    BY DEF IInv, TypeOK
  <2> SUFFICES ASSUME setup.counter # NoResv  PROVE CounterKept'
    BY <2>3 DEF CounterInv
  <2>5. CounterKept
    BY DEF CounterInv
  <2>6. \A k \in setup.harts : ctx'[k].satp # "sv39"
    BY <2>2, <2>3, <2>4, <2>5 DEF CounterKept
  <2>7. \A k \in setup.harts : resv'[k] = resv[k] \/ resv'[k] = NoResv
    BY <2>3, <2>4
  <2> QED BY <2>3, <2>5, <2>6, <2>7 DEF CounterKept
<1>5. CASE \E w \in setup.dma : DeviceDma(w)
  <2>1. PICK w \in setup.dma : DeviceDma(w)
    BY <1>5
  <2> DEFINE q == setup.counter
  <2>2. mem' = DramStored(mem, w.addr, 1, w.val) /\ UNCHANGED <<setup, ctx, resv, added>>
    BY <2>1 DEF DeviceDma, DramWrite
  <2> SUFFICES ASSUME setup.counter # NoResv  PROVE CounterKept'
    BY <2>2 DEF CounterInv
  <2>3. w \in DmaWrite /\ w.addr # q /\ q \in Dram
    BY SetupIs, CounterIs DEF IsSetup, CounterApart
  <2>4. /\ w.addr \in Nat /\ Units(w.addr, 1) \subseteq Dram /\ w.val \in Int /\ 1 \in {1, 2}
        /\ q \notin Units(w.addr, 1)
    BY <2>3, BusAssumption DEF DmaWrite, Units, Dram
  <2>5. mem'[q] = mem[q]
    <3>1. mem \in [Dram -> Words]
      BY DEF IInv, TypeOK
    <3> QED BY <2>2, <2>3, <2>4, <3>1, StoringWords
  <2>6. CounterKept
    BY DEF CounterInv
  <2> QED BY <2>2, <2>5, <2>6 DEF CounterKept
<1> QED BY <1>1, <1>2, <1>3, <1>4, <1>5 DEF Next

(* The read and the write of an atomic addition (exec_amo.go) are one: the *)
(* counter ends at what it began with plus every addition that completed,  *)
(* on any number of harts, and without those that faulted between the two  *)
(* accesses, whatever else runs, is protected or is observed meanwhile.    *)
THEOREM AdditionsKept == Spec => []AddsNotLost
<1>1. IInv /\ CounterInv /\ [Next]_vars => CounterInv'
  BY StepCounts
<1>2. CounterInv => AddsNotLost
  BY DEF CounterInv, CounterKept, AddsNotLost
<1> QED BY <1>1, <1>2, InitCounts, AlwaysSound, PTL DEF Spec
=============================================================================
