--------------------------- MODULE DevicesProofs ----------------------------
(***************************************************************************)
(* Proofs about Devices: a driver reads in each device what it last wrote, *)
(* and streams pass whole and in order.                                    *)
(*                                                                         *)
(* The driver's record (shadow) goes by place and byte, the device's       *)
(* registers by name and queue.  Recorded says that they agree everywhere, *)
(* also where there is no register and both hold zeros.  A write goes to   *)
(* one word: WroteIs and Stores give the registers after it, by that word, *)
(* NoteIs the record after it, and the cases from DeviceWordWritten to     *)
(* OtherWritten show that they agree again.                                *)
(*                                                                         *)
(* Streams go unit by unit: Laid gives the places of a chain's units, the  *)
(* lemmas from ConsoleFills to InputSends what each request does along     *)
(* them, HandledFills and HandledSends the same for any device, and Flows  *)
(* what remains true of all of it from one step to the next.               *)
(***************************************************************************)
EXTENDS Devices, SequenceTheorems, WellFoundedInduction, TLAPS

Byte == 0 .. 255
Word4 == [1 .. 4 -> Byte]

-----------------------------------------------------------------------------
(* Words.                                                                  *)

(* A tuple of four is a function on 1 .. 4.                                *)
LEMMA Tuple4 ==
    ASSUME NEW a, NEW b, NEW c, NEW d
    PROVE  /\ DOMAIN <<a, b, c, d>> = 1 .. 4
           /\ <<a, b, c, d>> = [i \in 1 .. 4 |-> <<a, b, c, d>>[i]]
<1>1. DOMAIN <<a, b, c, d>> = 1 .. 4
  OBVIOUS
<1> QED BY <1>1

LEMMA FewWords == Zero4 \in Word4 /\ One4 \in Word4 /\ Zero4 # One4
                  /\ \A i \in 1 .. 4 : Zero4[i] = 0
  BY DEF Zero4, One4, Word4, Byte

LEMMA LengthFour == \A w \in Word4 : Len(w) = 4
<1> SUFFICES ASSUME NEW w \in Word4 PROVE Len(w) = 4
  OBVIOUS
<1>1. w \in Seq(Byte)
  BY SeqDef DEF Word4
<1>2. DOMAIN w = 1 .. 4 /\ DOMAIN w = 1 .. Len(w) /\ Len(w) \in Nat
  BY <1>1, LenProperties DEF Word4
<1> QED BY <1>2

LEMMA SmallNat == \A w \in Word4 : Small(w) \in Nat
  BY DEF Word4, Byte, Small

(* What is written into a word is a word.                                  *)
LEMMA PartialWriteWord ==
    ASSUME NEW w \in Word4, NEW o \in 0 .. 3, NEW v \in Seq(Byte)
    PROVE  partialWrite32(w, o, Len(v), v) \in Word4
<1> SUFFICES ASSUME NEW i \in 1 .. 4, o < i, i <= o + Len(v)  PROVE v[i - o] \in Byte
  BY DEF partialWrite32, Word4
<1>1. i - o \in 1 .. Len(v)
  OBVIOUS
<1> QED BY <1>1

(* Words begin at multiples of four and do not overlap.                    *)
Aligned(a) == a % 4 = 0
LEMMA Apart ==
    ASSUME NEW a \in Nat, NEW b \in Nat, Aligned(a), Aligned(b), a # b, NEW i \in 1 .. 4
    PROVE  b + i - 1 \notin a .. a + 3
  BY DEF Aligned

(* The word of an offset.                                                  *)
LEMMA WordOf ==
    ASSUME NEW off \in Nat
    PROVE  /\ off % 4 \in 0 .. 3
           /\ off - (off % 4) \in Nat /\ Aligned(off - (off % 4))
           /\ off = (off - (off % 4)) + (off % 4)
  BY DEF Aligned

-----------------------------------------------------------------------------
(* The driver's record.                                                    *)

LEMMA KeepThere ==
    ASSUME NEW s, NEW p \in Nat, NEW a \in Nat, NEW word \in Word4
    PROVE  NotedWord(Keep(s, p, a, word), p, a) = word
<1> DEFINE t == Keep(s, p, a, word)
<1>1. ASSUME NEW i \in 1 .. 4  PROVE Noted(t, <<p, a + i - 1>>) = word[i]
  <2>1. i - 1 \in 0 .. 3 /\ a + i - 1 = a + (i - 1) /\ a + i - 1 \in a .. a + 3
        /\ (a + i - 1) - a + 1 = i
    OBVIOUS
  <2>2. <<p, a + i - 1>> \in DOMAIN t
    BY <2>1 DEF Keep
  <2> QED BY <2>1, <2>2 DEF Noted, Keep
<1> QED BY <1>1 DEF NotedWord, Word4

LEMMA KeepElsewhere ==
    ASSUME NEW s, NEW p \in Nat, NEW a \in Nat, NEW word, Aligned(a),
           NEW q \in Nat, NEW b \in Nat, Aligned(b), q # p \/ b # a
    PROVE  NotedWord(Keep(s, p, a, word), q, b) = NotedWord(s, q, b)
<1> DEFINE t == Keep(s, p, a, word)
<1>1. ASSUME NEW i \in 1 .. 4  PROVE Noted(t, <<q, b + i - 1>>) = Noted(s, <<q, b + i - 1>>)
  <2> DEFINE k == <<q, b + i - 1>>
  <2>1. q # p \/ b + i - 1 \notin a .. a + 3
    BY Apart
  <2>2. ~(k[1] = p /\ k[2] \in a .. a + 3)
    BY <2>1
  <2>3. k \in DOMAIN t <=> k \in DOMAIN s
    <3>1. k \notin {<<p, a + j>> : j \in 0 .. 3}
      BY <2>1
    <3> QED BY <3>1 DEF Keep
  <2>4. k \in DOMAIN s => t[k] = s[k]
    BY <2>2 DEF Keep
  <2> QED BY <2>3, <2>4 DEF Noted
<1> QED BY <1>1 DEF NotedWord

LEMMA ForgetThere ==
    ASSUME NEW s, NEW q \in Nat, NEW b \in Nat, b >= 56
    PROVE  NotedWord(Forget(s, q), q, b) = [i \in 1 .. 4 |-> 0]
<1>1. ASSUME NEW i \in 1 .. 4  PROVE Noted(Forget(s, q), <<q, b + i - 1>>) = 0
  BY DEF Noted, Forget
<1> QED BY <1>1 DEF NotedWord

LEMMA ForgetElsewhere ==
    ASSUME NEW s, NEW q \in Nat, NEW p \in Nat, NEW b \in Nat, p # q \/ b + 3 < 56
    PROVE  NotedWord(Forget(s, q), p, b) = NotedWord(s, p, b)
<1>1. ASSUME NEW i \in 1 .. 4
      PROVE  Noted(Forget(s, q), <<p, b + i - 1>>) = Noted(s, <<p, b + i - 1>>)
  BY DEF Noted, Forget
<1> QED BY <1>1 DEF NotedWord

LEMMA NothingNoted == \A p, b : NotedWord(<<>>, p, b) = [i \in 1 .. 4 |-> 0]
  BY DEF NotedWord, Noted

-----------------------------------------------------------------------------
(* The registers, and what a driver finds at a place.                      *)
QueueRegs == {\h38, \h44} \cup AddrRegs
QueueState == [num : Word4, ready : BOOLEAN, addr : [AddrRegs -> Word4], last : Nat]
RegNames == {"dfs", "drs", "features", "qsel", "queue", "isr", "status", "gen", "config"}
RegsOK(r) ==
    /\ DOMAIN r = RegNames
    /\ r.dfs \in Word4 /\ r.drs \in Word4 /\ r.qsel \in Word4
    /\ r.features \in [1 .. 2 -> Word4]
    /\ r.queue \in [Queues -> QueueState]
Held(r, p, b) ==
    IF p = 0 /\ b = \h14 THEN r.dfs
    ELSE IF p = 0 /\ b = \h24 THEN r.drs
    ELSE IF p = 0 /\ b = \h30 THEN r.qsel
    ELSE IF p \in {0, 1} /\ b = \h20 THEN r.features[p + 1]
    ELSE IF p \in Queues /\ b \in QueueRegs THEN QueueWord(r.queue[p], b)
    ELSE Zero4
(* The driver's record is what the registers hold.                         *)
Recorded(s, r) == \A p, b \in Nat : Aligned(b) => NotedWord(s, p, b) = Held(r, p, b)

LEMMA KindFacts ==
    /\ Queues \subseteq Nat /\ 0 \in Queues /\ Queues = 0 .. QueueCount(kind) - 1
    /\ QueueCount(kind) \in {1, 2}
    /\ kind = "blk" => QueueCount(kind) = 1
  BY DEF Queues, QueueCount

LEMMA AddrFacts ==
    /\ AddrRegs \subseteq Nat /\ \A b \in AddrRegs : Aligned(b) /\ b >= 128 /\ b <= 164
    /\ \h38 \notin AddrRegs /\ \h44 \notin AddrRegs
  BY DEF AddrRegs, Aligned

LEMMA QueueWordIsWord ==
    ASSUME NEW x \in QueueState, NEW b \in QueueRegs
    PROVE  QueueWord(x, b) \in Word4
  BY FewWords DEF QueueWord, QueueState, QueueRegs

LEMMA HeldIsWord ==
    ASSUME NEW r, RegsOK(r), NEW p \in Nat, NEW b \in Nat
    PROVE  Held(r, p, b) \in Word4
<1>1. CASE p \in Queues /\ b \in QueueRegs
  <2>1. QueueWord(r.queue[p], b) \in Word4
    BY <1>1, QueueWordIsWord DEF RegsOK
  <2> QED BY <2>1, FewWords DEF RegsOK, Held
<1>2. CASE ~(p \in Queues /\ b \in QueueRegs)
  BY <1>2, FewWords DEF RegsOK, Held
<1> QED BY <1>1, <1>2

(* What the driver takes to be selected is.                                *)
LEMMA SelectionNoted ==
    ASSUME NEW r, RegsOK(r), Recorded(shadow, r)
    PROVE  NotedWord(shadow, 0, \h24) = r.drs /\ NotedWord(shadow, 0, \h30) = r.qsel
<1>1. NotedWord(shadow, 0, \h24) = r.drs
  <2>1. Aligned(\h24) /\ Held(r, 0, \h24) = r.drs
    BY DEF Aligned, Held
  <2> QED BY <2>1 DEF Recorded
<1>2. NotedWord(shadow, 0, \h30) = r.qsel
  <2>1. Aligned(\h30) /\ Held(r, 0, \h30) = r.qsel
    BY DEF Aligned, Held
  <2> QED BY <2>1 DEF Recorded
<1> QED BY <1>1, <1>2

(* The place that a driver takes a register to be at.                      *)
LEMMA PlaceIs ==
    ASSUME NEW r, RegsOK(r), Recorded(shadow, r), NEW a \in Nat
    PROVE  /\ Place(shadow, a) = IF a = \h20 THEN Small(r.drs)
                                ELSE IF \/ a \in {\h38, \h44} /\ kind # "blk"
                                        \/ a \in AddrRegs /\ QueueCount(kind) = 2
                                THEN Small(r.qsel) ELSE 0
           /\ Place(shadow, a) \in Nat
<1>1. NotedWord(shadow, 0, \h24) = r.drs /\ NotedWord(shadow, 0, \h30) = r.qsel
  BY SelectionNoted
<1>3. Small(r.drs) \in Nat /\ Small(r.qsel) \in Nat
  BY SmallNat DEF RegsOK
<1>4. \h20 \notin AddrRegs /\ \h20 \notin {\h38, \h44}
  BY DEF AddrRegs
<1>5. Place(shadow, a) = IF a = \h20 THEN Small(r.drs)
                         ELSE IF \/ a \in {\h38, \h44} /\ kind # "blk"
                                 \/ a \in AddrRegs /\ QueueCount(kind) = 2
                         THEN Small(r.qsel) ELSE 0
  BY <1>1, <1>4, AddrFacts DEF Place
<1> QED BY <1>3, <1>5

(* The queue that a write reaches is the one at the driver's place.        *)
LEMMA SelectedIs ==
    ASSUME NEW r, RegsOK(r), Recorded(shadow, r), NEW a \in QueueRegs
    PROVE  /\ Exists(shadow, a) <=> Selected(kind, r, a, FALSE) # {}
           /\ Exists(shadow, a) => /\ Selected(kind, r, a, FALSE) = {Place(shadow, a)}
                                  /\ Place(shadow, a) \in Queues
<1>1. a \in Nat /\ a # \h20
  BY AddrFacts DEF QueueRegs, AddrRegs
<1>2. DOMAIN r.queue = Queues /\ Small(r.qsel) \in Nat
  BY SmallNat DEF RegsOK
<1>3. CASE a \in AddrRegs
  <2>1. Exists(shadow, a) <=> Place(shadow, a) < QueueCount(kind)
    BY <1>1, <1>3, AddrFacts DEF Exists
  <2>2. Selected(kind, r, a, FALSE) = IF QueueCount(kind) = 1 THEN {0} ELSE {Small(r.qsel)} \cap Queues
    BY <1>2, <1>3 DEF Selected
  <2>3. Place(shadow, a) = IF QueueCount(kind) = 2 THEN Small(r.qsel) ELSE 0
    BY <1>1, <1>3, PlaceIs, AddrFacts
  <2>4. CASE QueueCount(kind) = 1
    <3>1. Place(shadow, a) = 0 /\ 0 \in Queues
      BY <2>3, <2>4, KindFacts
    <3>2. Selected(kind, r, a, FALSE) = {0}
      BY <2>2, <2>4
    <3>3. Exists(shadow, a)
      BY <2>1, <2>4, <3>1
    <3> QED BY <3>1, <3>2, <3>3
  <2>5. CASE QueueCount(kind) = 2
    <3>1. Place(shadow, a) \in Queues <=> Exists(shadow, a)
      BY <1>2, <2>1, <2>3, <2>5, KindFacts
    <3>2. Selected(kind, r, a, FALSE) = {Place(shadow, a)} \cap Queues
      <4>1. QueueCount(kind) # 1
        BY <2>5
      <4>2. Selected(kind, r, a, FALSE) = {Small(r.qsel)} \cap Queues
        BY <2>2, <4>1, Zenon
      <4>3. Place(shadow, a) = Small(r.qsel)
        BY <2>3, <2>5, Zenon
      <4> QED BY <4>2, <4>3, Zenon
    <3> QED BY <3>1, <3>2
  <2> QED BY <2>4, <2>5, KindFacts
<1>4. CASE a \in {\h38, \h44}
  <2>1. /\ kind = "blk" => (Exists(shadow, a) <=> Small(r.qsel) = 0)
        /\ kind # "blk" => (Exists(shadow, a) <=> Place(shadow, a) < QueueCount(kind))
    <3>1. NotedWord(shadow, 0, \h30) = r.qsel
      BY SelectionNoted
    <3>2. kind = "blk" => (Exists(shadow, a) <=> Small(r.qsel) = 0)
      BY <1>1, <1>4, <3>1, AddrFacts DEF Exists
    <3>3. kind # "blk" => (Exists(shadow, a) <=> Place(shadow, a) < QueueCount(kind))
      BY <1>1, <1>4, AddrFacts DEF Exists
    <3> QED BY <3>2, <3>3
  <2>2. Selected(kind, r, a, FALSE) = {Small(r.qsel)} \cap Queues
    BY <1>2, <1>4, AddrFacts DEF Selected
  <2>3. Place(shadow, a) = IF kind = "blk" THEN 0 ELSE Small(r.qsel)
    BY <1>1, <1>4, PlaceIs, AddrFacts
  <2>4. Small(r.qsel) \in Queues <=> Exists(shadow, a)
    <3>1. CASE kind = "blk"
      <4>1. \A n \in Nat : n \in Queues <=> n = 0
        BY <3>1, KindFacts
      <4> QED BY <1>2, <2>1, <3>1, <4>1
    <3>2. CASE kind # "blk"
      <4>1. \A n \in Nat : n \in Queues <=> n < QueueCount(kind)
        BY KindFacts
      <4> QED BY <1>2, <2>1, <2>3, <3>2, <4>1
    <3> QED BY <3>1, <3>2
  <2>5. Exists(shadow, a) => Place(shadow, a) = Small(r.qsel)
    BY <2>1, <2>3
  <2> QED BY <2>2, <2>4, <2>5
<1> QED BY <1>3, <1>4 DEF QueueRegs

-----------------------------------------------------------------------------
(* A write.                                                                *)
Stored(off, v, w) == partialWrite32(w, off % 4, Len(v), v)
LEMMA StoredIsWord ==
    \A off \in Nat, v \in Seq(Byte), w \in Word4 : Stored(off, v, w) \in Word4
  BY PartialWriteWord, WordOf DEF Stored

(* The word that the driver notes is the one that the device stores; any   *)
(* number but zero makes a queue ready.                                    *)
NotedAs(a, word) == IF a = \h44 /\ word # Zero4 THEN One4 ELSE word
NoteOf(a, p, word) == IF a = \hc0 /\ word # Zero4
                      THEN Forget(shadow, Small(NotedWord(shadow, 0, \h30)))
                      ELSE IF ~Exists(shadow, a) THEN shadow
                      ELSE Keep(shadow, p, a, NotedAs(a, word))
LEMMA NoteIs ==
    ASSUME NEW off \in Nat, NEW v \in Seq(Byte), kind = "blk" => off % 4 = 0,
           NEW a, a = off - (off % 4), NEW p, p = Place(shadow, a),
           NEW word, word = Stored(off, v, NotedWord(shadow, p, a))
    PROVE  Note(off, v) = NoteOf(a, p, word)
<1> DEFINE byte(i) == IF i >= off /\ i < off + Len(v) THEN v[i - off + 1] ELSE Noted(shadow, <<p, i>>)
           noted == [i \in 1 .. 4 |-> byte(a + i - 1)]
<1>1. off % 4 \in 0 .. 3 /\ a \in Nat /\ off = a + (off % 4) /\ Len(v) \in Nat
  BY WordOf
<1>2. ASSUME NEW i \in 1 .. 4
      PROVE  byte(a + i - 1) = IF off % 4 < i /\ i <= (off % 4) + Len(v) THEN v[i - (off % 4)]
                               ELSE Noted(shadow, <<p, a + i - 1>>)
  <2> DEFINE o == off % 4
  <2>1. o \in 0 .. 3 /\ off = a + o
    BY <1>1
  <2> HIDE DEF o
  <2>2. /\ (a + i - 1 >= off) <=> (o < i)
        /\ (a + i - 1 < off + Len(v)) <=> (i <= o + Len(v))
        /\ (a + i - 1) - off + 1 = i - o
    BY <1>1, <2>1
  <2>3. byte(a + i - 1) = IF o < i /\ i <= o + Len(v) THEN v[i - o]
                          ELSE Noted(shadow, <<p, a + i - 1>>)
    BY <2>2
  <2> QED BY <2>3 DEF o
<1>3. ASSUME NEW i \in 1 .. 4  PROVE NotedWord(shadow, p, a)[i] = Noted(shadow, <<p, a + i - 1>>)
  BY DEF NotedWord
<1>4. noted = word
  BY <1>2, <1>3 DEF Stored, partialWrite32
<1> HIDE DEF byte
<1>5. Note(off, v) = NoteOf(a, p, noted)
  BY DEF Note, NoteOf, NotedAs, byte
<1> QED BY <1>4, <1>5

(* One place holds a new word, in the record and in the registers.         *)
LEMMA KeepsRecord ==
    ASSUME NEW r, NEW r2, Recorded(shadow, r),
           NEW p \in Nat, NEW a \in Nat, Aligned(a), NEW word \in Word4,
           \A q, b \in Nat : Held(r2, q, b) = IF q = p /\ b = a THEN word ELSE Held(r, q, b)
    PROVE  Recorded(Keep(shadow, p, a, word), r2)
<1> SUFFICES ASSUME NEW q \in Nat, NEW b \in Nat, Aligned(b)
             PROVE  NotedWord(Keep(shadow, p, a, word), q, b) = Held(r2, q, b)
  BY DEF Recorded
<1>1. CASE q = p /\ b = a
  BY <1>1, KeepThere
<1>2. CASE ~(q = p /\ b = a)
  <2>1. NotedWord(Keep(shadow, p, a, word), q, b) = NotedWord(shadow, q, b)
    BY <1>2, KeepElsewhere
  <2> QED BY <1>2, <2>1 DEF Recorded
<1> QED BY <1>1, <1>2

(* What the write leaves in the registers, by the word it goes to.         *)
Stores(r, off, v, a) == WriteWord(kind, r, a, LAMBDA w : partialWrite32(w, off % 4, Len(v), v))
LEMMA WroteIs ==
    ASSUME NEW r, NEW off, NEW v, NEW a, a = off - (off % 4)
    PROVE  /\ DOMAIN Wrote(kind, r, off, v) = {"regs", "reset", "visits"}
           /\ Wrote(kind, r, off, v).regs = Stores(r, off, v, a)
           /\ Wrote(kind, r, off, v).reset <=> (a = \h70 /\ Stored(off, v, r.status) = Zero4)
<1>1. Wrote(kind, r, off, v).regs = Stores(r, off, v, off - (off % 4))
  BY Zenon DEF Wrote, Stores
<1>2. DOMAIN Wrote(kind, r, off, v) = {"regs", "reset", "visits"}
  BY Zenon DEF Wrote
<1>3. Wrote(kind, r, off, v).reset <=> (a = \h70 /\ Stored(off, v, r.status) = Zero4)
  BY DEF Wrote, Stored
<1> QED BY <1>1, <1>2, <1>3

LEMMA StoresDfs ==
    ASSUME NEW r, NEW off \in Nat, NEW v
    PROVE  Stores(r, off, v, \h14) = [r EXCEPT !.dfs = Stored(off, v, r.dfs)]
  BY DEF Stores, WriteWord, Stored, AddrRegs
LEMMA StoresDrs ==
    ASSUME NEW r, NEW off \in Nat, NEW v
    PROVE  Stores(r, off, v, \h24) = [r EXCEPT !.drs = Stored(off, v, r.drs)]
  BY DEF Stores, WriteWord, Stored, AddrRegs
LEMMA StoresQsel ==
    ASSUME NEW r, NEW off \in Nat, NEW v
    PROVE  Stores(r, off, v, \h30) = [r EXCEPT !.qsel = Stored(off, v, r.qsel)]
  BY DEF Stores, WriteWord, Stored, AddrRegs
Pages(r, off, v) ==
    [i \in 1 .. 2 |-> IF i = Small(r.drs) + 1 THEN Stored(off, v, r.features[i]) ELSE r.features[i]]
LEMMA StoresFeatures ==
    ASSUME NEW r, NEW off \in Nat, NEW v
    PROVE  Stores(r, off, v, \h20) = [r EXCEPT !.features = Pages(r, off, v)]
  BY DEF Stores, WriteWord, Stored, AddrRegs, Pages

(* What is kept of a write to the registers of the device as a whole.      *)
LEMMA DeviceWordWritten ==
    ASSUME NEW r, RegsOK(r), Recorded(shadow, r), NEW off \in Nat, NEW v \in Seq(Byte),
           kind = "blk" => off % 4 = 0, NEW a, a = off - (off % 4), a \in {\h14, \h24, \h30}
    PROVE  LET w == Wrote(kind, r, off, v)
           IN  ~w.reset /\ RegsOK(w.regs) /\ Recorded(Note(off, v), w.regs)
<1> DEFINE w == Wrote(kind, r, off, v)
           word == Stored(off, v, Held(r, 0, a))
<1>1. a \in Nat /\ Aligned(a) /\ a \notin QueueRegs
  BY AddrFacts, WordOf DEF QueueRegs, Aligned
<1>2. Place(shadow, a) = 0
  BY <1>1, PlaceIs DEF QueueRegs
<1>3. NotedWord(shadow, 0, a) = Held(r, 0, a)
  BY <1>1 DEF Recorded
<1>4. word \in Word4
  BY <1>1, HeldIsWord, StoredIsWord
<1>5. Note(off, v) = Keep(shadow, 0, a, word)
  <2>1. Exists(shadow, a)
    BY <1>1 DEF Exists, QueueRegs
  <2> HIDE DEF word
  <2>2. word = Stored(off, v, NotedWord(shadow, 0, a))
    BY <1>3 DEF word
  <2>3. Note(off, v) = NoteOf(a, 0, word)
    BY <1>2, <2>2, NoteIs
  <2> QED BY <1>1, <2>1, <2>3 DEF NoteOf, NotedAs, QueueRegs
<1>6. ~w.reset /\ w.regs = Stores(r, off, v, a)
  BY WroteIs
<1>7. CASE a = \h14
  <2>1. word = Stored(off, v, r.dfs)
    BY <1>7 DEF Held
  <2>2. w.regs = [r EXCEPT !.dfs = word]
    BY <1>6, <1>7, <2>1, StoresDfs
  <2> HIDE DEF w, word
  <2>3. RegsOK(w.regs)
    BY <2>2, <1>4 DEF RegsOK, RegNames
  <2>4. \A q, b \in Nat : Held(w.regs, q, b) = IF q = 0 /\ b = a THEN word ELSE Held(r, q, b)
    BY <2>2, <1>7 DEF Held, RegsOK, RegNames
  <2>5. Recorded(Note(off, v), w.regs)
    BY <1>1, <1>4, <1>5, <2>4, KeepsRecord
  <2> QED BY <1>6, <2>3, <2>5 DEF w
<1>8. CASE a = \h24
  <2>1. word = Stored(off, v, r.drs)
    BY <1>8 DEF Held
  <2>2. w.regs = [r EXCEPT !.drs = word]
    BY <1>6, <1>8, <2>1, StoresDrs
  <2> HIDE DEF w, word
  <2>3. RegsOK(w.regs)
    BY <2>2, <1>4 DEF RegsOK, RegNames
  <2>4. \A q, b \in Nat : Held(w.regs, q, b) = IF q = 0 /\ b = a THEN word ELSE Held(r, q, b)
    BY <2>2, <1>8 DEF Held, RegsOK, RegNames
  <2>5. Recorded(Note(off, v), w.regs)
    BY <1>1, <1>4, <1>5, <2>4, KeepsRecord
  <2> QED BY <1>6, <2>3, <2>5 DEF w
<1>9. CASE a = \h30
  <2>1. word = Stored(off, v, r.qsel)
    BY <1>9 DEF Held
  <2>2. w.regs = [r EXCEPT !.qsel = word]
    BY <1>6, <1>9, <2>1, StoresQsel
  <2> HIDE DEF w, word
  <2>3. RegsOK(w.regs)
    BY <2>2, <1>4 DEF RegsOK, RegNames
  <2>4. \A q, b \in Nat : Held(w.regs, q, b) = IF q = 0 /\ b = a THEN word ELSE Held(r, q, b)
    BY <2>2, <1>9 DEF Held, RegsOK, RegNames
  <2>5. Recorded(Note(off, v), w.regs)
    BY <1>1, <1>4, <1>5, <2>4, KeepsRecord
  <2> QED BY <1>6, <2>3, <2>5 DEF w
<1> QED BY <1>7, <1>8, <1>9

(* A page of features.                                                     *)
LEMMA FeaturesWritten ==
    ASSUME NEW r, RegsOK(r), Recorded(shadow, r), NEW off \in Nat, NEW v \in Seq(Byte),
           kind = "blk" => off % 4 = 0, NEW a, a = off - (off % 4), a = \h20
    PROVE  LET w == Wrote(kind, r, off, v)
           IN  ~w.reset /\ RegsOK(w.regs) /\ Recorded(Note(off, v), w.regs)
<1> DEFINE w == Wrote(kind, r, off, v)
           p == Small(r.drs)
           word == Stored(off, v, Held(r, p, a))
<1>1. a \in Nat /\ Aligned(a) /\ a \notin QueueRegs /\ p \in Nat
  BY AddrFacts, WordOf, SmallNat DEF QueueRegs, Aligned, RegsOK, AddrRegs
<1>2. Place(shadow, a) = p /\ (Exists(shadow, a) <=> p < 2)
  <2>1. Place(shadow, a) = p
    BY <1>1, PlaceIs
  <2> QED BY <1>1, <2>1 DEF Exists, QueueRegs
<1>3. NotedWord(shadow, p, a) = Held(r, p, a)
  BY <1>1 DEF Recorded
<1>4. word \in Word4
  BY <1>1, HeldIsWord, StoredIsWord
<1>5. Note(off, v) = IF p < 2 THEN Keep(shadow, p, a, word) ELSE shadow
  <2> HIDE DEF word, p
  <2>2. word = Stored(off, v, NotedWord(shadow, p, a))
    BY <1>3 DEF word
  <2>3. Note(off, v) = NoteOf(a, p, word)
    BY <1>2, <2>2, NoteIs DEF p
  <2> QED BY <1>2, <2>3 DEF NoteOf, NotedAs
<1> DEFINE pages == Pages(r, off, v)
<1>6. ~w.reset /\ w.regs = Stores(r, off, v, a)
  BY WroteIs
<1>7. w.regs = [r EXCEPT !.features = pages]
  BY <1>6, StoresFeatures
<1>8. pages \in [1 .. 2 -> Word4]
  BY StoredIsWord DEF RegsOK, Pages
<1> HIDE DEF w
<1>9. RegsOK(w.regs)
  <2> HIDE DEF pages
  <2> QED BY <1>7, <1>8 DEF RegsOK, RegNames
<1>10. CASE p < 2
  <2>1. p \in {0, 1} /\ word = pages[p + 1] /\ \A q \in {0, 1} : q # p => pages[q + 1] = r.features[q + 1]
    <3>1. p \in {0, 1}
      BY <1>1, <1>10
    <3>2. Held(r, p, a) = r.features[p + 1]
      BY <3>1 DEF Held
    <3> QED BY <3>1, <3>2 DEF Pages
  <2> HIDE DEF pages, word, p
  <2>2. \A q, b \in Nat : Held(w.regs, q, b) = IF q = p /\ b = a THEN word ELSE Held(r, q, b)
    BY <1>7, <2>1 DEF Held, RegsOK, RegNames
  <2>3. Recorded(Note(off, v), w.regs)
    BY <1>1, <1>4, <1>5, <1>10, <2>2, KeepsRecord
  <2> QED BY <1>6, <1>9, <2>3 DEF w
<1>11. CASE ~(p < 2)
  <2>1. \A q \in {0, 1} : pages[q + 1] = r.features[q + 1]
    <3> QED BY <1>1, <1>11 DEF Pages
  <2> HIDE DEF pages, word, p
  <2>2. \A q, b \in Nat : Held(w.regs, q, b) = Held(r, q, b)
    BY <1>7, <2>1 DEF Held, RegsOK, RegNames
  <2>3. Recorded(Note(off, v), w.regs)
    BY <1>5, <1>11, <2>2 DEF Recorded
  <2> QED BY <1>6, <1>9, <2>3 DEF w
<1> QED BY <1>10, <1>11

(* A word of a queue.                                                      *)
QueueAfter(x, off, v, a) ==
    IF a = \h38 THEN [x EXCEPT !.num = Stored(off, v, x.num)]
    ELSE IF a = \h44
    THEN SetReady(x, Stored(off, v, IF x.ready THEN One4 ELSE Zero4) # Zero4)
    ELSE [x EXCEPT !.addr[a] = Stored(off, v, x.addr[a])]
QueuesAfter(r, off, v, a) ==
    [q \in DOMAIN r.queue |-> IF q \in Selected(kind, r, a, FALSE)
                              THEN QueueAfter(r.queue[q], off, v, a) ELSE r.queue[q]]
LEMMA StoresQueue ==
    ASSUME NEW r, NEW off \in Nat, NEW v, NEW a \in QueueRegs
    PROVE  Stores(r, off, v, a) = [r EXCEPT !.queue = QueuesAfter(r, off, v, a)]
<1>1. CASE a = \h38
  BY <1>1 DEF Stores, WriteWord, WriteQueue, Stored, QueuesAfter, QueueAfter
<1>2. CASE a = \h44
  BY <1>2 DEF Stores, WriteWord, WriteQueue, Stored, QueuesAfter, QueueAfter
<1>3. CASE a \in AddrRegs
  <2>1. a \notin {\h14, \h20, \h24, \h30, \h38, \h44, \h64, \h70, \hc0}
    BY <1>3 DEF AddrRegs
  <2> QED BY <1>3, <2>1 DEF Stores, WriteWord, WriteQueue, Stored, QueuesAfter, QueueAfter
<1> QED BY <1>1, <1>2, <1>3 DEF QueueRegs

LEMMA QueueAfterIs ==
    ASSUME NEW x \in QueueState, NEW off \in Nat, NEW v \in Seq(Byte), NEW a \in QueueRegs,
           NEW word, word = Stored(off, v, QueueWord(x, a))
    PROVE  /\ QueueAfter(x, off, v, a) \in QueueState
           /\ \A b \in QueueRegs : QueueWord(QueueAfter(x, off, v, a), b) =
                  IF b = a THEN NotedAs(a, word) ELSE QueueWord(x, b)
<1> DEFINE y == QueueAfter(x, off, v, a)
<1>1. word \in Word4
  BY QueueWordIsWord, StoredIsWord
<1>2. /\ x = [num |-> x.num, ready |-> x.ready, addr |-> x.addr, last |-> x.last]
      /\ x.ready \in BOOLEAN /\ x.last \in Nat /\ x.num \in Word4 /\ x.addr \in [AddrRegs -> Word4]
  BY DEF QueueState
<1>3. CASE a = \h38
  <2>1. word = Stored(off, v, x.num)
    BY <1>3 DEF QueueWord
  <2>2. y = [num |-> word, ready |-> x.ready, addr |-> x.addr, last |-> x.last]
    BY <1>2, <1>3, <2>1 DEF QueueAfter
  <2> HIDE DEF y
  <2> QED BY <1>1, <1>2, <1>3, <2>2, AddrFacts DEF QueueState, QueueWord, QueueRegs, NotedAs, y
<1>4. CASE a = \h44
  <2>1. word = Stored(off, v, IF x.ready THEN One4 ELSE Zero4)
    BY <1>4 DEF QueueWord
  <2>2. y = [num |-> x.num, ready |-> (word # Zero4), addr |-> x.addr,
             last |-> IF word # Zero4 THEN x.last ELSE 0]
    <3>1. y = SetReady(x, word # Zero4)
      BY <1>4, <2>1 DEF QueueAfter
    <3>2. CASE word = Zero4
      <4>1. y = SetReady(x, FALSE)
        BY <3>1, <3>2
      <4> HIDE DEF y
      <4>2. y = [num |-> x.num, ready |-> FALSE, addr |-> x.addr, last |-> 0]
        BY <1>2, <4>1 DEF SetReady
      <4> QED BY <3>2, <4>2
    <3>3. CASE word # Zero4
      <4>1. y = SetReady(x, TRUE)
        BY <3>1, <3>3
      <4> HIDE DEF y
      <4>2. y = [num |-> x.num, ready |-> TRUE, addr |-> x.addr, last |-> x.last]
        BY <1>2, <4>1 DEF SetReady
      <4> QED BY <3>3, <4>2
    <3> QED BY <3>2, <3>3
  <2> HIDE DEF y
  <2>3. y \in QueueState
    BY <1>2, <2>2 DEF QueueState
  <2>4. \A b \in QueueRegs : QueueWord(y, b) = IF b = a THEN NotedAs(a, word) ELSE QueueWord(x, b)
    <3>1. SUFFICES ASSUME NEW b \in QueueRegs
                   PROVE  QueueWord(y, b) = IF b = a THEN NotedAs(a, word) ELSE QueueWord(x, b)
      OBVIOUS
    <3>2. CASE b = a
      <4>1. b = \h44 /\ QueueWord(y, b) = IF y.ready THEN One4 ELSE Zero4
        BY <1>4, <3>2 DEF QueueWord
      <4>2. CASE word = Zero4
        <5>1. y.ready = FALSE
          BY <2>2, <4>2
        <5> QED BY <3>2, <4>1, <4>2, <5>1 DEF NotedAs
      <4>3. CASE word # Zero4
        <5>1. y.ready = TRUE
          BY <2>2, <4>3
        <5> QED BY <1>4, <3>2, <4>1, <4>3, <5>1 DEF NotedAs
      <4> QED BY <4>2, <4>3
    <3>3. CASE b # a
      BY <1>2, <1>4, <2>2, <3>3, AddrFacts DEF QueueWord, QueueRegs
    <3> QED BY <3>2, <3>3
  <2> QED BY <2>3, <2>4 DEF y
<1>5. CASE a \in AddrRegs
  <2>1. a # \h38 /\ a # \h44
    BY <1>5, AddrFacts
  <2>2. word = Stored(off, v, x.addr[a])
    BY <2>1 DEF QueueWord
  <2>3. y = [num |-> x.num, ready |-> x.ready, addr |-> [x.addr EXCEPT ![a] = word], last |-> x.last]
    BY <1>2, <2>1, <2>2 DEF QueueAfter
  <2> HIDE DEF y
  <2>4. y \in QueueState
    BY <1>1, <1>2, <2>3 DEF QueueState
  <2>5. \A b \in QueueRegs : QueueWord(y, b) = IF b = a THEN NotedAs(a, word) ELSE QueueWord(x, b)
    BY <1>2, <1>5, <2>1, <2>3, AddrFacts DEF QueueWord, QueueRegs, NotedAs
  <2> QED BY <2>4, <2>5 DEF y
<1> QED BY <1>3, <1>4, <1>5 DEF QueueRegs

LEMMA QueueWordWritten ==
    ASSUME NEW r, RegsOK(r), Recorded(shadow, r), NEW off \in Nat, NEW v \in Seq(Byte),
           kind = "blk" => off % 4 = 0, NEW a, a = off - (off % 4), a \in QueueRegs
    PROVE  LET w == Wrote(kind, r, off, v)
           IN  ~w.reset /\ RegsOK(w.regs) /\ Recorded(Note(off, v), w.regs)
<1> DEFINE w == Wrote(kind, r, off, v)
           p == Place(shadow, a)
           word == Stored(off, v, Held(r, p, a))
           queues == QueuesAfter(r, off, v, a)
<1>1. a \in Nat /\ Aligned(a) /\ a # \h70 /\ a # \hc0 /\ p \in Nat /\ a \notin {\h14, \h20, \h24, \h30}
  <2>1. a \in Nat /\ Aligned(a)
    BY WordOf
  <2>2. a # \h70 /\ a # \hc0 /\ a \notin {\h14, \h20, \h24, \h30}
    BY AddrFacts DEF QueueRegs
  <2>3. p \in Nat
    BY <2>1, PlaceIs
  <2> QED BY <2>1, <2>2, <2>3
<1>2. NotedWord(shadow, p, a) = Held(r, p, a)
  BY <1>1 DEF Recorded
<1>3. word \in Word4 /\ NotedAs(a, word) \in Word4
  BY <1>1, HeldIsWord, StoredIsWord, FewWords DEF NotedAs
<1>4. Note(off, v) = IF Exists(shadow, a) THEN Keep(shadow, p, a, NotedAs(a, word)) ELSE shadow
  <2> HIDE DEF word, p
  <2>1. p = Place(shadow, a) /\ a # \hc0
    BY <1>1 DEF p
  <2>2. word = Stored(off, v, NotedWord(shadow, p, a))
    BY <1>2 DEF word
  <2>3. Note(off, v) = NoteOf(a, p, word)
    BY <2>1, <2>2, NoteIs
  <2> QED BY <2>1, <2>3 DEF NoteOf
<1>5. ~w.reset /\ w.regs = Stores(r, off, v, a)
  BY <1>1, WroteIs
<1>6. w.regs = [r EXCEPT !.queue = queues]
  BY <1>5, StoresQueue
<1>7. queues \in [Queues -> QueueState]
  BY QueueAfterIs DEF RegsOK, QueuesAfter
<1> HIDE DEF w
<1>8. RegsOK(w.regs)
  <2> HIDE DEF queues
  <2> QED BY <1>6, <1>7 DEF RegsOK, RegNames
<1>9. CASE Exists(shadow, a)
  <2>1. p \in Queues /\ Selected(kind, r, a, FALSE) = {p}
    BY <1>9, SelectedIs
  <2>2. Held(r, p, a) = QueueWord(r.queue[p], a)
    BY <1>1, <2>1 DEF Held
  <2> HIDE DEF p, word
  <2>3. word = Stored(off, v, QueueWord(r.queue[p], a))
    BY <2>2 DEF word
  <2>4. /\ queues[p] = QueueAfter(r.queue[p], off, v, a)
        /\ \A q \in Queues : q # p => queues[q] = r.queue[q]
    BY <2>1 DEF RegsOK, QueuesAfter
  <2>5. \A b \in QueueRegs : QueueWord(queues[p], b) =
            IF b = a THEN NotedAs(a, word) ELSE QueueWord(r.queue[p], b)
    <3>1. r.queue[p] \in QueueState
      BY <2>1 DEF RegsOK
    <3> QED BY <2>3, <2>4, <3>1, QueueAfterIs
  <2> HIDE DEF queues
  <2>6. \A q, b \in Nat : Held(w.regs, q, b) =
                           IF q = p /\ b = a THEN NotedAs(a, word) ELSE Held(r, q, b)
    <3>1. /\ w.regs.dfs = r.dfs /\ w.regs.drs = r.drs /\ w.regs.qsel = r.qsel
          /\ w.regs.features = r.features /\ w.regs.queue = queues
      BY <1>6 DEF RegsOK, RegNames
    <3>2. SUFFICES ASSUME NEW q \in Nat, NEW b \in Nat
                   PROVE  Held(w.regs, q, b) = IF q = p /\ b = a THEN NotedAs(a, word) ELSE Held(r, q, b)
      OBVIOUS
    <3>3. CASE b \in {\h14, \h20, \h24, \h30}
      BY <1>1, <3>1, <3>3, AddrFacts DEF Held, QueueRegs
    <3>4. CASE b \notin {\h14, \h20, \h24, \h30}
      <4>1. /\ Held(w.regs, q, b) = IF q \in Queues /\ b \in QueueRegs THEN QueueWord(queues[q], b) ELSE Zero4
            /\ Held(r, q, b) = IF q \in Queues /\ b \in QueueRegs THEN QueueWord(r.queue[q], b) ELSE Zero4
        BY <3>1, <3>4 DEF Held
      <4> QED BY <2>1, <2>4, <2>5, <4>1
    <3> QED BY <3>3, <3>4
  <2>7. Recorded(Keep(shadow, p, a, NotedAs(a, word)), w.regs)
    BY <1>1, <1>3, <2>6, KeepsRecord DEF p
  <2> QED BY <1>4, <1>5, <1>8, <1>9, <2>7 DEF w
<1>10. CASE ~Exists(shadow, a)
  <2>1. Selected(kind, r, a, FALSE) = {}
    BY <1>10, SelectedIs
  <2>2. queues = r.queue
    BY <2>1 DEF QueuesAfter, RegsOK
  <2> HIDE DEF queues, p, word
  <2>3. \A q, b \in Nat : Held(w.regs, q, b) = Held(r, q, b)
    BY <1>6, <2>2 DEF Held, RegsOK, RegNames
  <2>4. Recorded(shadow, w.regs)
    BY <2>3 DEF Recorded
  <2> QED BY <1>4, <1>5, <1>8, <1>10, <2>4 DEF w
<1> QED BY <1>9, <1>10

(* Registers made anew hold zeros, and so does the record of nothing.      *)
LEMMA NewRegsRecorded ==
    ASSUME NEW r, DOMAIN r = RegNames,
           r.dfs = Zero4, r.drs = Zero4, r.features = <<Zero4, Zero4>>, r.qsel = Zero4,
           r.queue = [q \in Queues |-> NoQueue]
    PROVE  RegsOK(r) /\ Recorded(<<>>, r)
<1>1. r.features = [s \in 1 .. 2 |-> Zero4] /\ r.features \in [1 .. 2 -> Word4]
  BY FewWords
<1>2. NoQueue \in QueueState /\ \A b \in QueueRegs : QueueWord(NoQueue, b) = Zero4
  BY FewWords DEF NoQueue, QueueState, QueueWord, QueueRegs
<1>3. RegsOK(r)
  BY <1>1, <1>2, FewWords DEF RegsOK
<1>4. [i \in 1 .. 4 |-> 0] = Zero4
  BY DEF Zero4
<1>5. \A p, b \in Nat : Held(r, p, b) = Zero4
  <2>1. \A p \in {0, 1} : r.features[p + 1] = Zero4
    BY <1>1
  <2>2. \A q \in Queues : r.queue[q] = NoQueue
    OBVIOUS
  <2> QED BY <1>2, <2>1, <2>2 DEF Held
<1> QED BY <1>3, <1>4, <1>5, NothingNoted DEF Recorded

LEMMA StatusWritten ==
    ASSUME NEW r, RegsOK(r), Recorded(shadow, r), NEW off \in Nat, NEW v \in Seq(Byte),
           kind = "blk" => off % 4 = 0, NEW a, a = off - (off % 4), a = \h70
    PROVE  LET w == Wrote(kind, r, off, v)
           IN  RegsOK(w.regs) /\ Recorded(IF w.reset THEN <<>> ELSE Note(off, v), w.regs)
<1> DEFINE w == Wrote(kind, r, off, v)
           zero == Stored(off, v, r.status) = Zero4
<1>1. (w.reset <=> zero) /\ w.regs = Stores(r, off, v, a)
  BY WroteIs
<1>2. CASE zero
  <2>1. Stores(r, off, v, \h70) = [NewRegs(kind) EXCEPT !.gen = r.gen]
    BY <1>2 DEF Stores, WriteWord, Stored, AddrRegs, reset
  <2>2. w.regs = [NewRegs(kind) EXCEPT !.gen = r.gen]
    BY <1>1, <2>1
  <2> HIDE DEF w, zero
  <2>3. RegsOK(w.regs) /\ Recorded(<<>>, w.regs)
    <3>1. DOMAIN w.regs = RegNames
      BY <2>2 DEF NewRegs, RegNames
    <3>2. /\ w.regs.dfs = Zero4 /\ w.regs.drs = Zero4 /\ w.regs.features = <<Zero4, Zero4>>
          /\ w.regs.qsel = Zero4 /\ w.regs.queue = [q \in Queues |-> NoQueue]
      BY <2>2 DEF NewRegs, Queues
    <3> QED BY <3>1, <3>2, NewRegsRecorded
  <2> QED BY <1>1, <1>2, <2>3 DEF w
<1>3. CASE ~zero
  <2>1. Stores(r, off, v, \h70) = [r EXCEPT !.status = NewStatus(kind, r, Stored(off, v, r.status))]
    BY <1>3 DEF Stores, WriteWord, Stored, AddrRegs
  <2>2. w.regs = [r EXCEPT !.status = NewStatus(kind, r, Stored(off, v, r.status))]
    BY <1>1, <2>1
  <2>3. Note(off, v) = shadow
    <3>1. ~Exists(shadow, a)
      BY DEF Exists, AddrRegs
    <3> QED BY <3>1, NoteIs DEF NoteOf
  <2> HIDE DEF w
  <2>4. RegsOK(w.regs)
    BY <2>2 DEF RegsOK, RegNames
  <2>5. \A q, b \in Nat : Held(w.regs, q, b) = Held(r, q, b)
    BY <2>2 DEF Held, RegsOK, RegNames
  <2>6. Recorded(Note(off, v), w.regs)
    BY <2>3, <2>5 DEF Recorded
  <2> QED BY <1>1, <1>3, <2>4, <2>6 DEF w
<1> QED BY <1>2, <1>3

(* The reset of a queue.                                                   *)
QueuesReset(r) ==
    [q \in DOMAIN r.queue |-> IF q \in Selected(kind, r, \hc0, FALSE) THEN NoQueue ELSE r.queue[q]]
LEMMA QueueResetWritten ==
    ASSUME NEW r, RegsOK(r), Recorded(shadow, r), NEW off \in Nat, NEW v \in Seq(Byte),
           kind = "blk" => off % 4 = 0, NEW a, a = off - (off % 4), a = \hc0
    PROVE  LET w == Wrote(kind, r, off, v)
           IN  ~w.reset /\ RegsOK(w.regs) /\ Recorded(Note(off, v), w.regs)
<1> DEFINE w == Wrote(kind, r, off, v)
           word == Stored(off, v, Zero4)
           q0 == Small(r.qsel)
<1>1. a \notin QueueRegs /\ a \in Nat /\ Aligned(a) /\ q0 \in Nat
  <2>1. a \notin QueueRegs /\ a \in Nat /\ Aligned(a)
    BY DEF QueueRegs, AddrRegs, Aligned
  <2>2. q0 \in Nat
    BY SmallNat DEF RegsOK
  <2> QED BY <2>1, <2>2
<1>2. ~w.reset /\ w.regs = Stores(r, off, v, a)
  BY WroteIs
<1>3. Place(shadow, a) = 0 /\ ~Exists(shadow, a)
  BY <1>1, PlaceIs DEF Exists, QueueRegs
<1>4. NotedWord(shadow, 0, a) = Zero4
  <2>1. Held(r, 0, a) = Zero4
    BY <1>1 DEF Held
  <2> QED BY <1>1, <2>1 DEF Recorded
<1>5. Note(off, v) = IF word # Zero4 THEN Forget(shadow, q0) ELSE shadow
  <2>1. NotedWord(shadow, 0, \h30) = r.qsel
    BY SelectionNoted
  <2> HIDE DEF word, q0
  <2>2. word = Stored(off, v, NotedWord(shadow, 0, a))
    BY <1>4 DEF word
  <2> QED BY <1>3, <2>1, <2>2, NoteIs DEF q0, NoteOf
<1>6. Selected(kind, r, a, FALSE) = {q0} \cap Queues
  BY <1>1 DEF Selected, QueueRegs, RegsOK
<1>7. CASE word # Zero4 /\ q0 \in Queues
  <2>1. Stores(r, off, v, \hc0) = [r EXCEPT !.isr = 0, !.queue = QueuesReset(r)]
    <3>1. Selected(kind, r, \hc0, FALSE) # {}
      BY <1>6, <1>7
    <3> QED BY <1>7, <3>1 DEF Stores, WriteWord, Stored, AddrRegs, QueuesReset
  <2>2. QueuesReset(r) \in [Queues -> QueueState]
        /\ \A q \in Queues : QueuesReset(r)[q] = IF q = q0 THEN NoQueue ELSE r.queue[q]
    <3>1. NoQueue \in QueueState
      BY FewWords DEF NoQueue, QueueState
    <3>2. Selected(kind, r, \hc0, FALSE) = {q0} \cap Queues
      BY <1>6
    <3>3. DOMAIN r.queue = Queues /\ \A q \in Queues : r.queue[q] \in QueueState
      BY DEF RegsOK
    <3> HIDE DEF q0
    <3>4. QueuesReset(r) = [q \in Queues |-> IF q = q0 THEN NoQueue ELSE r.queue[q]]
      BY <1>7, <3>2, <3>3 DEF QueuesReset
    <3> QED BY <3>1, <3>3, <3>4
  <2>3. w.regs = [r EXCEPT !.isr = 0, !.queue = QueuesReset(r)]
    BY <1>2, <2>1
  <2> HIDE DEF w, q0, word
  <2>4. RegsOK(w.regs)
    BY <2>2, <2>3 DEF RegsOK, RegNames
  <2>5. \A q, b \in Nat : Held(w.regs, q, b) = IF q = q0 /\ b \in QueueRegs THEN Zero4 ELSE Held(r, q, b)
    <3>1. \A b \in QueueRegs : QueueWord(NoQueue, b) = Zero4
      BY DEF NoQueue, QueueWord, QueueRegs
    <3>2. \A b \in QueueRegs : b \notin {\h14, \h20, \h24, \h30}
      BY AddrFacts DEF QueueRegs
    <3> QED BY <1>7, <2>2, <2>3, <3>1, <3>2 DEF Held, RegsOK, RegNames
  <2>6. Recorded(Forget(shadow, q0), w.regs)
    <3> SUFFICES ASSUME NEW q \in Nat, NEW b \in Nat, Aligned(b)
                 PROVE  NotedWord(Forget(shadow, q0), q, b) = Held(w.regs, q, b)
      BY DEF Recorded
    <3>1. CASE q = q0 /\ b >= 56
      <4>1. NotedWord(Forget(shadow, q0), q, b) = Zero4
        BY <1>1, <3>1, ForgetThere DEF Zero4
      <4>2. Held(w.regs, q, b) = Zero4
        BY <2>5, <3>1 DEF Held
      <4> QED BY <4>1, <4>2
    <3>2. CASE ~(q = q0 /\ b >= 56)
      <4>1. q # q0 \/ b + 3 < 56
        BY <3>2 DEF Aligned
      <4>2. ~(q = q0 /\ b \in QueueRegs)
        BY <3>2, AddrFacts DEF QueueRegs
      <4> QED BY <1>1, <2>5, <4>1, <4>2, ForgetElsewhere DEF Recorded
    <3> QED BY <3>1, <3>2
  <2> QED BY <1>2, <1>5, <1>7, <2>4, <2>6 DEF w
<1>8. CASE ~(word # Zero4 /\ q0 \in Queues)
  <2>1. Stores(r, off, v, \hc0) = r
    <3>1. ~(word # Zero4 /\ Selected(kind, r, \hc0, FALSE) # {})
      BY <1>6, <1>8
    <3>2. \hc0 \notin AddrRegs
      BY DEF AddrRegs
    <3>3. ~(partialWrite32(Zero4, off % 4, Len(v), v) # Zero4 /\ Selected(kind, r, \hc0, FALSE) # {})
      BY <3>1 DEF Stored
    <3>4. CASE partialWrite32(Zero4, off % 4, Len(v), v) = Zero4
      BY <3>2, <3>4 DEF Stores, WriteWord
    <3>5. CASE Selected(kind, r, \hc0, FALSE) = {}
      <4> DEFINE S == Selected(kind, r, \hc0, FALSE)
      <4>1. /\ \A x : x \notin S
            /\ (S # {}) = FALSE
        BY <3>5
      <4>2. CASE partialWrite32(Zero4, off % 4, Len(v), v) # Zero4
        BY <3>2, <3>5, <4>1, <4>2 DEF Stores, WriteWord
      <4> QED BY <3>4, <4>2
    <3> QED BY <3>3, <3>4, <3>5
  <2>2. w.regs = r
    BY <1>2, <2>1
  <2> HIDE DEF w, q0, word
  <2>3. Recorded(Note(off, v), r)
    <3>1. CASE word = Zero4
      BY <1>5, <3>1
    <3>2. CASE q0 \notin Queues
      <4>1. Recorded(Forget(shadow, q0), r)
        <5> SUFFICES ASSUME NEW q \in Nat, NEW b \in Nat, Aligned(b)
                     PROVE  NotedWord(Forget(shadow, q0), q, b) = Held(r, q, b)
          BY DEF Recorded
        <5>1. CASE q = q0 /\ b >= 56
          <6>1. NotedWord(Forget(shadow, q0), q, b) = Zero4
            BY <1>1, <5>1, ForgetThere DEF Zero4
          <6>2. Held(r, q, b) = Zero4
            BY <3>2, <5>1 DEF Held
          <6> QED BY <6>1, <6>2
        <5>2. CASE ~(q = q0 /\ b >= 56)
          <6>1. q # q0 \/ b + 3 < 56
            BY <5>2 DEF Aligned
          <6> QED BY <1>1, <6>1, ForgetElsewhere DEF Recorded
        <5> QED BY <5>1, <5>2
      <4> QED BY <1>5, <4>1
    <3> QED BY <1>8, <3>1, <3>2
  <2> QED BY <1>2, <2>2, <2>3 DEF w
<1> QED BY <1>7, <1>8

LEMMA OtherWritten ==
    ASSUME NEW r, RegsOK(r), Recorded(shadow, r), NEW off \in Nat, NEW v \in Seq(Byte),
           kind = "blk" => off % 4 = 0, NEW a, a = off - (off % 4),
           a \notin {\h14, \h20, \h24, \h30, \h70, \hc0} \cup QueueRegs
    PROVE  LET w == Wrote(kind, r, off, v)
           IN  ~w.reset /\ RegsOK(w.regs) /\ Recorded(Note(off, v), w.regs)
<1> DEFINE w == Wrote(kind, r, off, v)
<1>1. ~w.reset /\ w.regs = Stores(r, off, v, a)
  BY WroteIs
<1>2. Note(off, v) = shadow
  <2>1. ~Exists(shadow, a)
    BY DEF Exists, QueueRegs
  <2> QED BY <2>1, NoteIs DEF NoteOf
<1>3. CASE a = \h64
  <2> DEFINE i == IF Has(Stored(off, v, Zero4)[1], 1) THEN 0 ELSE r.isr
  <2>1. Stores(r, off, v, \h64) = [r EXCEPT !.isr = i]
    BY DEF Stores, WriteWord, AddrRegs, Stored
  <2>2. w.regs = [r EXCEPT !.isr = i]
    BY <1>1, <1>3, <2>1
  <2> HIDE DEF i
  <2> HIDE DEF w
  <2>3. RegsOK(w.regs)
    BY <2>2 DEF RegsOK, RegNames
  <2>4. \A q, b \in Nat : Held(w.regs, q, b) = Held(r, q, b)
    BY <2>2 DEF Held, RegsOK, RegNames
  <2> QED BY <1>1, <1>2, <2>3, <2>4 DEF Recorded, w
<1>4. CASE a # \h64
  <2>1. Stores(r, off, v, a) = r
    BY <1>4 DEF Stores, WriteWord, QueueRegs
  <2> QED BY <1>1, <1>2, <2>1
<1> QED BY <1>3, <1>4

(* Whatever the word, the record follows the registers.                    *)
LEMMA WroteRecorded ==
    ASSUME NEW r, RegsOK(r), Recorded(shadow, r), NEW off \in Nat, NEW v \in Seq(Byte),
           kind = "blk" => off % 4 = 0
    PROVE  LET w == Wrote(kind, r, off, v)
           IN  RegsOK(w.regs) /\ Recorded(IF w.reset THEN <<>> ELSE Note(off, v), w.regs)
<1> DEFINE a == off - (off % 4)
           w == Wrote(kind, r, off, v)
<1> HIDE DEF a, w
<1>1. CASE a \in {\h14, \h24, \h30}
  BY <1>1, DeviceWordWritten DEF a, w
<1>2. CASE a = \h20
  BY <1>2, FeaturesWritten DEF a, w
<1>3. CASE a \in QueueRegs
  BY <1>3, QueueWordWritten DEF a, w
<1>4. CASE a = \h70
  BY <1>4, StatusWritten DEF a, w
<1>5. CASE a = \hc0
  BY <1>5, QueueResetWritten DEF a, w
<1>6. CASE a \notin {\h14, \h20, \h24, \h30, \h70, \hc0} \cup QueueRegs
  BY <1>6, OtherWritten DEF a, w
<1> QED BY <1>1, <1>2, <1>3, <1>4, <1>5, <1>6

(* What the devices do beside that: they look at queues, and the input     *)
(* device keeps what selects its configuration.                            *)
LEMMA VisitsOnly ==
    ASSUME NEW w, DOMAIN w = {"regs", "reset", "visits"}, NEW off, NEW v, NEW qs
    PROVE  /\ Visits(w, qs).regs = w.regs /\ Visits(w, qs).reset = w.reset
           /\ Notifies(w, off, v, qs).regs = w.regs /\ Notifies(w, off, v, qs).reset = w.reset
<1>1. \A x : Visits(w, x).regs = w.regs /\ Visits(w, x).reset = w.reset
  BY DEF Visits
<1>2. Notifies(w, off, v, qs) \in {w, Visits(w, <<Named(off, v)>>)}
  BY DEF Notifies
<1> QED BY <1>1, <1>2

SameWords(r, s) == /\ DOMAIN r = DOMAIN s
                   /\ r.dfs = s.dfs /\ r.drs = s.drs /\ r.qsel = s.qsel
                   /\ r.features = s.features /\ r.queue = s.queue
LEMMA SameWordsRecorded ==
    ASSUME NEW r, RegsOK(r), NEW s, SameWords(s, r), NEW t, Recorded(t, r)
    PROVE  RegsOK(s) /\ Recorded(t, s)
<1>1. RegsOK(s)
  BY DEF RegsOK, SameWords
<1>2. \A p, b \in Nat : Held(s, p, b) = Held(r, p, b)
  BY DEF Held, SameWords
<1> QED BY <1>1, <1>2 DEF Recorded

LEMMA WriteIs ==
    ASSUME kind \in Kinds, NEW r, RegsOK(r), NEW off \in Nat, NEW v,
           kind = "blk" => off % 4 = 0, RegsOK(Wrote(kind, r, off, v).regs)
    PROVE  /\ SameWords(Write(kind, r, off, v).regs, Wrote(kind, r, off, v).regs)
           /\ Write(kind, r, off, v).reset = Wrote(kind, r, off, v).reset
<1> DEFINE w == Wrote(kind, r, off, v)
           x == Write(kind, r, off, v)
<1>1. DOMAIN w = {"regs", "reset", "visits"}
  BY WroteIs
<1>2. \A y : y.regs = w.regs => SameWords(y.regs, w.regs)
  BY DEF SameWords
<1>3. /\ \A qs : Visits(w, qs).regs = w.regs /\ Visits(w, qs).reset = w.reset
      /\ \A qs : Notifies(w, off, v, qs).regs = w.regs /\ Notifies(w, off, v, qs).reset = w.reset
  BY <1>1, VisitsOnly
<1> HIDE DEF w
<1>4. CASE kind = "blk"
  <2>1. x = Notifies(w, off, v, {0})
    BY <1>4 DEF Write, blkWrite, w
  <2> QED BY <1>2, <1>3, <2>1 DEF w
<1>5. CASE kind = "console"
  <2>1. x = Notifies(w, off, v, {0, 1})
    BY <1>5 DEF Write, consoleWrite, w
  <2> QED BY <1>2, <1>3, <2>1 DEF w
<1>6. CASE kind = "net"
  <2>1. x \in {Notifies(w, off, v, {0, 1}), Visits(w, <<0>>)}
    BY <1>6 DEF Write, netWrite, w
  <2> QED BY <1>2, <1>3, <2>1 DEF w
<1>7. CASE kind = "rng"
  <2>1. x \in {Notifies(w, off, v, {0}), Visits(w, <<0>>)}
    BY <1>7 DEF Write, rngWrite, w
  <2> QED BY <1>2, <1>3, <2>1 DEF w
<1>8. CASE kind = "gpu"
  <2>1. \E qs : x \in {Notifies(w, off, v, {0, 1}), Visits(w, qs)}
    BY <1>8 DEF Write, gpuWrite, w
  <2> QED BY <1>2, <1>3, <2>1 DEF w
<1>9. CASE kind = "input"
  <2> DEFINE y == [w EXCEPT !.regs.config[off - \hff] = v[1], !.regs.gen = (@ + 1) % 256]
  <2>1. x \in {Notifies(w, off, v, {0, 1}), Visits(w, <<0>>), Visits(w, <<0, 1>>), y}
    BY <1>9 DEF Write, inputWrite, w
  <2>2. SameWords(y.regs, w.regs) /\ y.reset = w.reset
    <3>1. DOMAIN w.regs = RegNames
      BY DEF RegsOK, w
    <3> DEFINE R == [w.regs EXCEPT !.config[off - \hff] = v[1], !.gen = (@ + 1) % 256]
    <3>2. SameWords(R, w.regs)
      BY <3>1 DEF SameWords, RegNames
    <3>3. y.regs = R /\ y.reset = w.reset
      BY <1>1, <3>1 DEF RegNames
    <3> HIDE DEF R, y
    <3> QED BY <3>2, <3>3
  <2> HIDE DEF y
  <2> QED BY <1>2, <1>3, <2>1, <2>2 DEF w
<1> QED BY <1>4, <1>5, <1>6, <1>7, <1>8, <1>9 DEF Kinds, w

LEMMA WriteRecorded ==
    ASSUME kind \in Kinds, NEW r, RegsOK(r), Recorded(shadow, r), NEW off \in Nat, NEW v \in Seq(Byte)
    PROVE  LET w == Write(kind, r, off, v)
           IN  RegsOK(w.regs) /\ Recorded(IF w.reset THEN <<>> ELSE Note(off, v), w.regs)
<1>1. CASE kind = "blk" /\ off % 4 # 0
  <2>1. Write(kind, r, off, v) = [regs |-> r, reset |-> FALSE, visits |-> <<>>]
    BY <1>1 DEF Write, blkWrite
  <2>2. Note(off, v) = shadow
    BY <1>1 DEF Note
  <2> QED BY <2>1, <2>2
<1>2. CASE kind = "blk" => off % 4 = 0
  <2> DEFINE w == Wrote(kind, r, off, v)
             x == Write(kind, r, off, v)
             t == IF w.reset THEN <<>> ELSE Note(off, v)
  <2>1. RegsOK(w.regs) /\ Recorded(t, w.regs)
    BY <1>2, WroteRecorded
  <2>2. SameWords(x.regs, w.regs) /\ x.reset = w.reset
    BY <1>2, <2>1, WriteIs
  <2>3. t = IF x.reset THEN <<>> ELSE Note(off, v)
    BY <2>2
  <2> HIDE DEF w, x, t
  <2>4. RegsOK(x.regs) /\ Recorded(t, x.regs)
    BY <2>1, <2>2, SameWordsRecorded
  <2> QED BY <2>3, <2>4 DEF x
<1> QED BY <1>1, <1>2

-----------------------------------------------------------------------------
(* The record and the registers agree for good.                            *)
(* A device that a driver has set up, and its record of that.              *)
LiveHeld(num, p, b) ==
    IF p \in Queues /\ b = \h38 THEN <<num, 0, 0, 0>>
    ELSE IF (p \in Queues /\ b \in QueueRegs) \/ (p = 1 /\ b = \h20) THEN One4
    ELSE Zero4
LEMMA LiveWord ==
    ASSUME NEW num \in Byte, NEW p \in Nat, NEW b \in Nat, Aligned(b)
    PROVE  NotedWord(LiveNotes(num), p, b) = LiveHeld(num, p, b)
<1> DEFINE word == LiveHeld(num, p, b)
           notes == LiveNotes(num)
           known == (p \in Queues /\ b \in QueueRegs) \/ (p = 1 /\ b = \h20)
<1>1. ASSUME NEW i \in 1 .. 4  PROVE Noted(notes, <<p, b + i - 1>>) = word[i]
  <2> DEFINE k == <<p, b + i - 1>>
  <2>1. k[1] = p /\ k[2] = b + i - 1 /\ k[2] \in Nat
    OBVIOUS
  <2>2. \A a \in Nat, j \in 0 .. 3 : Aligned(a) /\ b + i - 1 = a + j => a = b /\ j = i - 1
    BY DEF Aligned
  <2>3. /\ \A a \in QueueRegs : a \in Nat /\ Aligned(a)
        /\ \h20 \notin QueueRegs /\ Aligned(\h20)
    BY AddrFacts DEF QueueRegs, AddrRegs, Aligned
  <2>4. k \in DOMAIN notes <=> known
    <3>1. k \in DOMAIN notes
          <=> \/ \E j \in 0 .. 3 : k = <<1, \h20 + j>>
              \/ \E q \in Queues, a \in QueueRegs, j \in 0 .. 3 : k = <<q, a + j>>
      BY DEF LiveNotes, QueueRegs
    <3>2. ASSUME NEW j \in 0 .. 3, k = <<1, \h20 + j>>  PROVE p = 1 /\ b = \h20
      BY <2>2, <2>3, <3>2
    <3>3. ASSUME NEW q \in Queues, NEW a \in QueueRegs, NEW j \in 0 .. 3, k = <<q, a + j>>
          PROVE  p \in Queues /\ b \in QueueRegs
      <4>1. p = q /\ b + i - 1 = a + j
        BY <3>3
      <4> QED BY <2>2, <2>3, <4>1
    <3>4. known => \/ \E j \in 0 .. 3 : k = <<1, \h20 + j>>
                   \/ \E q \in Queues, a \in QueueRegs, j \in 0 .. 3 : k = <<q, a + j>>
      <4>1. i - 1 \in 0 .. 3 /\ b + i - 1 = b + (i - 1)
        OBVIOUS
      <4>2. k = <<p, b + (i - 1)>>
        BY <4>1
      <4> HIDE DEF k
      <4> QED BY <4>1, <4>2
    <3> HIDE DEF k, notes
    <3> QED BY <3>1, <3>2, <3>3, <3>4
  <2>5. known => notes[k] = IF k[2] = \h38 THEN num
                            ELSE IF k[2] \in {\h20, \h44} \cup AddrRegs THEN 1 ELSE 0
    BY <2>4 DEF LiveNotes
  <2>6. k[2] = \h38 <=> b = \h38 /\ i = 1
    BY <2>1 DEF Aligned
  <2>7. k[2] \in {\h20, \h44} \cup AddrRegs <=> b \in {\h20, \h44} \cup AddrRegs /\ i = 1
    BY <2>1 DEF Aligned, AddrRegs
  <2>8. /\ <<num, 0, 0, 0>>[1] = num /\ (i # 1 => <<num, 0, 0, 0>>[i] = 0)
        /\ One4[1] = 1 /\ (i # 1 => One4[i] = 0) /\ Zero4[i] = 0
    BY DEF One4, Zero4
  <2>9. CASE known
    <3>1. Noted(notes, k) = notes[k]
      BY <2>4, <2>9 DEF Noted
    <3>2. CASE b = \h38
      <4>1. word = <<num, 0, 0, 0>>
        BY <2>9, <3>2 DEF LiveHeld
      <4>2. b \notin {\h20, \h44} \cup AddrRegs
        BY <3>2, AddrFacts
      <4> HIDE DEF k, notes, word, known
      <4>3. notes[k] = IF i = 1 THEN num ELSE 0
        BY <2>5, <2>6, <2>7, <2>9, <3>2, <4>2
      <4> QED BY <2>8, <3>1, <4>1, <4>3 DEF k, notes, word
    <3>3. CASE b # \h38
      <4>1. word = One4 /\ b \in {\h20, \h44} \cup AddrRegs
        BY <2>9, <3>3 DEF QueueRegs, LiveHeld
      <4> HIDE DEF k, notes, word, known
      <4>2. notes[k] = IF i = 1 THEN 1 ELSE 0
        BY <2>5, <2>6, <2>7, <2>9, <3>3, <4>1
      <4> QED BY <2>8, <3>1, <4>1, <4>2 DEF k, notes, word
    <3> QED BY <3>2, <3>3
  <2>10. CASE ~known
    <3>1. Noted(notes, k) = 0
      BY <2>4, <2>10 DEF Noted
    <3>2. word = Zero4
      BY <2>10 DEF QueueRegs, LiveHeld
    <3> QED BY <2>8, <3>1, <3>2
  <2> QED BY <2>9, <2>10
<1> HIDE DEF notes, word
<1>2. word \in Word4
  BY FewWords DEF word, LiveHeld, Word4, Byte
<1>3. NotedWord(notes, p, b) = [i \in 1 .. 4 |-> word[i]]
  BY <1>1 DEF NotedWord
<1> QED BY <1>2, <1>3 DEF Word4, notes, word

LEMMA LiveRegsRecorded ==
    ASSUME NEW num \in Byte
    PROVE  RegsOK(LiveRegs(kind, num)) /\ Recorded(LiveNotes(num), LiveRegs(kind, num))
<1> DEFINE r == LiveRegs(kind, num)
           word == <<num, 0, 0, 0>>
           live == LiveQueue(num)
<1>1. /\ DOMAIN r = RegNames /\ r.dfs = Zero4 /\ r.drs = Zero4 /\ r.qsel = Zero4
      /\ r.features = <<Zero4, One4>>
      /\ r.queue = [q \in Queues |-> LiveQueue(num)]
  BY DEF LiveRegs, NewRegs, RegNames, Queues
<1>2. word \in Word4
  BY DEF Word4, Byte
<1>3. /\ live.num = word /\ live.ready = TRUE /\ live.addr = [a \in AddrRegs |-> One4]
      /\ live \in QueueState
  BY <1>2, FewWords DEF LiveQueue, NoQueue, QueueState
<1>4. r.features \in [1 .. 2 -> Word4] /\ r.features[1] = Zero4 /\ r.features[2] = One4
  BY <1>1, FewWords
<1> HIDE DEF r, live
<1>5. RegsOK(r)
  BY <1>1, <1>3, <1>4, FewWords DEF RegsOK, live
<1>6. \A q \in Queues : r.queue[q] = live
  BY <1>1 DEF live
<1>7. ASSUME NEW p \in Nat, NEW b \in Nat, Aligned(b)
      PROVE  NotedWord(LiveNotes(num), p, b) = Held(r, p, b)
  <2> DEFINE held == LiveHeld(num, p, b)
  <2>2. \h14 \notin QueueRegs /\ \h20 \notin QueueRegs /\ \h24 \notin QueueRegs
        /\ \h30 \notin QueueRegs /\ \h38 \in QueueRegs
    BY DEF QueueRegs, AddrRegs
  <2>3. b \in QueueRegs => QueueWord(live, b) = IF b = \h38 THEN word ELSE One4
    BY <1>3, AddrFacts DEF QueueWord, QueueRegs
  <2>4. Held(r, p, b) = held
    <3>1. CASE p \in Queues /\ b \in QueueRegs
      <4>1. Held(r, p, b) = QueueWord(live, b)
        BY <1>6, <2>2, <3>1 DEF Held
      <4> QED BY <2>3, <3>1, <4>1 DEF LiveHeld
    <3>2. CASE p \in {0, 1} /\ b = \h20
      <4>1. Held(r, p, b) = r.features[p + 1]
        BY <3>2 DEF Held
      <4>2. r.features[p + 1] = IF p = 1 THEN One4 ELSE Zero4
        BY <1>4, <3>2
      <4> QED BY <2>2, <3>2, <4>1, <4>2 DEF LiveHeld
    <3>3. CASE ~(p \in Queues /\ b \in QueueRegs) /\ ~(p \in {0, 1} /\ b = \h20)
      <4>1. Held(r, p, b) = Zero4
        BY <1>1, <3>3 DEF Held
      <4>2. held = Zero4
        BY <2>2, <3>3 DEF LiveHeld
      <4> QED BY <4>1, <4>2
    <3> QED BY <3>1, <3>2, <3>3
  <2>5. NotedWord(LiveNotes(num), p, b) = held
    BY <1>7, LiveWord
  <2> QED BY <2>4, <2>5, Zenon
<1>8. Recorded(LiveNotes(num), r)
  BY <1>7 DEF Recorded
<1> QED BY <1>5, <1>8 DEF r

MachineOK == /\ kind \in Kinds
             /\ \A w \in sc.writes : w[1] \in Nat /\ w[2] \in Seq(Byte)
Agree == RegsOK(regs) /\ Recorded(shadow, regs)
RegsInv == MachineOK /\ Agree

LEMMA RegsInit == Init => RegsInv
<1> SUFFICES ASSUME Init  PROVE RegsInv
  OBVIOUS
<1>1. PICK i \in DOMAIN Scenarios : sc = Scenarios[i]
  BY DEF Init
<1>2. MachineOK
  BY <1>1, DevicesAssumption DEF MachineOK, kind, Byte
<1>3. CASE sc.live
  <2>1. sc.num \in Byte
    BY <1>1, DevicesAssumption DEF Byte
  <2>2. regs = LiveRegs(kind, sc.num) /\ shadow = LiveNotes(sc.num)
    BY <1>3 DEF Init
  <2>3. Agree
    BY <2>1, <2>2, LiveRegsRecorded DEF Agree
  <2> QED BY <1>2, <2>3 DEF RegsInv
<1>4. CASE ~sc.live
  <2>1. regs = NewRegs(kind) /\ shadow = <<>>
    BY <1>4 DEF Init
  <2>2. DOMAIN regs = RegNames
    BY <2>1 DEF NewRegs, RegNames
  <2>3. /\ regs.dfs = Zero4 /\ regs.drs = Zero4 /\ regs.features = <<Zero4, Zero4>>
        /\ regs.qsel = Zero4 /\ regs.queue = [q \in Queues |-> NoQueue]
    BY <2>1 DEF NewRegs, Queues
  <2>4. Agree
    BY <2>1, <2>2, <2>3, NewRegsRecorded DEF Agree
  <2> QED BY <1>2, <2>4 DEF RegsInv
<1> QED BY <1>3, <1>4

(* What serving a request does to the registers.                           *)
LEMMA ServedRecorded ==
    ASSUME NEW r, RegsOK(r), Recorded(shadow, r), NEW q, NEW b
    PROVE  /\ RegsOK([r EXCEPT !.status[1] = b])
           /\ Recorded(shadow, [r EXCEPT !.status[1] = b])
           /\ RegsOK([r EXCEPT !.status[1] = b, !.isr = 1, !.queue[q].last = @ + 1])
           /\ Recorded(shadow, [r EXCEPT !.status[1] = b, !.isr = 1, !.queue[q].last = @ + 1])
<1> DEFINE r1 == [r EXCEPT !.status[1] = b]
           r2 == [r EXCEPT !.status[1] = b, !.isr = 1, !.queue[q].last = @ + 1]
           queues == [r.queue EXCEPT ![q].last = @ + 1]
<1>1. SameWords(r1, r)
  BY DEF SameWords, RegsOK, RegNames
<1>2. /\ DOMAIN r2 = DOMAIN r /\ r2.queue = queues
      /\ r2.dfs = r.dfs /\ r2.drs = r.drs /\ r2.qsel = r.qsel /\ r2.features = r.features
  BY DEF RegsOK, RegNames
<1>3. queues \in [Queues -> QueueState]
  <2>1. r.queue \in [Queues -> QueueState]
    BY DEF RegsOK
  <2>2. ASSUME NEW x \in QueueState  PROVE [x EXCEPT !.last = @ + 1] \in QueueState
    BY DEF QueueState
  <2>3. \A p \in Queues : queues[p] = IF p = q THEN [r.queue[p] EXCEPT !.last = @ + 1] ELSE r.queue[p]
    BY <2>1
  <2>4. DOMAIN queues = Queues /\ queues = [p \in Queues |-> queues[p]]
    BY <2>1
  <2> HIDE DEF queues
  <2>5. \A p \in Queues : queues[p] \in QueueState
    BY <2>1, <2>2, <2>3
  <2> QED BY <2>4, <2>5
<1>4. \A p \in Queues, c \in QueueRegs : QueueWord(queues[p], c) = QueueWord(r.queue[p], c)
  <2>1. \A p \in Queues : /\ queues[p].num = r.queue[p].num /\ queues[p].ready = r.queue[p].ready
                          /\ queues[p].addr = r.queue[p].addr
    BY DEF RegsOK, QueueState
  <2> QED BY <2>1 DEF QueueWord
<1> HIDE DEF r1, r2, queues
<1>5. RegsOK(r2)
  BY <1>2, <1>3 DEF RegsOK
<1>6. \A p, c \in Nat : Held(r2, p, c) = Held(r, p, c)
  BY <1>2, <1>4 DEF Held
<1>7. Recorded(shadow, r2)
  BY <1>6 DEF Recorded
<1>8. RegsOK(r1) /\ Recorded(shadow, r1)
  BY <1>1, SameWordsRecorded
<1> QED BY <1>5, <1>7, <1>8 DEF r1, r2

LEMMA RegsStep == RegsInv /\ [Next]_vars => RegsInv'
<1> SUFFICES ASSUME RegsInv, [Next]_vars  PROVE RegsInv'
  OBVIOUS
<1> USE DEF RegsInv
<1>1. sc' = sc
  BY DEF Next, vars, Serve, Done, Port, UartRead, UartWrite, Claim, Complete, WriteRegister, Post, Inject
<1>2. MachineOK'
  BY <1>1 DEF MachineOK, kind
<1>3. RegsOK(regs') /\ Recorded(shadow', regs')
  <2> USE DEF Agree
  <2>1. CASE UNCHANGED <<regs, shadow>>
    BY <2>1
  <2>2. CASE Serve
    <3>1. shadow' = shadow
      BY <2>2 DEF Serve
    <3>2. \E q, b : regs' \in {[regs EXCEPT !.status[1] = b],
                              [regs EXCEPT !.status[1] = b, !.isr = 1, !.queue[q].last = @ + 1]}
      BY <2>2 DEF Serve
    <3>3. PICK q, b : \/ regs' = [regs EXCEPT !.status[1] = b]
                      \/ regs' = [regs EXCEPT !.status[1] = b, !.isr = 1, !.queue[q].last = @ + 1]
      BY <3>2
    <3> DEFINE r1 == [regs EXCEPT !.status[1] = b]
               r2 == [regs EXCEPT !.status[1] = b, !.isr = 1, !.queue[q].last = @ + 1]
    <3>4. RegsOK(r1) /\ Recorded(shadow, r1) /\ RegsOK(r2) /\ Recorded(shadow, r2)
      BY ServedRecorded, Zenon
    <3>5. regs' = r1 \/ regs' = r2
      BY <3>3, Zenon
    <3> HIDE DEF r1, r2
    <3> QED BY <3>1, <3>4, <3>5, Zenon
  <2>3. CASE \E w \in sc.writes : WriteRegister(w[1], w[2])
    <3>1. PICK w \in sc.writes : WriteRegister(w[1], w[2])
      BY <2>3
    <3> DEFINE off == w[1]
               v == w[2]
               x == Write(kind, regs, off, v)
    <3>2. off \in Nat /\ v \in Seq(Byte) /\ kind \in Kinds
      BY DEF MachineOK
    <3>3. regs' = x.regs /\ shadow' = IF x.reset THEN <<>> ELSE Note(off, v)
      BY <3>1 DEF WriteRegister
    <3> HIDE DEF off, v
    <3>4. RegsOK(x.regs) /\ Recorded(IF x.reset THEN <<>> ELSE Note(off, v), x.regs)
      BY <3>2, WriteRecorded
    <3> QED BY <3>3, <3>4
  <2> QED
    BY <2>1, <2>2, <2>3 DEF Next, vars, device, Done, Port, UartRead, UartWrite, Claim, Complete,
                            Post, Inject
<1>4. Agree'
  <2>1. Queues' = Queues
    BY <1>1 DEF Queues, QueueCount, kind
  <2>2. RegsOK(regs)'
    BY <1>3, <2>1 DEF RegsOK
  <2>3. Recorded(shadow, regs)'
    BY <1>3, <2>1 DEF Recorded, Held
  <2> QED BY <2>2, <2>3 DEF Agree
<1> QED BY <1>1, <1>2, <1>4

-----------------------------------------------------------------------------
(* Reading.                                                                *)
Readable4 == {\h14, \h20, \h24, \h30, \h38, \h44, \h80, \h94}
ReadAs(word, o, size) == [i \in 1 .. size |-> IF o + i <= 4 THEN word[o + i] ELSE 0]

LEMMA ReadOfWord ==
    ASSUME NEW word \in Word4, NEW o \in Nat, NEW size \in Nat
    PROVE  partialRead32(word, o, size) = ReadAs(word, o, size)
  BY LengthFour DEF partialRead32, ReadAs
LEMMA ReadOfNothing ==
    ASSUME NEW o \in 0 .. 3, NEW size \in Nat
    PROVE  Nothing(size) = ReadAs(Zero4, o, size)
<1>1. \A i \in 1 .. size : ~(0 + i <= Len(<<>>))
  BY EmptySeq
<1>2. \A i \in 1 .. size : o + i <= 4 => Zero4[o + i] = 0
  BY FewWords
<1> QED BY <1>1, <1>2 DEF Nothing, partialRead32, ReadAs

(* Behind a register is the word at the driver's place, or none and the    *)
(* driver has nothing there.                                               *)
LEMMA WordIsHeld ==
    ASSUME NEW r, RegsOK(r), Recorded(shadow, r), NEW a \in Readable4
    PROVE  LET word == NotedWord(shadow, Place(shadow, a), a)
           IN  word \in Word4 /\ (Word(kind, r, a) = {word} \/ (Word(kind, r, a) = {} /\ word = Zero4))
<1> DEFINE p == Place(shadow, a)
           word == NotedWord(shadow, p, a)
<1>1. a \in Nat /\ Aligned(a)
  BY DEF Readable4, Aligned
<1>2. /\ p \in Nat
      /\ p = IF a = \h20 THEN Small(r.drs)
             ELSE IF \/ a \in {\h38, \h44} /\ kind # "blk"
                     \/ a \in AddrRegs /\ QueueCount(kind) = 2
             THEN Small(r.qsel) ELSE 0
  BY <1>1, PlaceIs
<1> HIDE DEF p
<1>3. word = Held(r, p, a)
  BY <1>1, <1>2 DEF Recorded
<1>4. word \in Word4
  BY <1>1, <1>2, <1>3, HeldIsWord
<1> HIDE DEF word
<1>5. CASE a \in {\h14, \h24, \h30}
  <2>1. p = 0 /\ a \notin AddrRegs
    BY <1>2, <1>5 DEF AddrRegs
  <2>2. Word(kind, r, a) = {word}
    <3>1. CASE a = \h14
      BY <1>3, <2>1, <3>1 DEF Word, Held
    <3>2. CASE a = \h24
      BY <1>3, <2>1, <3>2 DEF Word, Held
    <3>3. CASE a = \h30
      BY <1>3, <2>1, <3>3 DEF Word, Held
    <3> QED BY <1>5, <3>1, <3>2, <3>3
  <2> QED BY <1>4, <2>2 DEF word, p
<1>6. CASE a = \h20
  <2>1. p = Small(r.drs) /\ a \notin AddrRegs
    BY <1>2, <1>6 DEF AddrRegs
  <2>2. Word(kind, r, a) = {r.features[s + 1] : s \in {p} \cap {0, 1}}
    BY <1>6, <2>1 DEF Word
  <2>3. CASE p \in {0, 1}
    <3>1. word = r.features[p + 1]
      BY <1>3, <1>6, <2>3 DEF Held
    <3>2. Word(kind, r, a) = {word}
      BY <2>2, <2>3, <3>1
    <3> QED BY <1>4, <3>2 DEF word, p
  <2>4. CASE p \notin {0, 1}
    <3>1. word = Zero4
      BY <1>3, <1>6, <2>1, <2>4, AddrFacts DEF Held, QueueRegs
    <3>2. Word(kind, r, a) = {}
      BY <2>2, <2>4
    <3> QED BY <1>4, <3>1, <3>2 DEF word, p
  <2> QED BY <2>3, <2>4
<1>7. CASE a \in {\h38, \h44, \h80, \h94}
  <2>1. a \in QueueRegs /\ a \notin {\h14, \h20, \h24, \h30} /\ DOMAIN r.queue = Queues
        /\ (a \in AddrRegs <=> a \in {\h80, \h94})
    BY <1>7 DEF QueueRegs, AddrRegs, RegsOK
  <2>2. Word(kind, r, a) = {QueueWord(r.queue[q], a) : q \in Selected(kind, r, a, TRUE)}
    <3>1. CASE a = \h38
      BY <3>1 DEF Word
    <3>2. CASE a = \h44
      BY <3>2 DEF Word
    <3>3. CASE a \in AddrRegs
      <4>1. a \notin {\h00, \h04, \h08, \h0c, \h10, \h14, \h20, \h24, \h30, \h34, \h60, \h70, \hfc}
        BY <3>3 DEF AddrRegs
      <4> QED BY <3>3, <4>1 DEF Word
    <3> QED BY <2>1, <3>1, <3>2, <3>3 DEF QueueRegs
  <2>3. Selected(kind, r, a, TRUE) = {p} \cap Queues
    <3>1. Selected(kind, r, a, TRUE) =
              IF \/ QueueCount(kind) = 1 /\ a \in AddrRegs
                 \/ kind = "blk" /\ a \in {\h38, \h44}
              THEN {0} ELSE {Small(r.qsel)} \cap Queues
      BY <2>1 DEF Selected
    <3>2. CASE a \in AddrRegs
      <4>1. a \notin {\h20, \h38, \h44}
        BY <3>2, AddrFacts DEF AddrRegs
      <4>2. CASE QueueCount(kind) = 1
        <5>1. p = 0
          BY <1>2, <4>1, <4>2
        <5>2. Selected(kind, r, a, TRUE) = {0}
          BY <3>1, <3>2, <4>2
        <5> QED BY <5>1, <5>2, KindFacts
      <4>3. CASE QueueCount(kind) = 2
        <5>1. p = Small(r.qsel)
          BY <1>2, <3>2, <4>1, <4>3
        <5>2. QueueCount(kind) # 1
          BY <4>3
        <5>3. Selected(kind, r, a, TRUE) = {Small(r.qsel)} \cap Queues
          BY <3>1, <4>1, <5>2
        <5> QED BY <5>1, <5>3
      <4> QED BY <4>2, <4>3, KindFacts
    <3>3. CASE a \notin AddrRegs
      <4>1. a \in {\h38, \h44} /\ a # \h20
        BY <1>7, <2>1, <3>3
      <4>2. CASE kind = "blk"
        <5>1. p = 0
          BY <1>2, <3>3, <4>1, <4>2
        <5>2. Selected(kind, r, a, TRUE) = {0}
          BY <3>1, <4>1, <4>2
        <5> QED BY <5>1, <5>2, KindFacts
      <4>3. CASE kind # "blk"
        <5>1. p = Small(r.qsel)
          BY <1>2, <4>1, <4>3
        <5>2. Selected(kind, r, a, TRUE) = {Small(r.qsel)} \cap Queues
          BY <3>1, <3>3, <4>3
        <5> QED BY <5>1, <5>2
      <4> QED BY <4>2, <4>3
    <3> QED BY <3>2, <3>3
  <2>4. CASE p \in Queues
    <3>1. word = QueueWord(r.queue[p], a)
      BY <1>3, <2>1, <2>4 DEF Held
    <3>2. Word(kind, r, a) = {word}
      BY <2>2, <2>3, <2>4, <3>1
    <3> QED BY <1>4, <3>2 DEF word, p
  <2>5. CASE p \notin Queues
    <3>1. word = Zero4
      BY <1>3, <2>1, <2>5 DEF Held
    <3>2. Word(kind, r, a) = {}
      BY <2>2, <2>3, <2>5
    <3> QED BY <1>4, <3>1, <3>2 DEF word, p
  <2> QED BY <2>4, <2>5
<1> QED BY <1>5, <1>6, <1>7 DEF Readable4

LEMMA ReadOrHeld ==
    ASSUME NEW r, RegsOK(r), Recorded(shadow, r), NEW a \in Readable4, NEW o \in 0 .. 3, NEW size \in Nat
    PROVE  ReadOr(kind, r, a + o, size, Nothing(size))
           = ReadAs(NotedWord(shadow, Place(shadow, a), a), o, size)
<1> DEFINE word == NotedWord(shadow, Place(shadow, a), a)
<1>1. (a + o) % 4 = o /\ (a + o) - ((a + o) % 4) = a
  BY DEF Readable4
<1>2. word \in Word4 /\ (Word(kind, r, a) = {word} \/ (Word(kind, r, a) = {} /\ word = Zero4))
  BY WordIsHeld
<1> HIDE DEF word
<1>3. ReadOr(kind, r, a + o, size, Nothing(size)) =
          IF Word(kind, r, a) = {} THEN Nothing(size)
          ELSE partialRead32(CHOOSE w \in Word(kind, r, a) : TRUE, o, size)
  <2> DEFINE off == a + o
  <2>1. off % 4 = o /\ off - (off % 4) = a
    BY <1>1
  <2> HIDE DEF off
  <2>2. ReadOr(kind, r, off, size, Nothing(size)) =
            IF Word(kind, r, off - (off % 4)) = {} THEN Nothing(size)
            ELSE partialRead32(CHOOSE w \in Word(kind, r, off - (off % 4)) : TRUE, off % 4, size)
    BY Zenon DEF ReadOr
  <2> QED BY <2>1, <2>2, Zenon DEF off
<1>4. CASE Word(kind, r, a) = {word}
  <2>1. (CHOOSE w \in Word(kind, r, a) : TRUE) = word
    BY <1>4
  <2>2. Word(kind, r, a) # {}
    BY <1>4
  <2> QED BY <1>2, <1>3, <2>1, <2>2, ReadOfWord DEF word
<1>5. CASE Word(kind, r, a) = {} /\ word = Zero4
  BY <1>3, <1>5, ReadOfNothing DEF word
<1> QED BY <1>2, <1>4, <1>5

(* Every device answers for these registers alike, but for the disk at     *)
(* offsets that are not aligned.                                           *)
LEMMA ReadIs ==
    ASSUME kind \in Kinds, NEW r, NEW off \in Nat, off < \h100, NEW size \in Nat
    PROVE  Read(kind, r, off, size) = IF kind = "blk" /\ off % 4 # 0 THEN Nothing(size)
                                      ELSE ReadOr(kind, r, off, size, Nothing(size))
<1>1. off \notin \h100 .. \h107 /\ off \notin \h100 .. \h105 /\ off \notin \h106 .. \h107
      /\ off \notin \h100 .. \h17f
  OBVIOUS
<1>2. off - (off % 4) # \h100 /\ off - (off % 4) # \h104 /\ off - (off % 4) # \h108
  OBVIOUS
<1>3. CASE kind = "blk"
  BY <1>1, <1>3 DEF Read, blkRead
<1>4. CASE kind = "console"
  BY <1>2, <1>4 DEF Read, consoleRead
<1>5. CASE kind = "net"
  BY <1>1, <1>5 DEF Read, netRead
<1>6. CASE kind = "rng"
  BY <1>6 DEF Read, rngRead
<1>7. CASE kind = "input"
  BY <1>1, <1>7 DEF Read, inputRead
<1>8. CASE kind = "gpu"
  BY <1>2, <1>8 DEF Read, gpuRead
<1> QED BY <1>3, <1>4, <1>5, <1>6, <1>7, <1>8 DEF Kinds

LEMMA ReadsFromInv == RegsInv => ReadsSeeWrites
<1> SUFFICES ASSUME RegsInv, NEW a \in Readable4,
                    NEW w \in {<<0, 4>>, <<1, 1>>, <<2, 4>>, <<0, 8>>}
             PROVE  LET off == a + w[1]
                        word == IF kind = "blk" /\ off % 4 # 0 THEN Zero4
                                ELSE NotedWord(shadow, Place(shadow, a), a)
                    IN  Read(kind, regs, off, w[2])
                        = [i \in 1 .. w[2] |-> IF w[1] + i <= 4 THEN word[w[1] + i] ELSE 0]
  BY DEF ReadsSeeWrites, Readable4
<1> DEFINE o == w[1]
           size == w[2]
           off == a + o
<1>1. o \in 0 .. 3 /\ size \in Nat
  OBVIOUS
<1>2. off \in Nat /\ off < \h100
  BY <1>1 DEF Readable4
<1>3. kind \in Kinds /\ RegsOK(regs) /\ Recorded(shadow, regs)
  BY DEF RegsInv, MachineOK, Agree
<1> HIDE DEF o, size
<1>4. CASE kind = "blk" /\ off % 4 # 0
  <2>1. Read(kind, regs, off, size) = ReadAs(Zero4, o, size)
    BY <1>1, <1>2, <1>3, <1>4, ReadIs, ReadOfNothing
  <2> QED BY <1>4, <2>1 DEF ReadAs, o, size
<1>5. CASE ~(kind = "blk" /\ off % 4 # 0)
  <2>1. Read(kind, regs, off, size) = ReadOr(kind, regs, off, size, Nothing(size))
    BY <1>1, <1>2, <1>3, <1>5, ReadIs
  <2>2. Read(kind, regs, off, size) = ReadAs(NotedWord(shadow, Place(shadow, a), a), o, size)
    BY <1>1, <1>3, <2>1, ReadOrHeld
  <2> QED BY <1>5, <2>2 DEF ReadAs, o, size
<1> QED BY <1>4, <1>5

(* A driver reads in every device the bytes it last wrote, whatever the    *)
(* width, the offset and the order of its writes and whatever it selected  *)
(* between them: partialWrite32 and the register files of virtio_*.go.     *)
THEOREM ReadsWhatWasWritten == Spec => []ReadsSeeWrites
<1>1. Init => RegsInv
  BY RegsInit
<1>2. RegsInv /\ [Next]_vars => RegsInv'
  BY RegsStep
<1>3. RegsInv => ReadsSeeWrites
  BY ReadsFromInv
<1> QED BY <1>1, <1>2, <1>3, PTL DEF Spec

-----------------------------------------------------------------------------
(* What passes through the queues: recursive functions and the units of a chain. *)
Associates(T) == \A a, b, c \in T : (a \o b) \o c = a \o (b \o c)
LEMMA Associative ==
    ASSUME NEW S
    PROVE  Associates(Seq(S))
<1> QED BY ConcatAssociative DEF Associates

LEMMA LeastNatural ==
    ASSUME NEW T \in SUBSET Nat, T # {}
    PROVE  \E m \in T : \A n \in T : m <= n
<1>1. PICK m \in T : \A n \in T : <<n, m>> \notin OpToRel(<, Nat)
  BY NatLessThanWellFounded, WFMin, Zenon
<1>2. ASSUME NEW n \in T, n < m  PROVE <<n, m>> \in OpToRel(<, Nat)
  <2>1. <<n, m>> \in Nat \X Nat /\ <<n, m>>[1] < <<n, m>>[2]
    BY <1>2
  <2> QED BY <2>1, Zenon DEF OpToRel
<1>3. \A n \in T : ~(n < m)
  BY <1>1, <1>2, Zenon
<1> QED BY <1>3

(* What holds at 0 and is carried on by each step holds at the end.        *)
LEMMA Carried ==
    ASSUME NEW n \in Nat, NEW S, NEW f,
           f[0] \in S, \A i \in 1 .. n : f[i - 1] \in S => f[i] \in S
    PROVE  f[n] \in S
<1> SUFFICES ASSUME f[n] \notin S  PROVE FALSE
  OBVIOUS
<1> DEFINE Bad == {i \in 0 .. n : f[i] \notin S}
<1>1. Bad \in SUBSET Nat /\ n \in Bad
  OBVIOUS
<1>2. PICK m \in Bad : \A i \in Bad : m <= i
  <2>1. \E m \in Bad : \A i \in Bad : m <= i
    BY <1>1, LeastNatural, Zenon
  <2> QED BY <2>1
<1>3. m \in 1 .. n
  BY <1>2
<1>4. m - 1 \in 0 .. n /\ m - 1 \notin Bad
  BY <1>2, <1>3
<1> QED BY <1>2, <1>3, <1>4

(* A function of 0 .. n is defined by its value at 0 and a step.           *)
Unrolls(f, n, s, g) ==
    f = [i \in 0 .. n |-> IF i = 0 THEN s ELSE g[<<f[i - 1], i>>]]
LEMMA Recursion ==
    ASSUME NEW n \in Nat, NEW S, NEW s \in S, NEW g \in [S \X (1 .. n) -> S]
    PROVE  \E f \in [0 .. n -> S] : Unrolls(f, n, s, g)
<1> DEFINE Upto(m) == \E f \in [0 .. m -> S] : Unrolls(f, m, s, g)
           Bad == {m \in 0 .. n : ~Upto(m)}
<1> SUFFICES ASSUME Bad # {}  PROVE FALSE
  OBVIOUS
<1>1. PICK m \in Bad : \A i \in Bad : m <= i
  <2>1. Bad \in SUBSET Nat
    OBVIOUS
  <2>2. \E m \in Bad : \A i \in Bad : m <= i
    BY <2>1, LeastNatural, Zenon
  <2> QED BY <2>2
<1>2. CASE m = 0
  <2>1. [i \in 0 .. 0 |-> s] \in [0 .. 0 -> S] /\ Unrolls([i \in 0 .. 0 |-> s], 0, s, g)
    BY DEF Unrolls
  <2> QED BY <1>1, <1>2, <2>1
<1>3. CASE m # 0
  <2>1. m \in 1 .. n /\ m - 1 \in 0 .. n /\ m - 1 \notin Bad
    BY <1>1, <1>3
  <2>2. PICK f \in [0 .. m - 1 -> S] : Unrolls(f, m - 1, s, g)
    BY <2>1
  <2> DEFINE h == [i \in 0 .. m |-> IF i = m THEN g[<<f[m - 1], m>>] ELSE f[i]]
  <2>3. h \in [0 .. m -> S]
    BY <2>1, <2>2
  <2>4. \A i \in 0 .. m - 1 : f[i] = IF i = 0 THEN s ELSE g[<<f[i - 1], i>>]
    BY <2>1, <2>2 DEF Unrolls
  <2>5. ASSUME NEW i \in 0 .. m  PROVE h[i] = IF i = 0 THEN s ELSE g[<<h[i - 1], i>>]
    <3>1. CASE i = m
      <4>1. h[m] = g[<<f[m - 1], m>>] /\ h[m - 1] = f[m - 1]
        BY <2>1
      <4> QED BY <1>3, <3>1, <4>1
    <3>2. CASE i # m
      <4>1. i \in 0 .. m - 1 /\ h[i] = f[i] /\ (i # 0 => h[i - 1] = f[i - 1])
        BY <2>1, <3>2
      <4> QED BY <2>4, <4>1
    <3> QED BY <3>1, <3>2
  <2>6. Unrolls(h, m, s, g)
    BY <2>3, <2>5 DEF Unrolls
  <2> QED BY <1>1, <2>3, <2>6
<1> QED BY <1>2, <1>3

(* The same for sets that go along.                                        *)
LEMMA CarriedAlong ==
    ASSUME NEW n \in Nat, NEW I, NEW f,
           f[0] \in I[0], \A i \in 1 .. n : f[i - 1] \in I[i - 1] => f[i] \in I[i]
    PROVE  f[n] \in I[n]
<1> DEFINE T == {i \in 0 .. n : f[i] \in I[i]}
           g == [i \in 0 .. n |-> i]
<1>1. g[0] \in T
  OBVIOUS
<1>2. \A i \in 1 .. n : g[i - 1] \in T => g[i] \in T
  OBVIOUS
<1> HIDE DEF T, g
<1>3. g[n] \in T
  BY <1>1, <1>2, Carried
<1> QED BY <1>3 DEF T, g

-----------------------------------------------------------------------------
(* Where the units of a chain lie.                                         *)
Part(d, flag) == IF d.write = flag THEN [i \in 1 .. d.len |-> d.addr + i - 1] ELSE <<>>
LEMMA PartIs ==
    ASSUME NEW d \in Descriptors, NEW flag \in BOOLEAN
    PROVE  /\ Part(d, flag) \in Seq(Nat)
           /\ Len(Part(d, flag)) = IF d.write = flag THEN d.len ELSE 0
           /\ \A i \in 1 .. Len(Part(d, flag)) : /\ d.write = flag /\ Part(d, flag)[i] = d.addr + i - 1
                                                /\ Part(d, flag)[i] \in Span(d)
<1>1. d.len \in Nat /\ d.addr \in Nat
  BY DEF Descriptors
<1>2. CASE d.write = flag
  <2>1. Part(d, flag) = [i \in 1 .. d.len |-> d.addr + i - 1]
    BY <1>2 DEF Part
  <2>2. Part(d, flag) \in [1 .. d.len -> Nat]
    BY <1>1, <2>1
  <2>3. Part(d, flag) \in Seq(Nat) /\ Len(Part(d, flag)) = d.len
    <3>1. Part(d, flag) \in Seq(Nat)
      BY <1>1, <2>2, SeqDef
    <3>2. DOMAIN Part(d, flag) = 1 .. Len(Part(d, flag)) /\ Len(Part(d, flag)) \in Nat
      BY <3>1, LenProperties
    <3>3. DOMAIN Part(d, flag) = 1 .. d.len
      BY <2>1
    <3> QED BY <1>1, <3>1, <3>2, <3>3
  <2> QED BY <1>1, <1>2, <2>1, <2>3 DEF Span
<1>3. CASE d.write # flag
  <2>1. Part(d, flag) = <<>>
    BY <1>3 DEF Part
  <2> QED BY <1>3, <2>1, EmptySeq
<1> QED BY <1>2, <1>3

LEMMA PlacesRun ==
    ASSUME NEW descs \in Seq(Descriptors), NEW flag \in BOOLEAN
    PROVE  \E f \in [0 .. Len(descs) -> Seq(Nat)] :
              /\ f[0] = <<>> /\ Places(descs, flag) = f[Len(descs)]
              /\ \A i \in 1 .. Len(descs) : f[i] = f[i - 1] \o Part(descs[i], flag)
<1> DEFINE n == Len(descs)
           S == Seq(Nat)
           Next1(x, i) == x \o Part(descs[i], flag)
           g == [z \in S \X (1 .. n) |-> Next1(z[1], z[2])]
           Is(f) == f = [i \in 0 .. n |-> IF i = 0 THEN <<>> ELSE Next1(f[i - 1], i)]
<1>1. n \in Nat /\ <<>> \in S
  BY EmptySeq
<1>2. ASSUME NEW x \in S, NEW i \in 1 .. n  PROVE Next1(x, i) \in S
  <2>1. descs[i] \in Descriptors
    BY ElementOfSeq
  <2>2. Part(descs[i], flag) \in Seq(Nat)
    BY <2>1, PartIs
  <2> QED BY <2>2, ConcatProperties
<1> HIDE DEF Next1
<1>3. g \in [S \X (1 .. n) -> S]
  BY <1>2
<1>4. PICK f \in [0 .. n -> S] : Unrolls(f, n, <<>>, g)
  <2> HIDE DEF n, g, S
  <2> QED BY <1>1, <1>3, Recursion
<1>5. Is(f)
  <2>1. \A i \in 1 .. n : g[<<f[i - 1], i>>] = Next1(f[i - 1], i)
    <3> HIDE DEF n, S
    <3>1. \A i \in 1 .. n : f[i - 1] \in S
      BY <1>1, <1>4
    <3> QED BY <3>1
  <2>2. f = [i \in 0 .. n |-> IF i = 0 THEN <<>> ELSE g[<<f[i - 1], i>>]]
    BY <1>4 DEF Unrolls
  <2> HIDE DEF g, n
  <2>3. \A i \in 0 .. n : (IF i = 0 THEN <<>> ELSE g[<<f[i - 1], i>>])
                          = (IF i = 0 THEN <<>> ELSE Next1(f[i - 1], i))
    BY <1>1, <2>1
  <2> QED BY <2>2, <2>3
<1> DEFINE r == CHOOSE h : Is(h)
<1>6. Is(r)
  BY <1>5, Zenon
<1>7. Places(descs, flag) = r[n]
  BY Zenon DEF Places, Next1, Part
<1> HIDE DEF r
<1>8. r[0] = <<>> /\ \A i \in 1 .. n : r[i] = Next1(r[i - 1], i)
  BY <1>1, <1>6
<1>9. \A i \in 0 .. n : r[i] \in S
  <2> SUFFICES ASSUME NEW m \in 0 .. n  PROVE r[m] \in S
    OBVIOUS
  <2>1. r[0] \in S /\ \A i \in 1 .. m : r[i - 1] \in S => r[i] \in S
    <3> HIDE DEF n, S
    <3>1. \A i \in 1 .. m : i \in 1 .. n
      BY <1>1
    <3> QED BY <1>1, <1>2, <1>8, <3>1
  <2> HIDE DEF n, S
  <2> QED BY <1>1, <2>1, Carried
<1>10. r \in [0 .. n -> S]
  BY <1>6, <1>9
<1> QED BY <1>7, <1>8, <1>10 DEF Next1

(* W is how many units the first descriptors make, L the places of all.    *)
Laid(descs, flag, W, L) ==
    LET n == Len(descs)
    IN  /\ W \in [0 .. n -> Nat] /\ W[0] = 0 /\ L \in Seq(Nat) /\ Len(L) = W[n]
        /\ \A i \in 1 .. n : W[i] = W[i - 1] + (IF descs[i].write = flag THEN descs[i].len ELSE 0)
        /\ \A i \in 0 .. n : W[i] <= W[n]
        /\ \A i \in 1 .. n : descs[i].write = flag =>
              \A j \in 1 .. descs[i].len : L[W[i - 1] + j] = descs[i].addr + j - 1
        /\ \A i \in 0 .. n : \A k \in 1 .. W[i] :
              \E j \in 1 .. i : descs[j].write = flag /\ L[k] \in Span(descs[j])
LEMMA LaidOut ==
    ASSUME NEW descs \in Seq(Descriptors), NEW flag \in BOOLEAN
    PROVE  \E W : Laid(descs, flag, W, Places(descs, flag))
<1> DEFINE n == Len(descs)
           L == Places(descs, flag)
           part(i) == Part(descs[i], flag)
<1>1. n \in Nat /\ \A i \in 1 .. n : descs[i] \in Descriptors
  BY ElementOfSeq
<1>2. PICK f \in [0 .. n -> Seq(Nat)] : /\ f[0] = <<>> /\ L = f[n]
                                        /\ \A i \in 1 .. n : f[i] = f[i - 1] \o part(i)
  BY PlacesRun
<1> DEFINE W == [i \in 0 .. n |-> Len(f[i])]
<1>3. ASSUME NEW i \in 1 .. n
      PROVE  /\ part(i) \in Seq(Nat) /\ f[i - 1] \in Seq(Nat) /\ f[i] = f[i - 1] \o part(i)
             /\ Len(part(i)) = IF descs[i].write = flag THEN descs[i].len ELSE 0
             /\ \A k \in 1 .. Len(part(i)) : /\ descs[i].write = flag
                                            /\ part(i)[k] = descs[i].addr + k - 1
                                            /\ part(i)[k] \in Span(descs[i])
  <2> HIDE DEF n
  <2>1. f[i - 1] \in Seq(Nat)
    BY <1>1, <1>2
  <2>2. f[i] = f[i - 1] \o part(i)
    BY <1>2
  <2>3. descs[i] \in Descriptors
    BY <1>1
  <2>4. /\ part(i) \in Seq(Nat)
        /\ Len(part(i)) = IF descs[i].write = flag THEN descs[i].len ELSE 0
        /\ \A k \in 1 .. Len(part(i)) : /\ descs[i].write = flag
                                         /\ part(i)[k] = descs[i].addr + k - 1
                                         /\ part(i)[k] \in Span(descs[i])
    BY <2>3, PartIs
  <2> QED BY <2>1, <2>2, <2>4
<1> HIDE DEF n, L, part
<1>4. ASSUME NEW i \in 1 .. n
      PROVE  /\ Len(f[i]) = Len(f[i - 1]) + Len(part(i)) /\ Len(f[i - 1]) \in Nat /\ Len(part(i)) \in Nat
             /\ \A k \in 1 .. Len(f[i]) : f[i][k] = IF k <= Len(f[i - 1]) THEN f[i - 1][k]
                                                    ELSE part(i)[k - Len(f[i - 1])]
  <2> DEFINE a == f[i - 1]
             b == part(i)
  <2>1. a \in Seq(Nat) /\ b \in Seq(Nat) /\ f[i] = a \o b
    BY <1>3
  <2> HIDE DEF a, b
  <2>2. /\ Len(a \o b) = Len(a) + Len(b) /\ Len(a) \in Nat /\ Len(b) \in Nat
        /\ \A k \in 1 .. Len(a) + Len(b) : (a \o b)[k] = IF k <= Len(a) THEN a[k] ELSE b[k - Len(a)]
    BY <2>1, ConcatProperties, LenProperties
  <2> QED BY <2>1, <2>2 DEF a, b
<1>5. \A i \in 0 .. n : Len(f[i]) \in Nat
  BY <1>2, LenProperties
<1>6. ASSUME NEW m \in 0 .. n  PROVE Len(f[m]) <= Len(L) /\ \A k \in 1 .. Len(f[m]) : L[k] = f[m][k]
  <2> DEFINE T == {x \in Seq(Nat) : Len(f[m]) <= Len(x) /\ \A k \in 1 .. Len(f[m]) : x[k] = f[m][k]}
             h == [j \in 0 .. n - m |-> f[m + j]]
  <2>1. n - m \in Nat /\ h[0] = f[m] /\ h[n - m] = f[n]
    BY <1>1
  <2>2. h[0] \in T
    <3> HIDE DEF h
    <3> QED BY <1>2, <1>5, <2>1
  <2>3. ASSUME NEW j \in 1 .. n - m, h[j - 1] \in T  PROVE h[j] \in T
    <3>1. m + j \in 1 .. n /\ h[j] = f[m + j] /\ h[j - 1] = f[(m + j) - 1] /\ m + j \in 0 .. n
      <4>1. m + j \in 1 .. n /\ m + j \in 0 .. n /\ j \in 0 .. n - m /\ j - 1 \in 0 .. n - m
            /\ m + (j - 1) = (m + j) - 1
        BY <1>1
      <4>2. h[j] = f[m + j] /\ h[j - 1] = f[m + (j - 1)]
        BY <4>1
      <4> QED BY <4>1, <4>2
    <3> DEFINE i == m + j
    <3>2. Len(f[m]) <= Len(f[i - 1]) /\ \A k \in 1 .. Len(f[m]) : f[i - 1][k] = f[m][k]
      BY <2>3, <3>1
    <3>3. /\ Len(f[i]) = Len(f[i - 1]) + Len(part(i)) /\ Len(f[i - 1]) \in Nat /\ Len(part(i)) \in Nat
          /\ \A k \in 1 .. Len(f[i]) : f[i][k] = IF k <= Len(f[i - 1]) THEN f[i - 1][k]
                                                 ELSE part(i)[k - Len(f[i - 1])]
      BY <1>4, <3>1
    <3>4. f[i] \in Seq(Nat) /\ Len(f[m]) \in Nat
      BY <1>2, <1>5, <3>1
    <3> HIDE DEF i, h
    <3>5. Len(f[m]) <= Len(f[i])
      BY <3>2, <3>3, <3>4
    <3>6. ASSUME NEW k \in 1 .. Len(f[m])  PROVE f[i][k] = f[m][k]
      <4>1. k \in 1 .. Len(f[i]) /\ k <= Len(f[i - 1])
        <5>1. Len(f[m]) \in Nat /\ Len(f[m]) <= Len(f[i - 1]) /\ Len(f[i]) \in Nat /\ Len(f[i - 1]) \in Nat
              /\ Len(f[m]) <= Len(f[i])
          BY <3>2, <3>3, <3>4, <3>5
        <5> QED BY <5>1
      <4> QED BY <3>2, <3>3, <4>1
    <3> QED BY <3>1, <3>4, <3>5, <3>6 DEF i
  <2> HIDE DEF T, h
  <2>4. h[n - m] \in T
    BY <2>1, <2>2, <2>3, Carried
  <2> QED BY <1>2, <2>1, <2>4 DEF T
<1>7. ASSUME NEW m \in 0 .. n, NEW k \in 1 .. Len(f[m])
      PROVE  \E j \in 1 .. m : descs[j].write = flag /\ f[m][k] \in Span(descs[j])
  <2> DEFINE Good(i, x) == \A l \in 1 .. Len(x) : \E j \in 1 .. i : descs[j].write = flag /\ x[l] \in Span(descs[j])
             I == [i \in 0 .. n |-> {x \in Seq(Nat) : Good(i, x)}]
  <2>1. f[0] \in I[0]
    BY <1>1, <1>2, EmptySeq
  <2>2. ASSUME NEW i \in 1 .. m, f[i - 1] \in I[i - 1]  PROVE f[i] \in I[i]
    <3>1. i \in 1 .. n /\ i - 1 \in 0 .. n /\ i \in 0 .. n
      BY <1>1
    <3>2. Good(i - 1, f[i - 1])
      BY <2>2, <3>1
    <3>3. ASSUME NEW l \in 1 .. Len(f[i])
          PROVE  \E j \in 1 .. i : descs[j].write = flag /\ f[i][l] \in Span(descs[j])
      <4>1. CASE l <= Len(f[i - 1])
        <5>1. l \in 1 .. Len(f[i - 1]) /\ f[i][l] = f[i - 1][l]
          BY <1>4, <3>1, <4>1
        <5>2. PICK j \in 1 .. i - 1 : descs[j].write = flag /\ f[i - 1][l] \in Span(descs[j])
          BY <3>2, <5>1
        <5> QED BY <5>1, <5>2
      <4>2. CASE ~(l <= Len(f[i - 1]))
        <5>1. l - Len(f[i - 1]) \in 1 .. Len(part(i)) /\ f[i][l] = part(i)[l - Len(f[i - 1])]
          BY <1>4, <3>1, <4>2
        <5>2. descs[i].write = flag /\ f[i][l] \in Span(descs[i])
          BY <1>3, <3>1, <5>1
        <5> QED BY <5>2
      <4> QED BY <4>1, <4>2
    <3>4. f[i] \in Seq(Nat) /\ Good(i, f[i])
      BY <1>2, <3>1, <3>3
    <3> HIDE DEF Good
    <3> QED BY <3>1, <3>4
  <2>3. m \in Nat /\ m \in 0 .. n
    BY <1>1
  <2> HIDE DEF I
  <2>4. f[m] \in I[m]
    BY <2>1, <2>2, <2>3, CarriedAlong
  <2>5. Good(m, f[m])
    BY <2>3, <2>4 DEF I
  <2> QED BY <2>5
<1>8. W \in [0 .. n -> Nat] /\ W[0] = 0 /\ L \in Seq(Nat) /\ Len(L) = W[n]
  BY <1>1, <1>2, <1>5, EmptySeq
<1>9. ASSUME NEW i \in 1 .. n
      PROVE  W[i] = W[i - 1] + (IF descs[i].write = flag THEN descs[i].len ELSE 0)
  <2>1. W[i] = Len(f[i]) /\ W[i - 1] = Len(f[i - 1])
    BY <1>1
  <2> HIDE DEF W
  <2> QED BY <1>3, <1>4, <2>1
<1>10. \A i \in 0 .. n : W[i] <= W[n]
  BY <1>1, <1>2, <1>6
<1>11. ASSUME NEW i \in 1 .. n, descs[i].write = flag, NEW j \in 1 .. descs[i].len
       PROVE  L[W[i - 1] + j] = descs[i].addr + j - 1
  <2>1. Len(part(i)) = descs[i].len /\ W[i - 1] = Len(f[i - 1]) /\ i \in 0 .. n
    <3>1. i \in 0 .. n /\ i - 1 \in 0 .. n
      BY <1>1
    <3> QED BY <1>3, <1>11, <3>1
  <2> HIDE DEF W
  <2>2. W[i - 1] + j \in 1 .. Len(f[i])
    <3>1. Len(f[i]) = Len(f[i - 1]) + Len(part(i)) /\ Len(f[i - 1]) \in Nat /\ Len(part(i)) \in Nat
      BY <1>4
    <3> QED BY <2>1, <3>1
  <2>3. f[i][W[i - 1] + j] = part(i)[j]
    BY <1>4, <2>1, <2>2
  <2> QED BY <1>3, <1>6, <2>1, <2>2, <2>3
<1>12. ASSUME NEW i \in 0 .. n, NEW k \in 1 .. W[i]
       PROVE  \E j \in 1 .. i : descs[j].write = flag /\ L[k] \in Span(descs[j])
  BY <1>6, <1>7
<1> HIDE DEF W
<1> QED BY <1>8, <1>9, <1>10, <1>11, <1>12 DEF Laid, n, L

-----------------------------------------------------------------------------
(* Transfers.                                                              *)
LEMMA ReachableIs ==
    ASSUME NEW mem, NEW addr \in Nat, NEW n \in Nat
    PROVE  /\ Reachable(mem, addr, n) \in 0 .. n
           /\ \A i \in 0 .. Reachable(mem, addr, n) - 1 : addr + i \in DOMAIN mem
           /\ Reachable(mem, addr, n) = n \/ addr + Reachable(mem, addr, n) \notin DOMAIN mem
<1> DEFINE T == {i \in 0 .. n : i = n \/ addr + i \notin DOMAIN mem}
           Is(k) == /\ \A i \in 0 .. k - 1 : addr + i \in DOMAIN mem
                    /\ k = n \/ addr + k \notin DOMAIN mem
<1>1. T \in SUBSET Nat /\ n \in T
  OBVIOUS
<1>2. PICK m \in T : \A i \in T : m <= i
  <2>1. \E m \in T : \A i \in T : m <= i
    BY <1>1, LeastNatural, Zenon
  <2> QED BY <2>1
<1>3. m \in 0 .. n /\ (m = n \/ addr + m \notin DOMAIN mem)
  BY <1>2
<1>4. \A i \in 0 .. m - 1 : addr + i \in DOMAIN mem
  BY <1>2, <1>3
<1>5. \E k \in 0 .. n : Is(k)
  BY <1>3, <1>4
<1> DEFINE r == CHOOSE k \in 0 .. n : Is(k)
<1>6. r \in 0 .. n /\ Is(r)
  <2> HIDE DEF Is
  <2> QED BY <1>5, Zenon
<1>7. Reachable(mem, addr, n) = r
  BY Zenon DEF Reachable
<1> HIDE DEF r
<1> QED BY <1>6, <1>7

InMemory == DOMAIN sc.mem
Message == IF kind = "net" THEN Seq(Cell) ELSE Cell
DevStates == [mem : [InMemory -> Cell], disk : {sc.disk}, rx : Seq(Datum(kind)), out : Seq(Message),
              res : {<<>>}, scanout : {[w |-> 1024, h |-> 768, id |-> 0]},
              cursor : {[res |-> 0, at |-> 0]}, rnd : Nat, failed : BOOLEAN, fault : BOOLEAN]
(* All of a state but its memory and the bus error.                        *)
SameBut(r, s) == r.rx = s.rx /\ r.out = s.out /\ r.rnd = s.rnd
LEMMA Copying ==
    ASSUME NEW s \in DevStates, NEW addr \in Nat, NEW cells \in Seq(Cell)
    PROVE  LET r == copyToGuest(s, addr, cells)
           IN  /\ r \in DevStates /\ SameBut(r, s)
               /\ \A u \in InMemory : u \notin addr .. addr + Len(cells) - 1 => r.mem[u] = s.mem[u]
               /\ ~r.fault => \A i \in 1 .. Len(cells) : /\ addr + i - 1 \in InMemory
                                                        /\ r.mem[addr + i - 1] = cells[i]
               /\ addr .. addr + Len(cells) - 1 \subseteq InMemory => ~r.fault
<1> DEFINE n == Reachable(s.mem, addr, Len(cells))
           mem == [u \in InMemory |-> IF u \in addr .. addr + n - 1 THEN cells[u - addr + 1] ELSE s.mem[u]]
           r == copyToGuest(s, addr, cells)
<1>1. s.mem \in [InMemory -> Cell] /\ DOMAIN s.mem = InMemory
  BY DEF DevStates
<1>2. Len(cells) \in Nat /\ \A i \in 1 .. Len(cells) : cells[i] \in Cell
  BY ElementOfSeq, LenProperties
<1>3. /\ n \in 0 .. Len(cells)
      /\ \A i \in 0 .. n - 1 : addr + i \in InMemory
      /\ n = Len(cells) \/ addr + n \notin InMemory
  BY <1>1, <1>2, ReachableIs
<1>4. r = [s EXCEPT !.mem = mem, !.fault = n < Len(cells)]
  BY <1>1 DEF copyToGuest
<1> HIDE DEF n, r
<1>5. \A u \in addr .. addr + n - 1 : u - addr + 1 \in 1 .. Len(cells)
  BY <1>2, <1>3
<1>6. mem \in [InMemory -> Cell]
  BY <1>1, <1>2, <1>5
<1>7. \A u \in InMemory : u \notin addr .. addr + Len(cells) - 1 => mem[u] = s.mem[u]
  BY <1>2, <1>3
<1>8. ASSUME n = Len(cells), NEW i \in 1 .. Len(cells)
      PROVE  addr + i - 1 \in InMemory /\ mem[addr + i - 1] = cells[i]
  <2>1. i - 1 \in 0 .. n - 1 /\ addr + i - 1 = addr + (i - 1) /\ addr + i - 1 \in addr .. addr + n - 1
        /\ (addr + i - 1) - addr + 1 = i
    BY <1>2, <1>8
  <2> QED BY <1>3, <2>1
<1>9. addr .. addr + Len(cells) - 1 \subseteq InMemory => n = Len(cells)
  <2>1. n < Len(cells) => addr + n \in addr .. addr + Len(cells) - 1
    BY <1>2, <1>3
  <2> QED BY <1>2, <1>3, <2>1
<1> DEFINE fault == n < Len(cells)
<1>10. fault \in BOOLEAN /\ (~fault => n = Len(cells)) /\ (n = Len(cells) => ~fault)
  BY <1>2, <1>3
<1> HIDE DEF mem, fault
<1>11. r = [s EXCEPT !.mem = mem, !.fault = fault]
  BY <1>4 DEF fault
<1>12. r \in DevStates /\ SameBut(r, s) /\ r.mem = mem /\ r.fault = fault
  <2> DEFINE A == [InMemory -> Cell]
             B == Seq(Datum(kind))
             C == Seq(Message)
             D == {[w |-> 1024, h |-> 768, id |-> 0]}
             E == {[res |-> 0, at |-> 0]}
  <2>1. mem \in A
    BY <1>6
  <2>2. DevStates = [mem : A, disk : {sc.disk}, rx : B, out : C, res : {<<>>}, scanout : D,
                     cursor : E, rnd : Nat, failed : BOOLEAN, fault : BOOLEAN]
    BY DEF DevStates
  <2> HIDE DEF A, B, C, D, E
  <2>3. r \in DevStates
    BY <1>10, <1>11, <2>1, <2>2
  <2>4. SameBut(r, s) /\ r.mem = mem /\ r.fault = fault
    BY <1>11, <2>2 DEF SameBut
  <2> QED BY <2>3, <2>4
<1>13. \A u \in InMemory : u \notin addr .. addr + Len(cells) - 1 => r.mem[u] = s.mem[u]
  BY <1>7, <1>12
<1>14. ~r.fault => \A i \in 1 .. Len(cells) : /\ addr + i - 1 \in InMemory
                                               /\ r.mem[addr + i - 1] = cells[i]
  BY <1>8, <1>10, <1>12
<1>15. addr .. addr + Len(cells) - 1 \subseteq InMemory => ~r.fault
  BY <1>9, <1>10, <1>12
<1> QED BY <1>12, <1>13, <1>14, <1>15 DEF r

LEMMA Changing ==
    ASSUME NEW s \in DevStates
    PROVE  /\ \A x \in Seq(Datum(kind)) : LET r == [s EXCEPT !.rx = x]
                 IN  r \in DevStates /\ r.rx = x /\ r.mem = s.mem /\ r.out = s.out /\ r.rnd = s.rnd
                     /\ r.fault = s.fault
           /\ \A x \in Seq(Message) : LET r == [s EXCEPT !.out = x]
                 IN  r \in DevStates /\ r.rx = s.rx /\ r.mem = s.mem /\ r.out = x /\ r.rnd = s.rnd
           /\ \A x \in Nat : LET r == [s EXCEPT !.rnd = x]
                 IN  r \in DevStates /\ r.rx = s.rx /\ r.mem = s.mem /\ r.out = s.out /\ r.rnd = x
                     /\ r.fault = s.fault
           /\ fail(s) \in DevStates /\ SameBut(fail(s), s) /\ fail(s).mem = s.mem
<1> DEFINE A == [InMemory -> Cell]
           B == Seq(Datum(kind))
           C == Seq(Message)
           D == {[w |-> 1024, h |-> 768, id |-> 0]}
           E == {[res |-> 0, at |-> 0]}
<1>1. DevStates = [mem : A, disk : {sc.disk}, rx : B, out : C, res : {<<>>}, scanout : D,
                   cursor : E, rnd : Nat, failed : BOOLEAN, fault : BOOLEAN]
  BY DEF DevStates
<1>2. B = Seq(Datum(kind)) /\ C = Seq(Message)
  OBVIOUS
<1> HIDE DEF A, B, C, D, E
<1>3. \A x \in B : LET r == [s EXCEPT !.rx = x]
         IN  r \in DevStates /\ r.rx = x /\ r.mem = s.mem /\ r.out = s.out /\ r.rnd = s.rnd
             /\ r.fault = s.fault
  BY <1>1
<1>4. \A x \in C : LET r == [s EXCEPT !.out = x]
         IN  r \in DevStates /\ r.rx = s.rx /\ r.mem = s.mem /\ r.out = x /\ r.rnd = s.rnd
  BY <1>1
<1>5. \A x \in Nat : LET r == [s EXCEPT !.rnd = x]
         IN  r \in DevStates /\ r.rx = s.rx /\ r.mem = s.mem /\ r.out = s.out /\ r.rnd = x
             /\ r.fault = s.fault
  BY <1>1
<1>6. fail(s) \in DevStates /\ SameBut(fail(s), s) /\ fail(s).mem = s.mem
  BY <1>1 DEF fail, SameBut
<1> QED BY <1>2, <1>3, <1>4, <1>5, <1>6

(* The first n of the units lent hold the first n of some data X.          *)
Put(mem, L, n, X) == \A k \in 1 .. n : L[k] \in InMemory /\ mem[L[k]] = X[k]
Apart2(descs) == \A i, j \in DOMAIN descs :
                    i # j /\ descs[i].write /\ descs[j].write => Span(descs[i]) \cap Span(descs[j]) = {}
LEMMA Putting ==
    ASSUME NEW descs \in Seq(Descriptors), Apart2(descs), NEW W, NEW L, Laid(descs, TRUE, W, L),
           NEW i \in 1 .. Len(descs), descs[i].write, NEW o \in 0 .. descs[i].len,
           NEW s \in DevStates, NEW X, Put(s.mem, L, W[i - 1] + o, X),
           NEW cells \in Seq(Cell), o + Len(cells) <= descs[i].len
    PROVE  LET r == copyToGuest(s, descs[i].addr + o, cells)
           IN  /\ Put(r.mem, L, W[i - 1] + o, X)
               /\ \A u \in InMemory : r.mem[u] # s.mem[u] => u \in Span(descs[i])
               /\ ~r.fault /\ (\A j \in 1 .. Len(cells) : cells[j] = X[W[i - 1] + o + j])
                  => Put(r.mem, L, W[i - 1] + o + Len(cells), X)
<1> DEFINE d == descs[i]
           w == W[i - 1]
           r == copyToGuest(s, d.addr + o, cells)
           to == d.addr + o .. d.addr + o + Len(cells) - 1
<1>1. d \in Descriptors /\ d.addr \in Nat /\ d.len \in Nat /\ d.write = TRUE
  <2>1. d \in Descriptors
    BY ElementOfSeq
  <2>2. d.write \in BOOLEAN /\ d.addr \in Nat /\ d.len \in Nat
    BY <2>1 DEF Descriptors
  <2>3. d.write
    OBVIOUS
  <2> HIDE DEF d
  <2> QED BY <2>1, <2>2, <2>3
<1>2. Len(cells) \in Nat /\ Len(descs) \in Nat /\ DOMAIN descs = 1 .. Len(descs) /\ o \in Nat
  BY <1>1, LenProperties
<1>3. /\ w \in Nat /\ i - 1 \in 0 .. Len(descs)
      /\ \A j \in 1 .. d.len : L[w + j] = d.addr + j - 1
      /\ \A k \in 1 .. w : \E j \in 1 .. i - 1 : descs[j].write = TRUE /\ L[k] \in Span(descs[j])
  <2>1. i - 1 \in 0 .. Len(descs)
    BY <1>2
  <2>2. W \in [0 .. Len(descs) -> Nat]
    BY DEF Laid
  <2>3. \A j \in 1 .. d.len : L[w + j] = d.addr + j - 1
    BY <1>1 DEF Laid
  <2>4. \A k \in 1 .. w : \E j \in 1 .. i - 1 : descs[j].write = TRUE /\ L[k] \in Span(descs[j])
    BY <2>1 DEF Laid
  <2> QED BY <2>1, <2>2, <2>3, <2>4
<1>4. /\ \A u \in InMemory : u \notin to => r.mem[u] = s.mem[u]
      /\ ~r.fault => \A j \in 1 .. Len(cells) : /\ d.addr + o + j - 1 \in InMemory
                                               /\ r.mem[d.addr + o + j - 1] = cells[j]
  <2>1. d.addr + o \in Nat
    BY <1>1, <1>2
  <2>2. to = d.addr + o .. (d.addr + o) + Len(cells) - 1
    OBVIOUS
  <2> HIDE DEF d
  <2>3. /\ \A u \in InMemory : u \notin to => r.mem[u] = s.mem[u]
        /\ ~r.fault => \A j \in 1 .. Len(cells) : /\ (d.addr + o) + j - 1 \in InMemory
                                                 /\ r.mem[(d.addr + o) + j - 1] = cells[j]
    BY <2>1, <2>2, Copying
  <2> QED BY <2>3
<1>5. to \subseteq Span(d)
  BY SMTT(30), <1>1, <1>2 DEF Span
<1> HIDE DEF r, d, w
<1>6. ASSUME NEW k \in 1 .. w + o  PROVE L[k] \notin to
  <2>1. CASE k <= w
    <3>1. PICK j \in 1 .. i - 1 : descs[j].write = TRUE /\ L[k] \in Span(descs[j])
      BY <1>3, <2>1
    <3>2. j \in DOMAIN descs /\ i \in DOMAIN descs /\ j # i
      BY <1>2
    <3>3. Span(descs[j]) \cap Span(d) = {}
      BY <1>1, <3>1, <3>2 DEF Apart2, d
    <3> QED BY <1>5, <3>1, <3>3
  <2>2. CASE ~(k <= w)
    <3>1. k - w \in 1 .. d.len /\ k = w + (k - w)
      BY <1>1, <1>2, <1>3, <2>2 DEF d
    <3>2. L[k] = d.addr + (k - w) - 1
      BY <1>3, <3>1
    <3> QED BY <1>1, <1>2, <1>3, <3>2
  <2> QED BY <2>1, <2>2
<1>7. ASSUME NEW k \in 1 .. w + o  PROVE L[k] \in InMemory /\ r.mem[L[k]] = X[k]
  <2>1. L[k] \in InMemory /\ s.mem[L[k]] = X[k]
    BY DEF Put, w
  <2> QED BY <1>4, <1>6, <2>1
<1>8. ASSUME ~r.fault, \A j \in 1 .. Len(cells) : cells[j] = X[w + o + j],
             NEW k \in 1 .. w + o + Len(cells)
      PROVE  L[k] \in InMemory /\ r.mem[L[k]] = X[k]
  <2>1. CASE k <= w + o
    BY <1>3, <1>7, <2>1
  <2>2. CASE ~(k <= w + o)
    <3> DEFINE j == k - (w + o)
    <3>1. j \in 1 .. Len(cells) /\ o + j \in 1 .. d.len /\ k = w + (o + j) /\ k = w + o + j
      BY <1>1, <1>2, <1>3, <2>2 DEF d
    <3> HIDE DEF j
    <3>2. L[k] = d.addr + o + j - 1
      <4>1. L[w + (o + j)] = d.addr + (o + j) - 1
        BY <1>3, <3>1
      <4>2. j \in Nat
        BY <1>2, <3>1
      <4> QED BY <1>1, <1>2, <3>1, <4>1, <4>2
    <3> QED BY <1>4, <1>8, <3>1, <3>2
  <2> QED BY <2>1, <2>2
<1> QED BY <1>4, <1>5, <1>7, <1>8 DEF Put, r, d, w

-----------------------------------------------------------------------------
(* A handler goes over descriptors: what holds of each state of its work.  *)
UnrollsAlong(f, n, b, g, I) ==
    /\ f = [i \in 0 .. n |-> IF i = 0 THEN b ELSE g[<<f[i - 1], i>>]]
    /\ \A i \in 0 .. n : f[i] \in I[i]
LEMMA RecursionAlong ==
    ASSUME NEW n \in Nat, NEW I, NEW b \in I[0], NEW g,
           \A i \in 1 .. n : \A x \in I[i - 1] : g[<<x, i>>] \in I[i]
    PROVE  \E f : UnrollsAlong(f, n, b, g, I)
<1> DEFINE Upto(m) == \E f : UnrollsAlong(f, m, b, g, I)
           Bad == {m \in 0 .. n : ~Upto(m)}
<1> SUFFICES ASSUME Bad # {}  PROVE FALSE
  OBVIOUS
<1>1. PICK m \in Bad : \A i \in Bad : m <= i
  <2>1. Bad \in SUBSET Nat
    OBVIOUS
  <2>2. \E m \in Bad : \A i \in Bad : m <= i
    BY <2>1, LeastNatural, Zenon
  <2> QED BY <2>2
<1>2. CASE m = 0
  <2>1. UnrollsAlong([i \in 0 .. 0 |-> b], 0, b, g, I)
    BY DEF UnrollsAlong
  <2> QED BY <1>1, <1>2, <2>1
<1>3. CASE m # 0
  <2>1. m \in 1 .. n /\ m - 1 \in 0 .. n /\ m - 1 \notin Bad
    BY <1>1, <1>3
  <2>2. PICK f : UnrollsAlong(f, m - 1, b, g, I)
    BY <2>1
  <2> DEFINE h == [i \in 0 .. m |-> IF i = m THEN g[<<f[m - 1], m>>] ELSE f[i]]
  <2>3. \A i \in 0 .. m - 1 : /\ f[i] = IF i = 0 THEN b ELSE g[<<f[i - 1], i>>]
                              /\ f[i] \in I[i]
    BY <2>1, <2>2 DEF UnrollsAlong
  <2>4. ASSUME NEW i \in 0 .. m
        PROVE  h[i] \in I[i] /\ h[i] = IF i = 0 THEN b ELSE g[<<h[i - 1], i>>]
    <3>1. CASE i = m
      <4>1. h[m] = g[<<f[m - 1], m>>] /\ h[m - 1] = f[m - 1] /\ m - 1 \in 0 .. m - 1
        BY <2>1
      <4>2. f[m - 1] \in I[m - 1]
        BY <2>3, <4>1
      <4>3. h[m] \in I[m]
        BY <2>1, <4>1, <4>2
      <4> QED BY <1>3, <3>1, <4>1, <4>3
    <3>2. CASE i # m
      <4>1. i \in 0 .. m - 1 /\ h[i] = f[i] /\ (i # 0 => h[i - 1] = f[i - 1])
        BY <2>1, <3>2
      <4> QED BY <2>3, <4>1
    <3> QED BY <3>1, <3>2
  <2>5. h = [i \in 0 .. m |-> h[i]]
    OBVIOUS
  <2> HIDE DEF h
  <2>6. UnrollsAlong(h, m, b, g, I)
    BY <2>4, <2>5 DEF UnrollsAlong
  <2> QED BY <1>1, <2>6
<1> QED BY <1>2, <1>3

Work == [s : DevStates, used : Nat, at : Nat, ok : BOOLEAN, done : BOOLEAN]
Begin(s, at) == [s |-> s, used |-> 0, at |-> at, ok |-> TRUE, done |-> FALSE]

(* The console's input.                                                    *)
FillConsole(p, d) ==
    LET n == Least(d.len, Len(p.s.rx))
        given1 == copyToGuest(p.s, d.addr, SubSeq(p.s.rx, 1, n))
    IN  IF ~Writable(d) THEN p
        ELSE IF given1.fault THEN Stop(p, fail(given1))
        ELSE [p EXCEPT !.s = [given1 EXCEPT !.rx = SubSeq(@, n + 1, Len(@))],
                       !.used = @ + n, !.done = n = Len(p.s.rx)]
LEMMA FillConsoleRuns ==
    ASSUME NEW s, NEW descs \in Seq(Descriptors), NEW I, Begin(s, 0) \in I[0],
           \A i \in 1 .. Len(descs) : \A p \in I[i - 1] :
              (IF p.done THEN p ELSE FillConsole(p, descs[i])) \in I[i]
    PROVE  \E p \in I[Len(descs)] : consoleFillRx(s, descs) = Result(p.s, p.used)
<1> DEFINE n == Len(descs)
           b == Begin(s, 0)
           After(p, i) == IF p.done THEN p ELSE FillConsole(p, descs[i])
           S == UNION {I[i] : i \in 0 .. n}
           g == [z \in S \X (1 .. n) |-> After(z[1], z[2])]
           Is(f) == f = [i \in 0 .. n |-> IF i = 0 THEN b ELSE After(f[i - 1], i)]
<1>1. n \in Nat
  OBVIOUS
<1>2. \A i \in 1 .. n : \A p \in I[i - 1] : After(p, i) \in I[i]
  OBVIOUS
<1> HIDE DEF n, After
<1>3. \A i \in 1 .. n : \A p \in I[i - 1] : g[<<p, i>>] = After(p, i)
  <2>1. \A i \in 1 .. n : i - 1 \in 0 .. n
    BY <1>1
  <2> QED BY <2>1
<1> HIDE DEF g, b
<1>4. PICK f : UnrollsAlong(f, n, b, g, I)
  BY <1>1, <1>2, <1>3, RecursionAlong DEF b
<1>5. Is(f)
  <2>1. \A i \in 1 .. n : f[i - 1] \in I[i - 1]
    BY <1>1, <1>4 DEF UnrollsAlong
  <2>2. \A i \in 0 .. n : (IF i = 0 THEN b ELSE g[<<f[i - 1], i>>])
                          = (IF i = 0 THEN b ELSE After(f[i - 1], i))
    BY <1>1, <1>3, <2>1
  <2> QED BY <1>4, <2>2 DEF UnrollsAlong
<1> DEFINE r == CHOOSE h : Is(h)
<1>6. Is(r)
  BY <1>5, Zenon
<1>7. consoleFillRx(s, descs) = Result(r[n].s, r[n].used)
  BY Zenon DEF consoleFillRx, Over, Used, FillConsole, After, b, n, Begin
<1> HIDE DEF r
<1>8. r[0] \in I[0] /\ \A i \in 1 .. n : r[i - 1] \in I[i - 1] => r[i] \in I[i]
  <2>1. r[0] = b /\ \A i \in 1 .. n : r[i] = After(r[i - 1], i)
    BY <1>1, <1>6
  <2> QED BY <1>2, <2>1 DEF b
<1>9. r[n] \in I[n]
  BY <1>1, <1>8, CarriedAlong
<1> QED BY <1>7, <1>9 DEF n

LEMMA Rest ==
    ASSUME NEW S, NEW q \in Seq(S), NEW a \in 0 .. Len(q)
    PROVE  LET r == SubSeq(q, a + 1, Len(q))
           IN  /\ r \in Seq(S) /\ Len(r) = Len(q) - a /\ \A j \in 1 .. Len(r) : r[j] = q[a + j]
               /\ \A n \in 0 .. Len(r) :
                     /\ SubSeq(r, n + 1, Len(r)) = SubSeq(q, a + n + 1, Len(q))
                     /\ SubSeq(r, 1, n) \in Seq(S) /\ Len(SubSeq(r, 1, n)) = n
                     /\ \A j \in 1 .. n : SubSeq(r, 1, n)[j] = q[a + j]
<1> DEFINE r == SubSeq(q, a + 1, Len(q))
<1>1. Len(q) \in Nat /\ \A j \in 1 .. Len(q) : q[j] \in S
  BY ElementOfSeq, LenProperties
<1>2. /\ r \in Seq(S) /\ Len(r) = Len(q) - a
      /\ \A j \in 1 .. Len(q) - a : r[j] = q[a + j]
  <2>1. \A j \in a + 1 .. Len(q) : q[j] \in S
    BY <1>1
  <2>2. a + 1 \in Int /\ Len(q) \in Int
    BY <1>1
  <2>3. /\ r \in Seq(S) /\ Len(r) = IF a + 1 <= Len(q) THEN Len(q) - (a + 1) + 1 ELSE 0
        /\ \A j \in 1 .. Len(q) - (a + 1) + 1 : r[j] = q[(a + 1) + j - 1]
    BY <2>1, <2>2, SubSeqProperties
  <2> HIDE DEF r
  <2> QED BY <1>1, <2>3
<1> HIDE DEF r
<1>3. Len(r) \in Nat /\ \A j \in 1 .. Len(r) : r[j] = q[a + j] /\ r[j] \in S
  BY <1>1, <1>2
<1>4. ASSUME NEW n \in 0 .. Len(r)
      PROVE  /\ SubSeq(r, n + 1, Len(r)) = SubSeq(q, a + n + 1, Len(q))
             /\ SubSeq(r, 1, n) \in Seq(S) /\ Len(SubSeq(r, 1, n)) = n
             /\ \A j \in 1 .. n : SubSeq(r, 1, n)[j] = q[a + j]
  <2> DEFINE x == SubSeq(r, n + 1, Len(r))
             y == SubSeq(q, a + n + 1, Len(q))
             z == SubSeq(r, 1, n)
  <2>1. n + 1 \in Int /\ Len(r) \in Int /\ a + n + 1 \in Int /\ Len(q) \in Int /\ n \in Int
    BY <1>1, <1>3
  <2>2. /\ \A j \in n + 1 .. Len(r) : r[j] \in S
        /\ \A j \in 1 .. n : r[j] \in S
        /\ \A j \in a + n + 1 .. Len(q) : q[j] \in S
    BY <1>1, <1>3
  <2>3. /\ x \in Seq(S) /\ Len(x) = IF n + 1 <= Len(r) THEN Len(r) - (n + 1) + 1 ELSE 0
        /\ \A j \in 1 .. Len(r) - (n + 1) + 1 : x[j] = r[(n + 1) + j - 1]
    BY <2>1, <2>2, SubSeqProperties
  <2>4. /\ y \in Seq(S) /\ Len(y) = IF a + n + 1 <= Len(q) THEN Len(q) - (a + n + 1) + 1 ELSE 0
        /\ \A j \in 1 .. Len(q) - (a + n + 1) + 1 : y[j] = q[(a + n + 1) + j - 1]
    BY <2>1, <2>2, SubSeqProperties
  <2>5. /\ z \in Seq(S) /\ Len(z) = IF 1 <= n THEN n - 1 + 1 ELSE 0
        /\ \A j \in 1 .. n - 1 + 1 : z[j] = r[1 + j - 1]
    BY <2>1, <2>2, SubSeqProperties
  <2> HIDE DEF x, y, z
  <2>6. Len(x) = Len(y) /\ Len(x) = Len(r) - n
    <3>1. n \in Nat /\ a \in Nat /\ n <= Len(r) /\ Len(r) = Len(q) - a
      BY <1>1, <1>2, <1>3
    <3>2. Len(x) = Len(r) - n
      <4>1. Len(x) = IF n + 1 <= Len(r) THEN Len(r) - (n + 1) + 1 ELSE 0
        BY <2>3
      <4>2. Len(r) \in Nat
        BY <1>3
      <4> QED BY <3>1, <4>1, <4>2
    <3>3. Len(y) = Len(q) - (a + n)
      <4>1. Len(y) = IF a + n + 1 <= Len(q) THEN Len(q) - (a + n + 1) + 1 ELSE 0
        BY <2>4
      <4> QED BY <1>1, <3>1, <4>1
    <3> QED BY <1>1, <3>1, <3>2, <3>3
  <2>7. ASSUME NEW j \in 1 .. Len(x)  PROVE x[j] = y[j]
    <3>1. j \in 1 .. Len(r) - (n + 1) + 1 /\ j \in 1 .. Len(q) - (a + n + 1) + 1
          /\ (n + 1) + j - 1 \in 1 .. Len(r) /\ (a + n + 1) + j - 1 = a + ((n + 1) + j - 1)
      BY <1>1, <1>2, <1>3, <2>6
    <3> QED BY <1>3, <2>3, <2>4, <3>1
  <2>8. x = y
    BY <2>3, <2>4, <2>6, <2>7, SeqEqual
  <2>9. Len(z) = n
    BY <2>5
  <2>10. ASSUME NEW j \in 1 .. n  PROVE z[j] = q[a + j]
    <3>1. j \in 1 .. Len(r) /\ j \in 1 .. n - 1 + 1 /\ 1 + j - 1 = j
      BY <1>3
    <3> QED BY <1>3, <2>5, <3>1
  <2> QED BY <2>5, <2>8, <2>9, <2>10 DEF x, y, z
<1> QED BY <1>2, <1>3, <1>4 DEF r

(* Only what the chain lends may have changed.                             *)
ChangedIn(mem, before, descs) ==
    \A u \in InMemory : mem[u] # before[u] =>
        \E j \in DOMAIN descs : descs[j].write /\ u \in Span(descs[j])
LEMMA Filling ==
    ASSUME NEW descs \in Seq(Descriptors), Apart2(descs), NEW W, NEW L, Laid(descs, TRUE, W, L),
           NEW i \in 1 .. Len(descs), descs[i].write, NEW o \in 0 .. descs[i].len,
           NEW s \in DevStates, NEW before, ChangedIn(s.mem, before, descs),
           NEW X, Put(s.mem, L, W[i - 1] + o, X),
           NEW cells \in Seq(Cell), o + Len(cells) <= descs[i].len
    PROVE  LET r == copyToGuest(s, descs[i].addr + o, cells)
           IN  /\ r \in DevStates /\ SameBut(r, s) /\ ChangedIn(r.mem, before, descs)
               /\ Put(r.mem, L, W[i - 1] + o, X)
               /\ ~r.fault /\ (\A j \in 1 .. Len(cells) : cells[j] = X[W[i - 1] + o + j])
                  => Put(r.mem, L, W[i - 1] + o + Len(cells), X)
<1> DEFINE r == copyToGuest(s, descs[i].addr + o, cells)
<1>1. /\ Put(r.mem, L, W[i - 1] + o, X)
      /\ \A u \in InMemory : r.mem[u] # s.mem[u] => u \in Span(descs[i])
      /\ ~r.fault /\ (\A j \in 1 .. Len(cells) : cells[j] = X[W[i - 1] + o + j])
         => Put(r.mem, L, W[i - 1] + o + Len(cells), X)
  BY Putting
<1>2. r \in DevStates /\ SameBut(r, s)
  <2>1. descs[i] \in Descriptors
    BY ElementOfSeq
  <2>2. descs[i].addr \in Nat /\ descs[i].len \in Nat
    BY <2>1 DEF Descriptors
  <2>3. descs[i].addr + o \in Nat
    BY <2>2
  <2> QED BY <2>3, Copying
<1> HIDE DEF r
<1>3. ChangedIn(r.mem, before, descs)
  <2> SUFFICES ASSUME NEW u \in InMemory, r.mem[u] # before[u]
               PROVE  \E j \in DOMAIN descs : descs[j].write /\ u \in Span(descs[j])
    BY DEF ChangedIn
  <2>1. CASE r.mem[u] = s.mem[u]
    BY <2>1 DEF ChangedIn
  <2>2. CASE r.mem[u] # s.mem[u]
    BY <1>1, <2>2, LenProperties
  <2> QED BY <2>1, <2>2
<1> QED BY <1>1, <1>2, <1>3 DEF r

LEMMA CharacterCells == Characters \subseteq Cell
<1>1. {"char"} \subseteq {"data", "zero", "char", "rnd", "event", "error"} /\ {0} \subseteq Nat
  OBVIOUS
<1> QED BY <1>1 DEF Characters, Cell
LEMMA LeastIs ==
    ASSUME NEW a \in Nat, NEW b \in Nat
    PROVE  Least(a, b) \in Nat /\ Least(a, b) <= a /\ Least(a, b) <= b
           /\ (Least(a, b) # b => Least(a, b) = a)
  BY DEF Least
LEMMA Writes ==
    ASSUME NEW d \in Descriptors
    PROVE  /\ d.addr \in Nat /\ d.len \in Nat /\ d.write \in BOOLEAN
           /\ ~Writable(d) => (IF d.write = TRUE THEN d.len ELSE 0) = 0
           /\ Writable(d) => d.write /\ d.write = TRUE /\ d.len > 0
<1>1. d.addr \in Nat /\ d.len \in Nat /\ d.write \in BOOLEAN
  BY DEF Descriptors
<1>2. CASE d.write = TRUE
  BY <1>1, <1>2 DEF Writable
<1>3. CASE d.write = FALSE
  BY <1>1, <1>3 DEF Writable
<1> QED BY <1>1, <1>2, <1>3

FilledConsole(s, descs, W, L) ==
    [i \in 0 .. Len(descs) |->
        {p \in Work : /\ ChangedIn(p.s.mem, s.mem, descs) /\ p.s.out = s.out /\ p.s.rnd = s.rnd
                      /\ p.used <= W[i] /\ (p.done \/ p.used = W[i])
                      /\ p.used <= Len(s.rx) /\ p.s.rx = SubSeq(s.rx, p.used + 1, Len(s.rx))
                      /\ Put(p.s.mem, L, p.used, s.rx)}]
LEMMA ConsoleFills ==
    ASSUME kind = "console", NEW s \in DevStates, NEW descs \in Seq(Descriptors), Apart2(descs),
           NEW W, NEW L, Laid(descs, TRUE, W, L)
    PROVE  \E p \in FilledConsole(s, descs, W, L)[Len(descs)] :
              consoleFillRx(s, descs) = Result(p.s, p.used)
<1> DEFINE n == Len(descs)
           I == FilledConsole(s, descs, W, L)
<1>1. n \in Nat /\ W \in [0 .. n -> Nat] /\ W[0] = 0
  BY DEF Laid
<1>2. s.rx \in Seq(Characters) /\ s.rx \in Seq(Cell) /\ Len(s.rx) \in Nat
  <2>1. s.rx \in Seq(Characters)
    BY DEF DevStates, Datum
  <2>2. s.rx \in Seq(Cell)
    <3> DEFINE x == s.rx
    <3> HIDE DEF x
    <3>1. x \in Seq(Characters)
      BY <2>1 DEF x
    <3>2. \A k \in 1 .. Len(x) : x[k] \in Cell
      BY <3>1, CharacterCells, ElementOfSeq
    <3>3. x \in Seq(Cell)
      <4>1. x \in [1 .. Len(x) -> Cell] /\ Len(x) \in Nat
        BY <3>1, <3>2, LenProperties
      <4> QED BY <4>1, SeqDef
    <3> QED BY <3>3 DEF x
  <2> QED BY <2>1, <2>2, LenProperties
<1>3. Begin(s, 0) \in I[0]
  <2>1. SubSeq(s.rx, 0 + 1, Len(s.rx)) = s.rx
    BY <1>2, SubSeqFull
  <2>2. Begin(s, 0) \in Work
    BY DEF Begin, Work
  <2>3. Put(s.mem, L, 0, s.rx) /\ ChangedIn(s.mem, s.mem, descs)
    BY DEF Put, ChangedIn
  <2> DEFINE b == Begin(s, 0)
  <2>4. b.s = s /\ b.used = 0
    BY DEF Begin
  <2> HIDE DEF b
  <2>5. b \in I[0]
    BY <1>1, <1>2, <2>1, <2>2, <2>3, <2>4 DEF FilledConsole, b
  <2> QED BY <2>5 DEF b
<1>4. ASSUME NEW i \in 1 .. n, NEW p \in I[i - 1]
      PROVE  (IF p.done THEN p ELSE FillConsole(p, descs[i])) \in I[i]
  <2> DEFINE d == descs[i]
  <2>1. i \in 0 .. n /\ i - 1 \in 0 .. n
    BY <1>1
  <2>2. /\ p \in Work /\ ChangedIn(p.s.mem, s.mem, descs) /\ p.s.out = s.out /\ p.s.rnd = s.rnd
        /\ p.used <= W[i - 1] /\ (p.done \/ p.used = W[i - 1])
        /\ p.used <= Len(s.rx) /\ p.s.rx = SubSeq(s.rx, p.used + 1, Len(s.rx))
        /\ Put(p.s.mem, L, p.used, s.rx)
    BY <2>1 DEF FilledConsole
  <2>3. p.s \in DevStates /\ p.used \in Nat /\ p.done \in BOOLEAN /\ p.ok \in BOOLEAN /\ p.at \in Nat
    BY <2>2 DEF Work
  <2>4. d \in Descriptors
    BY ElementOfSeq
  <2>5. W[i] = W[i - 1] + (IF d.write = TRUE THEN d.len ELSE 0) /\ W[i] \in Nat /\ W[i - 1] \in Nat
    BY <1>1, <2>1 DEF Laid
  <2>6. d.addr \in Nat /\ d.len \in Nat /\ d.write \in BOOLEAN
    BY <2>4, Writes
  <2> HIDE DEF d
  <2>7. W[i - 1] <= W[i]
    BY <2>5, <2>6
  <2>8. ASSUME p.done \/ ~Writable(d)  PROVE p \in I[i]
    <3>1. p.used <= W[i]
      BY <2>2, <2>3, <2>5, <2>7
    <3>2. p.done \/ W[i] = W[i - 1]
      <4>1. ~Writable(d) => (IF d.write = TRUE THEN d.len ELSE 0) = 0
        BY <2>4, Writes
      <4>2. ~Writable(d) => W[i] = W[i - 1]
        BY <2>5, <4>1
      <4> QED BY <2>8, <4>2
    <3>3. p.done \/ p.used = W[i]
      BY <2>2, <3>2
    <3> QED BY <3>1, <3>3, <2>1, <2>2, <3>1 DEF FilledConsole
  <2>9. ASSUME ~p.done, Writable(d)  PROVE FillConsole(p, d) \in I[i]
    <3> DEFINE m == Least(d.len, Len(p.s.rx))
               cells == SubSeq(p.s.rx, 1, m)
               g == copyToGuest(p.s, d.addr, cells)
    <3>1. /\ p.s.rx \in Seq(Cell) /\ p.s.rx \in Seq(Characters) /\ Len(p.s.rx) = Len(s.rx) - p.used
          /\ Len(p.s.rx) \in Nat
          /\ \A k \in 0 .. Len(p.s.rx) :
                /\ SubSeq(p.s.rx, k + 1, Len(p.s.rx)) = SubSeq(s.rx, p.used + k + 1, Len(s.rx))
                /\ SubSeq(p.s.rx, 1, k) \in Seq(Cell) /\ Len(SubSeq(p.s.rx, 1, k)) = k
                /\ \A j \in 1 .. k : SubSeq(p.s.rx, 1, k)[j] = s.rx[p.used + j]
      <4> DEFINE a == p.used
                 q == s.rx
                 r == SubSeq(q, a + 1, Len(q))
      <4>1. a \in 0 .. Len(q) /\ q \in Seq(Cell) /\ q \in Seq(Characters) /\ p.s.rx = r
        BY <1>2, <2>2, <2>3
      <4> HIDE DEF a, q, r
      <4>2. r \in Seq(Characters)
        BY <4>1, Rest DEF r
      <4>3. /\ r \in Seq(Cell) /\ Len(r) = Len(q) - a
            /\ \A k \in 0 .. Len(r) :
                  /\ SubSeq(r, k + 1, Len(r)) = SubSeq(q, a + k + 1, Len(q))
                  /\ SubSeq(r, 1, k) \in Seq(Cell) /\ Len(SubSeq(r, 1, k)) = k
                  /\ \A j \in 1 .. k : SubSeq(r, 1, k)[j] = q[a + j]
        BY SMTT(30), <4>1, Rest DEF r
      <4>4. Len(r) \in Nat
        BY <4>2, LenProperties
      <4> QED BY <4>1, <4>2, <4>3, <4>4 DEF a, q
    <3>2. /\ m \in Nat /\ m <= d.len /\ m <= Len(p.s.rx) /\ (m # Len(p.s.rx) => m = d.len)
          /\ m \in 0 .. Len(p.s.rx)
      <4> DEFINE b == Len(p.s.rx)
      <4>1. b \in Nat /\ m = Least(d.len, b)
        BY <3>1
      <4> HIDE DEF b, m
      <4>2. m \in Nat /\ m <= d.len /\ m <= b /\ (m # b => m = d.len)
        BY <2>6, <4>1, LeastIs
      <4> QED BY <4>1, <4>2 DEF b
    <3>3. /\ cells \in Seq(Cell) /\ Len(cells) = m
          /\ \A j \in 1 .. m : cells[j] = s.rx[p.used + j]
          /\ SubSeq(p.s.rx, m + 1, Len(p.s.rx)) = SubSeq(s.rx, p.used + m + 1, Len(s.rx))
      BY <3>1, <3>2
    <3> HIDE DEF m
    <3>4. d.write /\ d.write = TRUE /\ p.used = W[i - 1]
      BY <2>2, <2>4, <2>9, Writes
    <3> HIDE DEF cells
    <3>5. /\ g \in DevStates /\ SameBut(g, p.s) /\ ChangedIn(g.mem, s.mem, descs)
          /\ Put(g.mem, L, p.used, s.rx)
          /\ ~g.fault => Put(g.mem, L, p.used + m, s.rx)
      <4>1. 0 \in 0 .. d.len /\ d.addr + 0 = d.addr /\ W[i - 1] + 0 = W[i - 1] /\ 0 + Len(cells) <= d.len
        <5>1. Len(cells) = m /\ m \in Nat /\ m <= d.len
          BY <3>2, <3>3
        <5> QED BY <2>5, <2>6, <5>1
      <4>2. Put(p.s.mem, L, W[i - 1] + 0, s.rx)
        BY <2>2, <3>4, <4>1
      <4>3. LET r == copyToGuest(p.s, d.addr + 0, cells)
            IN  /\ r \in DevStates /\ SameBut(r, p.s) /\ ChangedIn(r.mem, s.mem, descs)
                /\ Put(r.mem, L, W[i - 1] + 0, s.rx)
                /\ ~r.fault /\ (\A j \in 1 .. Len(cells) : cells[j] = s.rx[W[i - 1] + 0 + j])
                   => Put(r.mem, L, W[i - 1] + 0 + Len(cells), s.rx)
        BY <2>2, <2>3, <3>3, <3>4, <4>1, <4>2, Filling DEF d
      <4> QED BY <3>3, <3>4, <4>1, <4>3
    <3> HIDE DEF g
    <3>6. CASE g.fault
      <4> DEFINE x == Stop(p, fail(g))
      <4>1. FillConsole(p, d) = x
        BY <2>9, <3>6 DEF FillConsole, g, cells, m
      <4>2. fail(g) \in DevStates /\ SameBut(fail(g), g) /\ fail(g).mem = g.mem
        BY <3>5, Changing
      <4>3. x \in Work /\ x.s = fail(g) /\ x.used = p.used /\ x.done = TRUE
        BY <2>2, <4>2 DEF Stop, Work
      <4> HIDE DEF x
      <4>4. x.used <= W[i]
        BY <2>2, <2>3, <2>5, <2>7, <4>3
      <4>5. /\ ChangedIn(x.s.mem, s.mem, descs) /\ x.s.out = s.out /\ x.s.rnd = s.rnd
            /\ x.s.rx = p.s.rx /\ Put(x.s.mem, L, x.used, s.rx)
        BY <2>2, <3>5, <4>2, <4>3 DEF SameBut
      <4>6. x \in I[i]
        BY <2>1, <2>2, <4>3, <4>4, <4>5 DEF FilledConsole
      <4> QED BY <4>1, <4>6
    <3>7. CASE ~g.fault
      <4> DEFINE rest == SubSeq(g.rx, m + 1, Len(g.rx))
                 t == [g EXCEPT !.rx = rest]
                 full == m = Len(p.s.rx)
                 x == [p EXCEPT !.s = t, !.used = p.used + m, !.done = full]
      <4>1. FillConsole(p, d) = x
        BY <2>9, <3>5, <3>7 DEF FillConsole, g, cells, m, DevStates, Work
      <4>2. g.rx = p.s.rx /\ rest = SubSeq(s.rx, p.used + m + 1, Len(s.rx)) /\ rest \in Seq(Characters)
        <5>1. g.rx = p.s.rx
          BY <3>5 DEF SameBut
        <5>2. p.used + m \in 0 .. Len(s.rx) /\ p.used + m + 1 = (p.used + m) + 1
          <6>1. Len(p.s.rx) = Len(s.rx) - p.used /\ m \in Nat /\ m <= Len(p.s.rx)
            BY <3>1, <3>2
          <6> QED BY <1>2, <2>3, <6>1
        <5>3. SubSeq(s.rx, (p.used + m) + 1, Len(s.rx)) \in Seq(Characters)
          BY <1>2, <5>2, Rest
        <5> QED BY <3>3, <5>1, <5>2, <5>3
      <4>3. t \in DevStates /\ t.rx = rest /\ t.mem = g.mem /\ t.out = g.out /\ t.rnd = g.rnd
        <5>1. rest \in Seq(Datum(kind))
          BY <4>2 DEF Datum
        <5> HIDE DEF rest
        <5> QED BY <3>5, <5>1, Changing
      <4> HIDE DEF t, rest
      <4>4. /\ x \in Work /\ x.s = t /\ x.used = p.used + m
            /\ (x.done \/ m = d.len)
        <5>1. full \in BOOLEAN /\ (full \/ m = d.len) /\ p.used + m \in Nat
          BY <2>3, <3>2
        <5> HIDE DEF full
        <5> QED BY <2>2, <4>3, <5>1 DEF Work
      <4> HIDE DEF x
      <4>5. x.used <= W[i] /\ (x.done \/ x.used = W[i]) /\ x.used <= Len(s.rx)
        <5>1. /\ m \in Nat /\ m <= d.len /\ p.used = W[i - 1] /\ x.used = p.used + m
              /\ W[i] = W[i - 1] + d.len /\ m <= Len(s.rx) - p.used
          <6>1. Len(p.s.rx) = Len(s.rx) - p.used /\ m \in Nat /\ m <= Len(p.s.rx) /\ m <= d.len
            BY <3>1, <3>2
          <6>2. W[i] = W[i - 1] + d.len
            BY <2>5, <3>4
          <6> QED BY <3>4, <4>4, <6>1, <6>2
        <5>2. W[i - 1] \in Nat /\ d.len \in Nat /\ Len(s.rx) \in Nat
          BY <1>2, <2>5, <2>6
        <5>3. x.used <= W[i] /\ x.used <= Len(s.rx) /\ (m = d.len => x.used = W[i])
          BY <5>1, <5>2
        <5> QED BY <4>4, <5>3
      <4>6. /\ ChangedIn(x.s.mem, s.mem, descs) /\ x.s.out = s.out /\ x.s.rnd = s.rnd
            /\ x.s.rx = SubSeq(s.rx, x.used + 1, Len(s.rx)) /\ Put(x.s.mem, L, x.used, s.rx)
        BY <2>2, <3>5, <3>7, <4>2, <4>3, <4>4 DEF SameBut
      <4>7. x \in I[i]
        BY <2>1, <4>4, <4>5, <4>6 DEF FilledConsole
      <4> QED BY <4>1, <4>7
    <3> QED BY <3>6, <3>7
  <2> QED BY <2>8, <2>9 DEF FillConsole, d
<1> HIDE DEF I
<1> QED BY <1>3, <1>4, FillConsoleRuns DEF I

-----------------------------------------------------------------------------
(* What the places of a chain hold.                                        *)
CellAt(mem, u) == IF u \in InMemory THEN mem[u] ELSE <<"error", 0, 0>>
LEMMA CellsAre ==
    ASSUME NEW descs \in Seq(Descriptors), NEW flag \in BOOLEAN, NEW mem \in [InMemory -> Cell],
           NEW W, Laid(descs, flag, W, Places(descs, flag))
    PROVE  LET z == Cells(descs, flag, mem)
           IN  /\ z \in Seq(Cell) /\ Len(z) = W[Len(descs)]
               /\ \A k \in 1 .. Len(z) : z[k] = CellAt(mem, Places(descs, flag)[k])
<1> DEFINE L == Places(descs, flag)
           m == W[Len(descs)]
           z == Cells(descs, flag, mem)
<1>1. L \in Seq(Nat) /\ Len(L) = m
  BY DEF Laid
<1>2. z = [i \in DOMAIN L |-> IF L[i] \in DOMAIN mem THEN mem[L[i]] ELSE <<"error", 0, 0>>]
  BY DEF Cells
<1> HIDE DEF L, m, z
<1>3. DOMAIN L = 1 .. m /\ m \in Nat
  BY <1>1, LenProperties
<1>4. DOMAIN mem = InMemory
  OBVIOUS
<1>5. \A i \in 1 .. m : z[i] = CellAt(mem, L[i])
  BY <1>2, <1>3, <1>4 DEF CellAt
<1>6. \A u : CellAt(mem, u) \in Cell
  <2>1. <<"error", 0, 0>> \in Cell
    BY DEF Cell
  <2> QED BY <2>1 DEF CellAt
<1>7. z \in [1 .. m -> Cell]
  <2>1. \A i \in 1 .. m : z[i] \in Cell
    BY <1>5, <1>6
  <2>2. z = [i \in 1 .. m |-> z[i]]
    BY <1>2, <1>3
  <2> QED BY <2>1, <2>2
<1>8. z \in Seq(Cell)
  BY <1>3, <1>7, SeqDef
<1>9. Len(z) = m
  <2>1. DOMAIN z = 1 .. m /\ DOMAIN z = 1 .. Len(z) /\ Len(z) \in Nat
    BY <1>7, <1>8, LenProperties
  <2> QED BY <1>3, <2>1
<1> QED BY <1>5, <1>8, <1>9 DEF L, m, z

(* A prefix, and what follows it.                                          *)
LEMMA Prefix ==
    ASSUME NEW S, NEW z \in Seq(S), NEW a \in 0 .. Len(z)
    PROVE  /\ SubSeq(z, 1, a) \in Seq(S) /\ Len(SubSeq(z, 1, a)) = a
           /\ \A k \in 1 .. a : SubSeq(z, 1, a)[k] = z[k]
<1> DEFINE r == SubSeq(z, 1, a)
<1>1. Len(z) \in Nat
  BY LenProperties
<1>2. \A k \in 1 .. a : z[k] \in S
  BY <1>1, ElementOfSeq
<1>3. /\ r \in Seq(S) /\ Len(r) = IF 1 <= a THEN a - 1 + 1 ELSE 0
      /\ \A k \in 1 .. a - 1 + 1 : r[k] = z[1 + k - 1]
  BY <1>1, <1>2, SubSeqProperties
<1> HIDE DEF r
<1>4. Len(r) = a
  BY <1>1, <1>3
<1>5. \A k \in 1 .. a : k \in 1 .. a - 1 + 1 /\ 1 + k - 1 = k
  BY <1>1
<1>6. \A k \in 1 .. a : r[k] = z[k]
  BY <1>3, <1>5
<1> QED BY <1>3, <1>4, <1>6 DEF r
LEMMA Extends ==
    ASSUME NEW S, NEW z \in Seq(S), NEW a \in Nat, NEW b \in Nat, a + b <= Len(z),
           NEW c \in Seq(S), Len(c) = b, \A j \in 1 .. b : c[j] = z[a + j]
    PROVE  SubSeq(z, 1, a) \o c = SubSeq(z, 1, a + b)
<1> DEFINE x == SubSeq(z, 1, a)
           y == SubSeq(z, 1, a + b)
<1>1. Len(z) \in Nat
  BY LenProperties
<1>2. a \in 0 .. Len(z) /\ a + b \in 0 .. Len(z)
  BY <1>1
<1>3. /\ x \in Seq(S) /\ Len(x) = a /\ \A k \in 1 .. a : x[k] = z[k]
      /\ y \in Seq(S) /\ Len(y) = a + b /\ \A k \in 1 .. a + b : y[k] = z[k]
  BY <1>2, Prefix
<1> HIDE DEF x, y
<1>4. /\ x \o c \in Seq(S) /\ Len(x \o c) = a + b
      /\ \A i \in 1 .. a + b : (x \o c)[i] = IF i <= a THEN x[i] ELSE c[i - a]
  <2>1. /\ x \o c \in Seq(S) /\ Len(x \o c) = Len(x) + Len(c)
        /\ \A i \in 1 .. Len(x) + Len(c) : (x \o c)[i] = IF i <= Len(x) THEN x[i] ELSE c[i - Len(x)]
    <3>1. x \in Seq(S)
      BY <1>3
    <3> QED BY <3>1, ConcatProperties, Zenon
  <2> QED BY <1>3, <2>1
<1>5. ASSUME NEW i \in 1 .. a + b  PROVE (x \o c)[i] = y[i]
  <2>1. CASE i <= a
    <3>1. i \in 1 .. a /\ (x \o c)[i] = x[i]
      BY <1>4, <2>1
    <3> QED BY <1>3, <3>1
  <2>2. CASE ~(i <= a)
    <3>1. i - a \in 1 .. b /\ a + (i - a) = i
      BY <2>2
    <3>2. (x \o c)[i] = c[i - a]
      BY <1>4, <2>2
    <3>3. c[i - a] = z[a + (i - a)]
      BY <3>1
    <3> QED BY <1>3, <3>1, <3>2, <3>3
  <2> QED BY <2>1, <2>2
<1>6. x \o c = y
  BY <1>3, <1>4, <1>5, SeqEqual
<1> QED BY <1>6 DEF x, y

(* A descriptor that can be read gives the next units of its chain.        *)
LEMMA Fetching ==
    ASSUME NEW descs \in Seq(Descriptors), NEW W, Laid(descs, FALSE, W, Places(descs, FALSE)),
           NEW i \in 1 .. Len(descs), ~descs[i].write,
           NEW s \in DevStates, Mapped(s, descs[i])
    PROVE  LET z == Cells(descs, FALSE, s.mem)
               c == Fetch(s, descs[i].addr, descs[i].len)
           IN  /\ c \in Seq(Cell) /\ Len(c) = descs[i].len
               /\ SubSeq(z, 1, W[i - 1]) \o c = SubSeq(z, 1, W[i])
<1> DEFINE d == descs[i]
           L == Places(descs, FALSE)
           z == Cells(descs, FALSE, s.mem)
           c == Fetch(s, d.addr, d.len)
<1>1. d \in Descriptors
  BY ElementOfSeq
<1>2. d.addr \in Nat /\ d.len \in Nat /\ d.write = FALSE
  <2>1. d.write \in BOOLEAN /\ ~d.write /\ d.addr \in Nat /\ d.len \in Nat
    BY <1>1 DEF Descriptors
  <2> HIDE DEF d
  <2> QED BY <2>1
<1>3. s.mem \in [InMemory -> Cell] /\ DOMAIN s.mem = InMemory
  BY DEF DevStates
<1>4. \A j \in 0 .. d.len - 1 : d.addr + j \in InMemory
  <2>1. Reachable(s.mem, d.addr, d.len) = d.len
    BY DEF Mapped
  <2> HIDE DEF d
  <2>2. \A j \in 0 .. Reachable(s.mem, d.addr, d.len) - 1 : d.addr + j \in DOMAIN s.mem
    BY <1>2, ReachableIs
  <2> QED BY <1>3, <2>1, <2>2
<1>5. c = [j \in 1 .. d.len |-> s.mem[d.addr + j - 1]]
  BY DEF Fetch
<1>6. i \in 0 .. Len(descs) /\ i - 1 \in 0 .. Len(descs)
  OBVIOUS
<1>7. /\ W[i - 1] \in Nat /\ W[i] = W[i - 1] + d.len
      /\ W[i] <= W[Len(descs)]
      /\ \A j \in 1 .. d.len : L[W[i - 1] + j] = d.addr + j - 1
  <2>1. W \in [0 .. Len(descs) -> Nat]
    BY DEF Laid
  <2>2. W[i] = W[i - 1] + (IF d.write = FALSE THEN d.len ELSE 0)
    BY DEF Laid
  <2>3. W[i] <= W[Len(descs)]
    BY <1>6 DEF Laid
  <2>4. d.write = FALSE => \A j \in 1 .. d.len : L[W[i - 1] + j] = d.addr + j - 1
    BY DEF Laid
  <2> HIDE DEF d, L
  <2> QED BY <1>2, <1>6, <2>1, <2>2, <2>3, <2>4
<1>8. /\ z \in Seq(Cell) /\ Len(z) = W[Len(descs)]
      /\ \A k \in 1 .. Len(z) : z[k] = CellAt(s.mem, L[k])
  BY <1>3, CellsAre
<1> HIDE DEF d, L, z, c
<1>9. ASSUME NEW j \in 1 .. d.len
      PROVE  /\ s.mem[d.addr + j - 1] \in Cell /\ z[W[i - 1] + j] = s.mem[d.addr + j - 1]
  <2>1. j - 1 \in 0 .. d.len - 1 /\ d.addr + (j - 1) = d.addr + j - 1
    BY <1>2
  <2>2. d.addr + j - 1 \in InMemory
    BY <1>4, <2>1
  <2>3. W[i - 1] + j \in 1 .. Len(z)
    <3>1. Len(z) \in Nat
      BY <1>8, LenProperties
    <3>2. Len(z) = W[Len(descs)]
      BY <1>8
    <3> QED BY SMTT(30), <1>2, <1>7, <3>1, <3>2
  <2> QED BY <1>3, <1>7, <1>8, <2>2, <2>3 DEF CellAt
<1>10. c \in [1 .. d.len -> Cell]
  BY <1>5, <1>9
<1>11. c \in Seq(Cell)
  BY <1>2, <1>10, SeqDef
<1>12. Len(c) = d.len
  <2>1. DOMAIN c = 1 .. d.len /\ DOMAIN c = 1 .. Len(c) /\ Len(c) \in Nat
    BY <1>10, <1>11, LenProperties
  <2> QED BY <1>2, <2>1
<1>13. \A j \in 1 .. d.len : c[j] = z[W[i - 1] + j]
  BY <1>5, <1>9
<1>14. SubSeq(z, 1, W[i - 1]) \o c = SubSeq(z, 1, W[i - 1] + d.len)
  <2> DEFINE a == W[i - 1]
             b == d.len
  <2>1. a \in Nat /\ b \in Nat /\ a + b <= Len(z) /\ Len(c) = b /\ \A j \in 1 .. b : c[j] = z[a + j]
    BY <1>2, <1>7, <1>8, <1>12, <1>13
  <2> HIDE DEF a, b
  <2>2. SubSeq(z, 1, a) \o c = SubSeq(z, 1, a + b)
    BY <1>8, <1>11, <2>1, Extends
  <2> QED BY <2>2 DEF a, b
<1> QED BY <1>7, <1>11, <1>12, <1>14 DEF d, z, c

(* The console's output.                                                  *)
SendConsole(p, d) ==
    IF ~Readable(d) THEN p
    ELSE IF ~Mapped(p.s, d) THEN Stop(p, fail(p.s))
    ELSE [p EXCEPT !.s.out = @ \o Fetch(p.s, d.addr, d.len), !.used = @ + d.len]
LEMMA SendConsoleRuns ==
    ASSUME NEW s, NEW descs \in Seq(Descriptors), NEW I, Begin(s, 0) \in I[0],
           \A i \in 1 .. Len(descs) : \A p \in I[i - 1] :
              (IF p.done THEN p ELSE SendConsole(p, descs[i])) \in I[i]
    PROVE  \E p \in I[Len(descs)] : consoleConsumeTx(s, descs) = Result(p.s, p.used)
<1> DEFINE n == Len(descs)
           b == Begin(s, 0)
           After(p, i) == IF p.done THEN p ELSE SendConsole(p, descs[i])
           S == UNION {I[i] : i \in 0 .. n}
           g == [z \in S \X (1 .. n) |-> After(z[1], z[2])]
           Is(f) == f = [i \in 0 .. n |-> IF i = 0 THEN b ELSE After(f[i - 1], i)]
<1>1. n \in Nat
  OBVIOUS
<1>2. \A i \in 1 .. n : \A p \in I[i - 1] : After(p, i) \in I[i]
  OBVIOUS
<1> HIDE DEF n, After
<1>3. \A i \in 1 .. n : \A p \in I[i - 1] : g[<<p, i>>] = After(p, i)
  <2>1. \A i \in 1 .. n : i - 1 \in 0 .. n
    BY <1>1
  <2> QED BY <2>1
<1> HIDE DEF g, b
<1>4. PICK f : UnrollsAlong(f, n, b, g, I)
  BY <1>1, <1>2, <1>3, RecursionAlong DEF b
<1>5. Is(f)
  <2>1. \A i \in 1 .. n : f[i - 1] \in I[i - 1]
    BY <1>1, <1>4 DEF UnrollsAlong
  <2>2. \A i \in 0 .. n : (IF i = 0 THEN b ELSE g[<<f[i - 1], i>>])
                          = (IF i = 0 THEN b ELSE After(f[i - 1], i))
    BY <1>1, <1>3, <2>1
  <2> QED BY <1>4, <2>2 DEF UnrollsAlong
<1> DEFINE r == CHOOSE h : Is(h)
<1>6. Is(r)
  BY <1>5, Zenon
<1>7. consoleConsumeTx(s, descs) = Result(r[n].s, r[n].used)
  BY Zenon DEF consoleConsumeTx, Over, Used, SendConsole, After, b, n, Begin
<1> HIDE DEF r
<1>8. r[0] \in I[0] /\ \A i \in 1 .. n : r[i - 1] \in I[i - 1] => r[i] \in I[i]
  <2>1. r[0] = b /\ \A i \in 1 .. n : r[i] = After(r[i - 1], i)
    BY <1>1, <1>6
  <2> QED BY <1>2, <2>1 DEF b
<1>9. r[n] \in I[n]
  BY <1>1, <1>8, CarriedAlong
<1> QED BY <1>7, <1>9 DEF n

LEMMA Reads ==
    ASSUME NEW d \in Descriptors
    PROVE  /\ d.addr \in Nat /\ d.len \in Nat /\ d.write \in BOOLEAN
           /\ ~Readable(d) => (IF d.write = FALSE THEN d.len ELSE 0) = 0
           /\ Readable(d) => ~d.write /\ d.write = FALSE /\ d.len > 0
<1>1. d.addr \in Nat /\ d.len \in Nat /\ d.write \in BOOLEAN
  BY DEF Descriptors
<1>2. CASE d.write = TRUE
  BY <1>1, <1>2 DEF Readable
<1>3. CASE d.write = FALSE
  BY <1>1, <1>3 DEF Readable
<1> QED BY <1>1, <1>2, <1>3
SentConsole(s, descs, W) ==
    [i \in 0 .. Len(descs) |->
        {p \in Work : /\ p.s.mem = s.mem /\ p.s.rx = s.rx /\ p.s.rnd = s.rnd
                      /\ p.used <= W[i] /\ (p.done \/ p.used = W[i])
                      /\ p.s.out = s.out \o SubSeq(Cells(descs, FALSE, s.mem), 1, p.used)}]
LEMMA ConsoleSends ==
    ASSUME kind = "console", NEW s \in DevStates, NEW descs \in Seq(Descriptors),
           NEW W, Laid(descs, FALSE, W, Places(descs, FALSE))
    PROVE  \E p \in SentConsole(s, descs, W)[Len(descs)] :
              consoleConsumeTx(s, descs) = Result(p.s, p.used)
<1> DEFINE n == Len(descs)
           I == SentConsole(s, descs, W)
           z == Cells(descs, FALSE, s.mem)
<1>1. n \in Nat /\ W \in [0 .. n -> Nat] /\ W[0] = 0 /\ \A i \in 0 .. n : W[i] <= W[n]
  BY DEF Laid
<1>2. s.out \in Seq(Cell) /\ z \in Seq(Cell) /\ Len(z) = W[n] /\ Message = Cell
  <2>1. Message = Cell
    BY DEF Message
  <2>2. s.out \in Seq(Cell) /\ s.mem \in [InMemory -> Cell]
    BY <2>1 DEF DevStates
  <2> QED BY <2>1, <2>2, CellsAre
<1> HIDE DEF z
<1>3. Begin(s, 0) \in I[0]
  <2> DEFINE b == Begin(s, 0)
  <2>1. SubSeq(z, 1, 0) = <<>> /\ s.out \o <<>> = s.out
    BY <1>2, SubSeqEmpty, ConcatEmptySeq
  <2>2. b \in Work /\ b.s = s /\ b.used = 0
    BY DEF Begin, Work
  <2> HIDE DEF b
  <2>3. b \in I[0]
    BY <1>1, <2>1, <2>2 DEF SentConsole, z
  <2> QED BY <2>3 DEF b
<1>4. ASSUME NEW i \in 1 .. n, NEW p \in I[i - 1]
      PROVE  (IF p.done THEN p ELSE SendConsole(p, descs[i])) \in I[i]
  <2> DEFINE d == descs[i]
  <2>1. i \in 0 .. n /\ i - 1 \in 0 .. n
    BY <1>1
  <2>2. /\ p \in Work /\ p.s.mem = s.mem /\ p.s.rx = s.rx /\ p.s.rnd = s.rnd
        /\ p.used <= W[i - 1] /\ (p.done \/ p.used = W[i - 1])
        /\ p.s.out = s.out \o SubSeq(z, 1, p.used)
    BY <2>1 DEF SentConsole, z
  <2>3. p.s \in DevStates /\ p.used \in Nat /\ p.done \in BOOLEAN /\ p.ok \in BOOLEAN /\ p.at \in Nat
    BY <2>2 DEF Work
  <2>4. d \in Descriptors
    BY ElementOfSeq
  <2>5. W[i] = W[i - 1] + (IF d.write = FALSE THEN d.len ELSE 0) /\ W[i] \in Nat /\ W[i - 1] \in Nat
    BY <1>1, <2>1 DEF Laid
  <2>6. d.addr \in Nat /\ d.len \in Nat /\ d.write \in BOOLEAN
    BY <2>4, Reads
  <2> HIDE DEF d
  <2>7. W[i - 1] <= W[i]
    BY <2>5, <2>6
  <2>8. ASSUME p.done \/ ~Readable(d)  PROVE p \in I[i]
    <3>1. p.used <= W[i]
      BY <2>2, <2>3, <2>5, <2>7
    <3>2. p.done \/ W[i] = W[i - 1]
      <4>1. ~Readable(d) => (IF d.write = FALSE THEN d.len ELSE 0) = 0
        BY <2>4, Reads
      <4>2. ~Readable(d) => W[i] = W[i - 1]
        BY <2>5, <4>1
      <4> QED BY <2>8, <4>2
    <3>3. p.done \/ p.used = W[i]
      BY <2>2, <3>2
    <3> QED BY <2>1, <2>2, <3>1, <3>3 DEF SentConsole, z
  <2>9. ASSUME ~p.done, Readable(d)  PROVE SendConsole(p, d) \in I[i]
    <3>1. ~d.write /\ W[i] = W[i - 1] + d.len /\ p.used = W[i - 1]
      <4>1. ~d.write /\ d.write = FALSE
        BY <2>4, <2>9, Reads
      <4> QED BY <2>2, <2>5, <2>9, <4>1
    <3>2. CASE ~Mapped(p.s, d)
      <4> DEFINE x == Stop(p, fail(p.s))
      <4>1. SendConsole(p, d) = x
        BY <2>9, <3>2 DEF SendConsole
      <4>2. fail(p.s) \in DevStates /\ SameBut(fail(p.s), p.s) /\ fail(p.s).mem = p.s.mem
        BY <2>3, Changing
      <4>3. x \in Work /\ x.s = fail(p.s) /\ x.used = p.used /\ x.done = TRUE
        BY <2>2, <4>2 DEF Stop, Work
      <4> HIDE DEF x
      <4>4. x.used <= W[i]
        BY <2>2, <2>3, <2>5, <2>7, <4>3
      <4>5. x \in I[i]
        BY <2>1, <2>2, <4>2, <4>3, <4>4 DEF SentConsole, SameBut, z
      <4> QED BY <4>1, <4>5
    <3>3. CASE Mapped(p.s, d)
      <4> DEFINE c == Fetch(p.s, d.addr, d.len)
                 out == p.s.out \o c
                 t == [p.s EXCEPT !.out = out]
                 x == [p EXCEPT !.s = t, !.used = p.used + d.len]
      <4>1. SendConsole(p, d) = x
        BY <2>2, <2>9, <3>3 DEF SendConsole, Work, DevStates
      <4>2. c \in Seq(Cell) /\ SubSeq(z, 1, W[i - 1]) \o c = SubSeq(z, 1, W[i])
        <5>1. ~descs[i].write /\ Mapped(p.s, descs[i])
          BY <3>1, <3>3 DEF d
        <5> QED BY ZenonT(40), <2>2, <2>3, <5>1, Fetching DEF z, d
      <4> HIDE DEF c
      <4>3. out = s.out \o SubSeq(z, 1, W[i]) /\ out \in Seq(Message)
        <5> DEFINE y == SubSeq(z, 1, W[i - 1])
        <5>1. y \in Seq(Cell)
          <6>1. W[i - 1] \in 0 .. Len(z)
            BY <1>1, <1>2, <2>1, <2>5
          <6> QED BY <1>2, <6>1, Prefix
        <5>2. out = (s.out \o y) \o c
          BY <2>2, <3>1
        <5> HIDE DEF y
        <5>3. (s.out \o y) \o c = s.out \o (y \o c)
          <6> DEFINE o == s.out
                     T == Seq(Cell)
          <6>1. \A a, b, e \in T : (a \o b) \o e = a \o (b \o e)
            <7>1. Associates(T)
              BY Associative
            <7> HIDE DEF T
            <7> QED BY <7>1 DEF Associates
          <6>2. o \in T /\ c \in T /\ y \in T
            BY <1>2, <4>2, <5>1
          <6> HIDE DEF o, T
          <6>3. (o \o y) \o c = o \o (y \o c)
            BY <6>1, <6>2
          <6> QED BY <6>3 DEF o
        <5>4. s.out \o (y \o c) \in Seq(Cell)
          BY <1>2, <4>2, <5>1, ConcatProperties
        <5> QED BY <1>2, <4>2, <5>2, <5>3, <5>4 DEF y
      <4> HIDE DEF out
      <4>4. t \in DevStates /\ t.rx = p.s.rx /\ t.mem = p.s.mem /\ t.out = out /\ t.rnd = p.s.rnd
        BY ZenonT(40), <2>3, <4>3, Changing
      <4> HIDE DEF t
      <4>5. x \in Work /\ x.s = t /\ x.used = W[i]
        <5>1. p.used + d.len \in Nat /\ p.used + d.len = W[i]
          BY <2>3, <2>6, <3>1
        <5> QED BY <2>2, <4>4, <5>1 DEF Work
      <4> HIDE DEF x
      <4>6. x.s.out = s.out \o SubSeq(z, 1, x.used) /\ x.used <= W[i]
        BY SMTT(30), <2>5, <4>3, <4>4, <4>5
      <4>7. x \in I[i]
        BY <2>1, <2>2, <4>4, <4>5, <4>6 DEF SentConsole, z
      <4> QED BY <4>1, <4>7
    <3> QED BY <3>2, <3>3
  <2> QED BY <2>8, <2>9 DEF SendConsole, d
<1> HIDE DEF I
<1> QED BY <1>3, <1>4, SendConsoleRuns DEF I

-----------------------------------------------------------------------------
(* Sequences joined.                                                       *)
LEMMA FlattenRun ==
    ASSUME NEW S, NEW seqs \in Seq(Seq(S))
    PROVE  \E f \in [0 .. Len(seqs) -> Seq(S)] :
              /\ f[0] = <<>> /\ FlattenSeq(seqs) = f[Len(seqs)]
              /\ \A i \in 1 .. Len(seqs) : f[i] = f[i - 1] \o seqs[i]
<1> DEFINE n == Len(seqs)
           T == Seq(S)
           Next1(x, i) == x \o seqs[i]
           g == [z \in T \X (1 .. n) |-> Next1(z[1], z[2])]
           Is(f) == f = [i \in 1 .. n |-> IF i = 1 THEN seqs[i] ELSE f[i - 1] \o seqs[i]]
<1>1. n \in Nat /\ <<>> \in T /\ \A i \in 1 .. n : seqs[i] \in T
  BY EmptySeq, ElementOfSeq
<1>2. ASSUME NEW x \in T, NEW i \in 1 .. n  PROVE Next1(x, i) \in T
  BY <1>1, ConcatProperties
<1>3. \A x \in T : <<>> \o x = x
  BY ConcatEmptySeq
<1> HIDE DEF n, T
<1>4. g \in [T \X (1 .. n) -> T]
  <2> HIDE DEF Next1
  <2> QED BY <1>2
<1>5. PICK f \in [0 .. n -> T] : Unrolls(f, n, <<>>, g)
  <2> HIDE DEF g
  <2> QED BY <1>1, <1>4, Recursion
<1>6. f[0] = <<>> /\ \A i \in 1 .. n : f[i] = f[i - 1] \o seqs[i]
  <2>1. f[0] = <<>> /\ \A i \in 1 .. n : f[i] = g[<<f[i - 1], i>>]
    <3> HIDE DEF g
    <3>1. \A i \in 0 .. n : f[i] = IF i = 0 THEN <<>> ELSE g[<<f[i - 1], i>>]
      BY <1>5 DEF Unrolls
    <3>2. 0 \in 0 .. n /\ \A i \in 1 .. n : i \in 0 .. n /\ i # 0
      BY <1>1
    <3> QED BY <3>1, <3>2
  <2>2. \A i \in 1 .. n : g[<<f[i - 1], i>>] = f[i - 1] \o seqs[i]
    <3>1. \A i \in 1 .. n : f[i - 1] \in T
      BY <1>1
    <3> QED BY <3>1
  <2> QED BY <2>1, <2>2
<1>7. CASE n = 0
  <2>1. FlattenSeq(seqs) = <<>>
    <3>1. Len(seqs) = 0 /\ seqs = <<>>
      BY <1>7, EmptySeq DEF n
    <3> QED BY <3>1 DEF FlattenSeq
  <2> QED BY <1>5, <1>6, <1>7, <2>1 DEF n, T
<1>8. CASE n # 0
  <2> DEFINE h == [i \in 1 .. n |-> f[i]]
  <2>1. Is(h)
    <3>1. ASSUME NEW i \in 1 .. n  PROVE f[i] = IF i = 1 THEN seqs[i] ELSE h[i - 1] \o seqs[i]
      <4>1. CASE i = 1
        <5>1. f[1] = <<>> \o seqs[1]
          <6>1. 1 \in 1 .. n /\ 1 - 1 = 0
            BY <4>1
          <6>2. f[1] = f[1 - 1] \o seqs[1]
            BY <1>6, <6>1
          <6> QED BY <1>6, <6>1, <6>2
        <5> QED BY <1>1, <1>3, <4>1, <5>1
      <4>2. CASE i # 1
        <5>1. i - 1 \in 1 .. n
          BY <1>1, <4>2
        <5>2. h[i - 1] = f[i - 1]
          BY <5>1
        <5> QED BY <1>6, <4>2, <5>2
      <4> QED BY <4>1, <4>2
    <3> QED BY <3>1
  <2> HIDE DEF h
  <2> DEFINE r == CHOOSE x : Is(x)
  <2>2. Is(r)
    BY <2>1, Zenon
  <2>3. FlattenSeq(seqs) = r[n]
    <3>1. Len(seqs) # 0
      BY <1>8 DEF n
    <3> QED BY <3>1, Zenon DEF FlattenSeq, n
  <2> HIDE DEF r
  <2>4. \A i \in 1 .. n : r[i] = IF i = 1 THEN seqs[i] ELSE r[i - 1] \o seqs[i]
    BY <2>2
  <2> DEFINE J == [i \in 0 .. n |-> {x : x \in {f[i]}}]
             k == [i \in 0 .. n |-> IF i = 0 THEN <<>> ELSE r[i]]
  <2>5. k[0] \in J[0]
    BY <1>1, <1>6
  <2>6. ASSUME NEW i \in 1 .. n, k[i - 1] \in J[i - 1]  PROVE k[i] \in J[i]
    <3>1. i \in 0 .. n /\ i - 1 \in 0 .. n
      BY <1>1
    <3>2. k[i - 1] = f[i - 1] /\ k[i] = r[i]
      BY <2>6, <3>1
    <3>3. f[i] = f[i - 1] \o seqs[i]
      BY <1>6
    <3>4. CASE i = 1
      <4>1. f[1] = <<>> \o seqs[1] /\ r[1] = seqs[1]
        <5>1. 1 \in 1 .. n /\ 1 - 1 = 0
          BY <3>4
        <5>2. f[1] = f[1 - 1] \o seqs[1]
          BY <1>6, <5>1
        <5> QED BY <1>6, <2>4, <5>1, <5>2
      <4> QED BY <1>1, <1>3, <3>1, <3>2, <3>4, <4>1
    <3>5. CASE i # 1
      <4>1. k[i - 1] = r[i - 1]
        BY <3>1, <3>5
      <4>2. r[i] = r[i - 1] \o seqs[i]
        BY <2>4, <3>5
      <4> QED BY <3>1, <3>2, <3>3, <4>1, <4>2
    <3> QED BY <3>4, <3>5
  <2>7. k[n] \in J[n]
    <3> HIDE DEF k, J
    <3> QED BY <1>1, <2>5, <2>6, CarriedAlong
  <2>8. r[n] = f[n]
    BY <1>1, <1>8, <2>7
  <2> QED BY <1>5, <1>6, <2>3, <2>8 DEF n, T
<1> QED BY <1>7, <1>8

LEMMA FlattenUnrolled ==
    ASSUME NEW S, NEW seqs \in Seq(Seq(S)), NEW f,
           f[0] = <<>>, \A i \in 1 .. Len(seqs) : f[i] = f[i - 1] \o seqs[i]
    PROVE  FlattenSeq(seqs) = f[Len(seqs)] /\ FlattenSeq(seqs) \in Seq(S)
<1> DEFINE n == Len(seqs)
<1>1. PICK h \in [0 .. n -> Seq(S)] : /\ h[0] = <<>> /\ FlattenSeq(seqs) = h[n]
                                     /\ \A i \in 1 .. n : h[i] = h[i - 1] \o seqs[i]
  BY FlattenRun
<1>2. n \in Nat
  OBVIOUS
<1> DEFINE J == [i \in 0 .. n |-> {h[i]}]
<1>3. \A i \in 1 .. n : f[i] = f[i - 1] \o seqs[i]
  OBVIOUS
<1> HIDE DEF n
<1>4. f[0] \in J[0]
  BY <1>1, <1>2
<1>5. ASSUME NEW i \in 1 .. n, f[i - 1] \in J[i - 1]  PROVE f[i] \in J[i]
  <2>1. i \in 0 .. n /\ i - 1 \in 0 .. n
    BY <1>2
  <2>2. f[i - 1] = h[i - 1]
    BY <1>5, <2>1
  <2> QED BY <1>1, <1>3, <2>1, <2>2
<1>6. f[n] \in J[n]
  <2> HIDE DEF J
  <2> QED BY <1>2, <1>4, <1>5, CarriedAlong
<1>7. f[n] = h[n] /\ h[n] \in Seq(S)
  BY <1>1, <1>2, <1>6
<1> QED BY <1>1, <1>7 DEF n

LEMMA FlattenConcat ==
    ASSUME NEW S, NEW a \in Seq(Seq(S)), NEW b \in Seq(Seq(S))
    PROVE  FlattenSeq(a \o b) = FlattenSeq(a) \o FlattenSeq(b)
<1> DEFINE n == Len(a)
           m == Len(b)
           ab == a \o b
           T == Seq(S)
<1>1. n \in Nat /\ m \in Nat
  OBVIOUS
<1>2. /\ ab \in Seq(Seq(S)) /\ Len(ab) = n + m
      /\ \A i \in 1 .. n + m : ab[i] = IF i <= n THEN a[i] ELSE b[i - n]
  BY ConcatProperties
<1>3. PICK f \in [0 .. n + m -> T] : /\ f[0] = <<>> /\ FlattenSeq(ab) = f[n + m]
                                      /\ \A i \in 1 .. n + m : f[i] = f[i - 1] \o ab[i]
  <2> HIDE DEF ab, n, m
  <2>1. \E f \in [0 .. Len(ab) -> Seq(S)] :
           /\ f[0] = <<>> /\ FlattenSeq(ab) = f[Len(ab)]
           /\ \A i \in 1 .. Len(ab) : f[i] = f[i - 1] \o ab[i]
    BY <1>2, FlattenRun
  <2>2. Len(ab) = n + m
    BY <1>2
  <2> QED BY <2>1, <2>2
<1>4. PICK h \in [0 .. m -> T] : /\ h[0] = <<>> /\ FlattenSeq(b) = h[m]
                                 /\ \A i \in 1 .. m : h[i] = h[i - 1] \o b[i]
  BY FlattenRun
<1>5. FlattenSeq(a) = f[n]
  <2>1. \A i \in 1 .. n : f[i] = f[i - 1] \o a[i]
    <3> SUFFICES ASSUME NEW i \in 1 .. n  PROVE f[i] = f[i - 1] \o a[i]
      OBVIOUS
    <3>1. i \in 1 .. n + m /\ ab[i] = a[i]
      BY <1>1, <1>2
    <3> QED BY <1>3, <3>1
  <2> HIDE DEF ab
  <2> QED BY <1>3, <2>1, FlattenUnrolled
<1>6. f[n] \in T /\ \A x, y, z \in T : (x \o y) \o z = x \o (y \o z)
  <2>1. n \in 0 .. n + m
    BY <1>1
  <2>2. \A x, y, z \in T : (x \o y) \o z = x \o (y \o z)
    <3>1. Associates(T)
      BY Associative
    <3> HIDE DEF T
    <3> QED BY <3>1 DEF Associates
  <2> HIDE DEF T, n, m
  <2> QED BY <1>3, <2>1, <2>2
<1>7. \A i \in 1 .. m : b[i] \in T /\ h[i - 1] \in T /\ h[i] = h[i - 1] \o b[i]
  <2> SUFFICES ASSUME NEW i \in 1 .. m  PROVE b[i] \in T /\ h[i - 1] \in T /\ h[i] = h[i - 1] \o b[i]
    OBVIOUS
  <2>1. b[i] \in T
    BY ElementOfSeq
  <2>2. i - 1 \in 0 .. m
    BY <1>1
  <2> QED BY <1>4, <2>1, <2>2
<1>8. f[n] \o <<>> = f[n] /\ h[0] = <<>> /\ 0 \in 0 .. m /\ n + 0 = n
  BY <1>1, <1>4, <1>6, ConcatEmptySeq
<1> HIDE DEF ab, n, m, T
<1> DEFINE J == [i \in 0 .. m |-> {f[n] \o h[i]}]
           k == [i \in 0 .. m |-> f[n + i]]
<1>9. k[0] \in J[0]
  <2>1. k[0] = f[n] /\ J[0] = {f[n] \o h[0]}
    BY <1>8
  <2> QED BY <1>8, <2>1
<1>10. ASSUME NEW i \in 1 .. m, k[i - 1] \in J[i - 1]  PROVE k[i] \in J[i]
  <2>1. i \in 0 .. m /\ i - 1 \in 0 .. m /\ n + i \in 1 .. n + m /\ (n + i) - 1 = n + (i - 1)
        /\ (n + i) - n = i /\ ~(n + i <= n)
    BY <1>1
  <2>2. f[n + (i - 1)] = f[n] \o h[i - 1] /\ k[i] = f[n + i]
    BY <1>10, <2>1
  <2>3. ab[n + i] = b[i]
    BY <1>2, <2>1
  <2>4. f[n + i] = (f[n] \o h[i - 1]) \o b[i]
    BY <1>3, <2>1, <2>2, <2>3
  <2>5. f[n + i] = f[n] \o (h[i - 1] \o b[i])
    BY <1>6, <1>7, <2>4
  <2> QED BY <1>7, <2>1, <2>2, <2>5
<1>11. k[m] \in J[m]
  <2> HIDE DEF k, J
  <2> QED BY <1>1, <1>9, <1>10, CarriedAlong
<1>12. f[n + m] = f[n] \o h[m]
  BY <1>1, <1>11
<1> QED BY <1>3, <1>4, <1>5, <1>12 DEF ab

-----------------------------------------------------------------------------
(* Each request of the devices that pass on streams.                       *)
LEMMA FlattenAppend ==
    ASSUME NEW S, NEW a \in Seq(Seq(S)), NEW x \in Seq(S)
    PROVE  FlattenSeq(Append(a, x)) = FlattenSeq(a) \o x /\ FlattenSeq(a) \in Seq(S)
<1>1. /\ Append(a, x) \in Seq(Seq(S)) /\ Len(Append(a, x)) = Len(a) + 1 /\ Len(a) \in Nat
      /\ \A i \in 1 .. Len(a) : Append(a, x)[i] = a[i]
      /\ Append(a, x)[Len(a) + 1] = x
  BY AppendProperties, LenProperties
<1> DEFINE n == Len(a)
           b == Append(a, x)
<1>2. PICK f \in [0 .. Len(b) -> Seq(S)] : /\ f[0] = <<>> /\ FlattenSeq(b) = f[Len(b)]
                                          /\ \A i \in 1 .. Len(b) : f[i] = f[i - 1] \o b[i]
  <2> HIDE DEF b
  <2>1. b \in Seq(Seq(S))
    BY <1>1 DEF b
  <2> QED BY <2>1, FlattenRun
<1>3. FlattenSeq(a) = f[n] /\ FlattenSeq(a) \in Seq(S)
  <2>1. \A i \in 1 .. n : f[i] = f[i - 1] \o a[i]
    <3> HIDE DEF b
    <3>1. \A i \in 1 .. n : i \in 1 .. Len(b) /\ b[i] = a[i]
      BY <1>1 DEF b
    <3> QED BY <1>2, <3>1
  <2> QED BY <1>2, <2>1, FlattenUnrolled
<1>4. n + 1 \in 1 .. Len(b) /\ (n + 1) - 1 = n /\ Len(b) = n + 1
  BY <1>1
<1>5. f[n + 1] = f[n] \o x
  BY <1>1, <1>2, <1>4
<1> QED BY <1>2, <1>3, <1>4, <1>5

(* The network card's output.                                             *)
SendFrame(p, d) ==
    IF ~Readable(d) THEN p
    ELSE IF ~Mapped(p.s, d) THEN Stop(p, fail(p.s))
    ELSE [p EXCEPT !.used = @ + d.len]
Raw(s, descs) == [i \in DOMAIN descs |->
                     IF Readable(descs[i]) THEN Fetch(s, descs[i].addr, descs[i].len) ELSE <<>>]
FrameOf(raw) == IF Len(raw) < NetHeader THEN raw ELSE SubSeq(raw, NetHeader + 1, Len(raw))
SentFrame(s, descs, p) ==
    LET frame == FrameOf(FlattenSeq(Raw(s, descs)))
    IN  IF ~p.ok THEN Result(p.s, p.used)
        ELSE Result(IF frame = <<>> THEN s ELSE [s EXCEPT !.out = Append(@, frame)], p.used)
LEMMA SendFrameRuns ==
    ASSUME NEW s, NEW descs \in Seq(Descriptors), NEW I, Begin(s, 0) \in I[0],
           \A i \in 1 .. Len(descs) : \A p \in I[i - 1] :
              (IF p.done THEN p ELSE SendFrame(p, descs[i])) \in I[i]
    PROVE  \E p \in I[Len(descs)] : netConsumeTx(s, descs) = SentFrame(s, descs, p)
<1> DEFINE n == Len(descs)
           b == Begin(s, 0)
           After(p, i) == IF p.done THEN p ELSE SendFrame(p, descs[i])
           S == UNION {I[i] : i \in 0 .. n}
           g == [z \in S \X (1 .. n) |-> After(z[1], z[2])]
           Is(f) == f = [i \in 0 .. n |-> IF i = 0 THEN b ELSE After(f[i - 1], i)]
<1>1. n \in Nat
  OBVIOUS
<1>2. \A i \in 1 .. n : \A p \in I[i - 1] : After(p, i) \in I[i]
  OBVIOUS
<1> HIDE DEF n, After
<1>3. \A i \in 1 .. n : \A p \in I[i - 1] : g[<<p, i>>] = After(p, i)
  <2>1. \A i \in 1 .. n : i - 1 \in 0 .. n
    BY <1>1
  <2> QED BY <2>1
<1> HIDE DEF g, b
<1>4. PICK f : UnrollsAlong(f, n, b, g, I)
  BY <1>1, <1>2, <1>3, RecursionAlong DEF b
<1>5. Is(f)
  <2>1. \A i \in 1 .. n : f[i - 1] \in I[i - 1]
    BY <1>1, <1>4 DEF UnrollsAlong
  <2>2. \A i \in 0 .. n : (IF i = 0 THEN b ELSE g[<<f[i - 1], i>>])
                          = (IF i = 0 THEN b ELSE After(f[i - 1], i))
    BY <1>1, <1>3, <2>1
  <2> QED BY <1>4, <2>2 DEF UnrollsAlong
<1> DEFINE r == CHOOSE h : Is(h)
<1>6. Is(r)
  BY <1>5, Zenon
<1>7. netConsumeTx(s, descs) = SentFrame(s, descs, r[n])
  BY Zenon DEF netConsumeTx, Over, Used, SendFrame, SentFrame, FrameOf, Raw, After, b, n, Begin
<1> HIDE DEF r
<1>8. r[0] \in I[0] /\ \A i \in 1 .. n : r[i - 1] \in I[i - 1] => r[i] \in I[i]
  <2>1. r[0] = b /\ \A i \in 1 .. n : r[i] = After(r[i - 1], i)
    BY <1>1, <1>6
  <2> QED BY <1>2, <2>1 DEF b
<1>9. r[n] \in I[n]
  BY <1>1, <1>8, CarriedAlong
<1> QED BY <1>7, <1>9 DEF n

SentNet(s, descs, W) ==
    [i \in 0 .. Len(descs) |->
        {p \in Work : /\ p.s.mem = s.mem /\ SameBut(p.s, s)
                      /\ p.ok => /\ ~p.done /\ p.used = W[i]
                                 /\ \A j \in 1 .. i : Readable(descs[j]) => Mapped(s, descs[j])
                      /\ ~p.ok => p.done /\ p.used < W[Len(descs)]}]
LEMMA NetSends ==
    ASSUME NEW s \in DevStates, NEW descs \in Seq(Descriptors),
           NEW W, Laid(descs, FALSE, W, Places(descs, FALSE))
    PROVE  \E p \in SentNet(s, descs, W)[Len(descs)] : netConsumeTx(s, descs) = SentFrame(s, descs, p)
<1> DEFINE n == Len(descs)
           I == SentNet(s, descs, W)
<1>1. n \in Nat /\ W \in [0 .. n -> Nat] /\ W[0] = 0 /\ \A i \in 0 .. n : W[i] <= W[n]
  BY DEF Laid
<1>3. Begin(s, 0) \in I[0]
  <2> DEFINE b == Begin(s, 0)
  <2>1. b \in Work /\ b.s = s /\ b.used = 0 /\ b.ok = TRUE /\ b.done = FALSE
    BY DEF Begin, Work
  <2> HIDE DEF b
  <2>2. b \in I[0]
    BY <1>1, <2>1 DEF SentNet, SameBut
  <2> QED BY <2>2 DEF b
<1>4. ASSUME NEW i \in 1 .. n, NEW p \in I[i - 1]
      PROVE  (IF p.done THEN p ELSE SendFrame(p, descs[i])) \in I[i]
  <2> DEFINE d == descs[i]
  <2>1. i \in 0 .. n /\ i - 1 \in 0 .. n
    BY <1>1
  <2>2. /\ p \in Work /\ p.s.mem = s.mem /\ SameBut(p.s, s)
        /\ p.ok => /\ ~p.done /\ p.used = W[i - 1]
                   /\ \A j \in 1 .. i - 1 : Readable(descs[j]) => Mapped(s, descs[j])
        /\ ~p.ok => p.done /\ p.used < W[n]
    BY <2>1 DEF SentNet
  <2>3. p.s \in DevStates /\ p.used \in Nat /\ p.done \in BOOLEAN /\ p.ok \in BOOLEAN /\ p.at \in Nat
    BY <2>2 DEF Work
  <2>4. d \in Descriptors
    BY ElementOfSeq
  <2>5. W[i] = W[i - 1] + (IF d.write = FALSE THEN d.len ELSE 0) /\ W[i] \in Nat /\ W[i - 1] \in Nat
        /\ W[i] <= W[n] /\ W[n] \in Nat
    BY <1>1, <2>1 DEF Laid
  <2>6. d.addr \in Nat /\ d.len \in Nat /\ d.write \in BOOLEAN
    BY <2>4, Reads
  <2> HIDE DEF d
  <2>7. CASE p.done
    <3>1. ~p.ok
      BY <2>2, <2>7
    <3>2. p \in I[i]
      BY <2>1, <2>2, <2>7, <3>1 DEF SentNet
    <3> QED BY <2>7, <3>2
  <2>8. ASSUME ~p.done, ~Readable(d)  PROVE p \in I[i]
    <3>1. p.ok
      BY <2>2, <2>8
    <3>2. W[i] = W[i - 1]
      <4>1. (IF d.write = FALSE THEN d.len ELSE 0) = 0
        BY <2>4, <2>8, Reads
      <4> QED BY <2>5, <4>1
    <3>3. \A j \in 1 .. i : Readable(descs[j]) => Mapped(s, descs[j])
      <4>1. \A j \in 1 .. i : j \in 1 .. i - 1 \/ j = i
        OBVIOUS
      <4> QED BY <2>2, <2>8, <3>1, <4>1 DEF d
    <3> QED BY <2>1, <2>2, <2>8, <3>1, <3>2, <3>3 DEF SentNet
  <2>9. ASSUME ~p.done, Readable(d)  PROVE SendFrame(p, d) \in I[i]
    <3>1. p.ok /\ d.len > 0 /\ W[i] = W[i - 1] + d.len /\ p.used = W[i - 1]
      <4>1. d.write = FALSE /\ d.len > 0
        BY <2>4, <2>9, Reads
      <4> QED BY <2>2, <2>5, <2>9, <4>1
    <3>2. CASE ~Mapped(p.s, d)
      <4> DEFINE x == Stop(p, fail(p.s))
      <4>1. SendFrame(p, d) = x
        BY <2>9, <3>2 DEF SendFrame
      <4>2. fail(p.s) \in DevStates /\ SameBut(fail(p.s), p.s) /\ fail(p.s).mem = p.s.mem
        BY <2>3, Changing
      <4>3. x \in Work /\ x.s = fail(p.s) /\ x.used = p.used /\ x.done = TRUE /\ x.ok = FALSE
        BY <2>2, <4>2 DEF Stop, Work
      <4> HIDE DEF x
      <4>4. x.used < W[n]
        BY <2>3, <2>5, <2>6, <3>1, <4>3
      <4>5. x \in I[i]
        BY <2>1, <2>2, <4>2, <4>3, <4>4 DEF SentNet, SameBut
      <4> QED BY <4>1, <4>5
    <3>3. CASE Mapped(p.s, d)
      <4> DEFINE x == [p EXCEPT !.used = p.used + d.len]
      <4>1. SendFrame(p, d) = x
        BY <2>2, <2>9, <3>3 DEF SendFrame, Work
      <4>2. x \in Work /\ x.s = p.s /\ x.used = W[i] /\ x.ok = p.ok /\ x.done = p.done
        <5>1. p.used + d.len \in Nat /\ p.used + d.len = W[i]
          BY <2>3, <2>6, <3>1
        <5> QED BY <2>2, <5>1 DEF Work
      <4> HIDE DEF x
      <4>3. Mapped(s, d)
        BY <2>2, <3>3 DEF Mapped
      <4>4. \A j \in 1 .. i : Readable(descs[j]) => Mapped(s, descs[j])
        <5>1. \A j \in 1 .. i : j \in 1 .. i - 1 \/ j = i
          OBVIOUS
        <5> QED BY <2>2, <3>1, <4>3, <5>1 DEF d
      <4>5. x \in I[i]
        BY <2>1, <2>2, <2>9, <3>1, <4>2, <4>4 DEF SentNet
      <4> QED BY <4>1, <4>5
    <3> QED BY <3>2, <3>3
  <2> QED BY <2>7, <2>8, <2>9 DEF SendFrame, d
<1> HIDE DEF I
<1> QED BY <1>3, <1>4, SendFrameRuns DEF I
(* What is sent of the units of a chain, of which some were read.          *)
FrameSent(z, len) ==
    LET frame == SubSeq(SubSeq(z, 1, len), NetHeader + 1, len)
    IN  IF frame = <<>> \/ len < Len(z) THEN <<>> ELSE <<frame>>
LEMMA RawIs ==
    ASSUME NEW s \in DevStates, NEW descs \in Seq(Descriptors),
           NEW W, Laid(descs, FALSE, W, Places(descs, FALSE)),
           \A i \in 1 .. Len(descs) : Readable(descs[i]) => Mapped(s, descs[i])
    PROVE  FlattenSeq(Raw(s, descs)) = Cells(descs, FALSE, s.mem)
<1> DEFINE n == Len(descs)
           z == Cells(descs, FALSE, s.mem)
           raw == Raw(s, descs)
           f == [i \in 0 .. n |-> SubSeq(z, 1, W[i])]
<1>1. n \in Nat /\ DOMAIN descs = 1 .. n /\ W \in [0 .. n -> Nat] /\ W[0] = 0
      /\ \A i \in 0 .. n : W[i] <= W[n]
  BY LenProperties DEF Laid
<1>2. z \in Seq(Cell) /\ Len(z) = W[n]
  <2>1. s.mem \in [InMemory -> Cell]
    BY DEF DevStates
  <2> QED BY <2>1, CellsAre
<1>3. ASSUME NEW i \in 1 .. n
      PROVE  /\ raw[i] \in Seq(Cell)
             /\ SubSeq(z, 1, W[i - 1]) \o raw[i] = SubSeq(z, 1, W[i])
  <2> DEFINE d == descs[i]
  <2>1. d \in Descriptors
    BY ElementOfSeq
  <2>2. raw[i] = IF Readable(d) THEN Fetch(s, d.addr, d.len) ELSE <<>>
    BY <1>1 DEF Raw
  <2>3. CASE Readable(d)
    <3>1. ~d.write
      BY <2>1, <2>3, Reads
    <3>2. Fetch(s, d.addr, d.len) \in Seq(Cell)
          /\ SubSeq(z, 1, W[i - 1]) \o Fetch(s, d.addr, d.len) = SubSeq(z, 1, W[i])
      BY <2>3, <3>1, Fetching
    <3> HIDE DEF d, z, raw
    <3> QED BY <2>2, <2>3, <3>2
  <2>4. CASE ~Readable(d)
    <3>1. W[i] = W[i - 1]
      <4>1. W[i] = W[i - 1] + (IF d.write = FALSE THEN d.len ELSE 0)
        BY DEF Laid
      <4>2. (IF d.write = FALSE THEN d.len ELSE 0) = 0
        BY <2>1, <2>4, Reads
      <4>3. W[i - 1] \in Nat
        BY <1>1
      <4> QED BY <4>1, <4>2, <4>3
    <3>2. SubSeq(z, 1, W[i]) \in Seq(Cell)
      <4>1. i \in 0 .. n
        BY <1>1
      <4>2. W[i] \in 0 .. Len(z)
        BY <1>1, <1>2, <4>1
      <4> HIDE DEF z
      <4> QED BY <1>2, <4>2, Prefix
    <3>3. raw[i] = <<>>
      BY <2>2, <2>4
    <3> HIDE DEF z, raw
    <3>4. <<>> \in Seq(Cell) /\ SubSeq(z, 1, W[i]) \o <<>> = SubSeq(z, 1, W[i])
      BY <3>2, EmptySeq, ConcatEmptySeq
    <3> QED BY <3>1, <3>3, <3>4
  <2> QED BY <2>3, <2>4
<1>4. raw \in Seq(Seq(Cell)) /\ Len(raw) = n
  <2>1. DOMAIN raw = 1 .. n
    BY <1>1 DEF Raw
  <2>2. raw = [i \in 1 .. n |-> raw[i]]
    BY <1>1 DEF Raw
  <2> HIDE DEF raw
  <2>3. raw \in [1 .. n -> Seq(Cell)]
    BY <1>3, <2>2
  <2>4. raw \in Seq(Seq(Cell))
    BY <1>1, <2>3, SeqDef
  <2>5. DOMAIN raw = 1 .. Len(raw) /\ Len(raw) \in Nat
    BY <2>4, LenProperties
  <2> QED BY <1>1, <2>1, <2>4, <2>5
<1> HIDE DEF raw, z
<1>5. f[0] = <<>> /\ \A i \in 1 .. Len(raw) : f[i] = f[i - 1] \o raw[i]
  <2>1. SubSeq(z, 1, 0) = <<>>
    BY SubSeqEmpty
  <2>2. f[0] = <<>>
    BY <1>1, <2>1
  <2>3. \A i \in 1 .. n : f[i] = SubSeq(z, 1, W[i]) /\ f[i - 1] = SubSeq(z, 1, W[i - 1])
    <3> SUFFICES ASSUME NEW i \in 1 .. n
                 PROVE  f[i] = SubSeq(z, 1, W[i]) /\ f[i - 1] = SubSeq(z, 1, W[i - 1])
      OBVIOUS
    <3>1. n \in Nat
      BY <1>1
    <3> HIDE DEF n
    <3>2. i \in 0 .. n /\ i - 1 \in 0 .. n
      BY <3>1
    <3> QED BY <3>2
  <2> HIDE DEF f, n
  <2> QED BY <1>3, <1>4, <2>2, <2>3
<1>6. FlattenSeq(raw) = f[n]
  <2> HIDE DEF f, n
  <2>1. FlattenSeq(raw) = f[Len(raw)]
    BY <1>4, <1>5, FlattenUnrolled
  <2> QED BY <1>4, <2>1
<1>7. f[n] = z
  <2>1. f[n] = SubSeq(z, 1, Len(z))
    BY <1>1, <1>2
  <2>2. SubSeq(z, 1, Len(z)) = z
    BY <1>2, SubSeqFull
  <2> QED BY <2>1, <2>2
<1> QED BY <1>6, <1>7 DEF raw, z

LEMMA SentFrameIs ==
    ASSUME kind = "net", NEW s \in DevStates, NEW descs \in Seq(Descriptors),
           NEW W, Laid(descs, FALSE, W, Places(descs, FALSE)), NetHeader <= W[Len(descs)],
           NEW p \in SentNet(s, descs, W)[Len(descs)]
    PROVE  LET r == SentFrame(s, descs, p)
           IN  /\ r.s \in DevStates /\ r.s.mem = s.mem /\ r.s.rx = s.rx /\ r.s.rnd = s.rnd
               /\ r.len \in 0 .. W[Len(descs)]
               /\ r.s.out = s.out \o FrameSent(Cells(descs, FALSE, s.mem), r.len)
<1> DEFINE n == Len(descs)
           z == Cells(descs, FALSE, s.mem)
           r == SentFrame(s, descs, p)
<1>1. n \in Nat /\ W \in [0 .. n -> Nat] /\ W[n] \in Nat
  BY DEF Laid
<1>2. /\ z \in Seq(Cell) /\ Len(z) = W[n]
      /\ s.out \in Seq(Seq(Cell)) /\ Message = Seq(Cell)
  <2>1. Message = Seq(Cell)
    BY DEF Message
  <2>2. s.mem \in [InMemory -> Cell] /\ s.out \in Seq(Seq(Cell))
    BY <2>1 DEF DevStates
  <2> QED BY <2>1, <2>2, CellsAre
<1>3. /\ p \in Work /\ p.s.mem = s.mem /\ SameBut(p.s, s)
      /\ p.ok => p.used = W[n] /\ \A j \in 1 .. n : Readable(descs[j]) => Mapped(s, descs[j])
      /\ ~p.ok => p.used < W[n]
  <2>1. n \in 0 .. n
    BY <1>1
  <2> QED BY <2>1 DEF SentNet
<1>4. p.s \in DevStates /\ p.used \in Nat /\ p.ok \in BOOLEAN
  BY <1>3 DEF Work
<1>5. CASE ~p.ok
  <2>1. r = Result(p.s, p.used)
    BY <1>5 DEF SentFrame
  <2>2. r.s = p.s /\ r.len = p.used
    BY <2>1 DEF Result
  <2> HIDE DEF r, z
  <2>3. r.len < Len(z) /\ r.len \in 0 .. W[n]
    BY <1>1, <1>2, <1>3, <1>4, <1>5, <2>2
  <2>4. FrameSent(z, r.len) = <<>>
    BY <2>3 DEF FrameSent
  <2>5. s.out \o <<>> = s.out
    BY <1>2, ConcatEmptySeq
  <2> QED BY <1>3, <1>4, <2>2, <2>3, <2>4, <2>5 DEF r, z, SameBut
<1>6. CASE p.ok
  <2> DEFINE frame == FrameOf(z)
             t == IF frame = <<>> THEN s ELSE [s EXCEPT !.out = Append(s.out, frame)]
  <2>1. FlattenSeq(Raw(s, descs)) = z
    BY <1>3, <1>6, RawIs
  <2>2. r = Result(t, p.used)
    <3>1. t = IF FrameOf(FlattenSeq(Raw(s, descs))) = <<>> THEN s
              ELSE [s EXCEPT !.out = Append(@, FrameOf(FlattenSeq(Raw(s, descs))))]
      <4> HIDE DEF frame, z
      <4>1. FrameOf(FlattenSeq(Raw(s, descs))) = frame
        BY <2>1 DEF frame
      <4>2. [s EXCEPT !.out = Append(@, frame)] = [s EXCEPT !.out = Append(s.out, frame)]
        BY DEF DevStates
      <4> QED BY <4>1, <4>2
    <3> HIDE DEF t
    <3> QED BY <1>6, <3>1 DEF SentFrame
  <2> HIDE DEF t
  <2>3. r.s = t /\ r.len = W[n]
    BY <1>3, <1>6, <2>2 DEF Result
  <2>4. frame = SubSeq(z, NetHeader + 1, Len(z))
    <3>1. NetHeader <= Len(z) /\ NetHeader \in Nat /\ Len(z) \in Nat
      BY <1>1, <1>2, RequestsAssumption
    <3> HIDE DEF z
    <3> QED BY <3>1 DEF FrameOf
  <2>5. frame \in Seq(Cell)
    <3> HIDE DEF z, frame
    <3>1. NetHeader \in 0 .. Len(z)
      BY <1>1, <1>2, RequestsAssumption
    <3> QED BY <1>2, <2>4, <3>1, Rest
  <2>6. SubSeq(z, 1, Len(z)) = z
    BY <1>2, SubSeqFull
  <2>7. FrameSent(z, r.len) = IF frame = <<>> THEN <<>> ELSE <<frame>>
    <3>1. r.len = Len(z) /\ ~(r.len < Len(z))
      <4> HIDE DEF r, z, n
      <4>1. r.len = W[n] /\ Len(z) = W[n] /\ W[n] \in Nat
        BY <1>1, <1>2, <2>3
      <4> QED BY <4>1
    <3> HIDE DEF r, z, frame
    <3> QED BY <2>4, <2>6, <3>1 DEF FrameSent
  <2> HIDE DEF frame, r
  <2>8. CASE frame = <<>>
    <3>1. s.out \o <<>> = s.out
      BY <1>2, ConcatEmptySeq
    <3>2. t = s
      BY <2>8 DEF t
    <3>3. W[n] \in 0 .. W[n]
      BY <1>1
    <3> QED BY <2>3, <2>7, <2>8, <3>1, <3>2, <3>3 DEF r, z
  <2>9. CASE frame # <<>>
    <3>1. Append(s.out, frame) = s.out \o <<frame>> /\ Append(s.out, frame) \in Seq(Message)
      BY <1>2, <2>5, AppendIsConcat, AppendProperties
    <3>2. t = [s EXCEPT !.out = Append(s.out, frame)]
      BY <2>9 DEF t
    <3>3. t \in DevStates /\ t.rx = s.rx /\ t.mem = s.mem /\ t.out = Append(s.out, frame) /\ t.rnd = s.rnd
      <4> DEFINE x == Append(s.out, frame)
      <4>1. x \in Seq(Message) /\ t = [s EXCEPT !.out = x]
        BY <3>1, <3>2
      <4> HIDE DEF x, t
      <4> QED BY <4>1, Changing DEF x
    <3>4. W[n] \in 0 .. W[n]
      BY <1>1
    <3> QED BY <2>3, <2>7, <2>9, <3>1, <3>3, <3>4 DEF r, z
  <2> QED BY <2>8, <2>9
<1> QED BY <1>5, <1>6

(* The network card's input.                                              *)
FillNet(payload, p, d) ==
    LET n == Least(d.len, Len(payload) - p.at)
        given1 == copyToGuest(p.s, d.addr, SubSeq(payload, p.at + 1, p.at + n))
    IN  IF ~Writable(d) THEN p
        ELSE IF given1.fault THEN Stop(p, fail(given1))
        ELSE [p EXCEPT !.s = given1, !.at = @ + n]
Payload(s) == Zeros(NetHeader) \o s.rx[1]
FilledFrame(p, payload) ==
    IF ~p.ok \/ p.at < Len(payload) THEN Result(p.s, 0)
    ELSE Result([p.s EXCEPT !.rx = Tail(@)], p.at)
LEMMA FillNetRuns ==
    ASSUME NEW s, NEW descs \in Seq(Descriptors), NEW I, Begin(s, 0) \in I[0],
           \A i \in 1 .. Len(descs) : \A p \in I[i - 1] :
              (IF p.done THEN p ELSE FillNet(Payload(s), p, descs[i])) \in I[i]
    PROVE  \E p \in I[Len(descs)] : netFillRx(s, descs) = FilledFrame(p, Payload(s))
<1> DEFINE n == Len(descs)
           b == Begin(s, 0)
           After(p, i) == IF p.done THEN p ELSE FillNet(Payload(s), p, descs[i])
           S == UNION {I[i] : i \in 0 .. n}
           g == [z \in S \X (1 .. n) |-> After(z[1], z[2])]
           Is(f) == f = [i \in 0 .. n |-> IF i = 0 THEN b ELSE After(f[i - 1], i)]
<1>1. n \in Nat
  OBVIOUS
<1>2. \A i \in 1 .. n : \A p \in I[i - 1] : After(p, i) \in I[i]
  OBVIOUS
<1> HIDE DEF n, After
<1>3. \A i \in 1 .. n : \A p \in I[i - 1] : g[<<p, i>>] = After(p, i)
  <2>1. \A i \in 1 .. n : i - 1 \in 0 .. n
    BY <1>1
  <2> QED BY <2>1
<1> HIDE DEF g, b
<1>4. PICK f : UnrollsAlong(f, n, b, g, I)
  BY <1>1, <1>2, <1>3, RecursionAlong DEF b
<1>5. Is(f)
  <2>1. \A i \in 1 .. n : f[i - 1] \in I[i - 1]
    BY <1>1, <1>4 DEF UnrollsAlong
  <2>2. \A i \in 0 .. n : (IF i = 0 THEN b ELSE g[<<f[i - 1], i>>])
                          = (IF i = 0 THEN b ELSE After(f[i - 1], i))
    BY <1>1, <1>3, <2>1
  <2> QED BY <1>4, <2>2 DEF UnrollsAlong
<1> DEFINE r == CHOOSE h : Is(h)
<1>6. Is(r)
  BY <1>5, Zenon
<1>7. netFillRx(s, descs) = FilledFrame(r[n], Payload(s))
  BY Zenon DEF netFillRx, Over, FillNet, FilledFrame, Payload, After, b, n, Begin
<1> HIDE DEF r
<1>8. r[0] \in I[0] /\ \A i \in 1 .. n : r[i - 1] \in I[i - 1] => r[i] \in I[i]
  <2>1. r[0] = b /\ \A i \in 1 .. n : r[i] = After(r[i - 1], i)
    BY <1>1, <1>6
  <2> QED BY <1>2, <2>1 DEF b
<1>9. r[n] \in I[n]
  BY <1>1, <1>8, CarriedAlong
<1> QED BY <1>7, <1>9 DEF n

LEMMA CopyingNothing ==
    ASSUME NEW s \in DevStates, NEW addr \in Nat
    PROVE  LET r == copyToGuest(s, addr, <<>>)
           IN  r \in DevStates /\ SameBut(r, s) /\ r.mem = s.mem /\ ~r.fault
<1> DEFINE r == copyToGuest(s, addr, <<>>)
<1>1. <<>> \in Seq(Cell) /\ Len(<<>>) = 0 /\ addr .. addr + 0 - 1 = {}
  BY EmptySeq
<1>2. /\ r \in DevStates /\ SameBut(r, s)
      /\ \A u \in InMemory : u \notin addr .. addr + Len(<<>>) - 1 => r.mem[u] = s.mem[u]
      /\ addr .. addr + Len(<<>>) - 1 \subseteq InMemory => ~r.fault
  BY <1>1, Copying
<1> HIDE DEF r
<1>3. r.mem \in [InMemory -> Cell] /\ s.mem \in [InMemory -> Cell] /\ \A u \in InMemory : r.mem[u] = s.mem[u]
  BY <1>1, <1>2 DEF DevStates
<1>4. r.mem = s.mem
  BY <1>3
<1> QED BY <1>1, <1>2, <1>4 DEF r

(* A stretch of a sequence.                                                *)
LEMMA Stretch ==
    ASSUME NEW S, NEW q \in Seq(S), NEW a \in Nat, NEW m \in Nat, a + m <= Len(q)
    PROVE  LET c == SubSeq(q, a + 1, a + m)
           IN  /\ c \in Seq(S) /\ Len(c) = m /\ \A j \in 1 .. m : c[j] = q[a + j]
<1> DEFINE lo == a + 1
           hi == a + m
           c  == SubSeq(q, lo, hi)
<1>1. Len(q) \in Nat /\ \A j \in 1 .. Len(q) : q[j] \in S
  BY ElementOfSeq, LenProperties
<1>2. \A j \in lo .. hi : q[j] \in S
  BY <1>1
<1>3. lo \in Int /\ hi \in Int
  OBVIOUS
<1> HIDE DEF lo, hi
<1>4. /\ c \in Seq(S) /\ Len(c) = IF lo <= hi THEN hi - lo + 1 ELSE 0
      /\ \A j \in 1 .. hi - lo + 1 : c[j] = q[lo + j - 1]
  BY <1>2, <1>3, SubSeqProperties
<1> HIDE DEF c
<1>5. Len(c) = m
  BY <1>4 DEF lo, hi
<1>6. hi - lo + 1 = m /\ \A j \in 1 .. m : lo + j - 1 = a + j
  BY DEF lo, hi
<1>7. SubSeq(q, a + 1, a + m) = c
  BY DEF lo, hi, c
<1> QED BY <1>4, <1>5, <1>6, <1>7

LEMMA PayloadIs ==
    ASSUME kind = "net", NEW s \in DevStates, s.rx # <<>>
    PROVE  /\ Payload(s) \in Seq(Cell) /\ Len(Payload(s)) = NetHeader + Len(s.rx[1])
           /\ s.rx[1] \in Seq(Characters) /\ s.rx \in Seq(Seq(Characters)) /\ Len(Payload(s)) \in Nat \ {0}
           /\ \A j \in 1 .. Len(s.rx[1]) : Payload(s)[NetHeader + j] = s.rx[1][j]
<1> DEFINE h == Zeros(NetHeader)
           x == s.rx[1]
<1>1. s.rx \in Seq(Seq(Characters))
  BY DEF DevStates, Datum
<1>2. x \in Seq(Characters)
  <2>1. 1 \in 1 .. Len(s.rx)
    BY <1>1, EmptySeq
  <2> QED BY <1>1, <2>1, ElementOfSeq
<1> HIDE DEF x
<1>3. x \in Seq(Cell) /\ Len(x) \in Nat
  <2>1. \A k \in 1 .. Len(x) : x[k] \in Cell
    BY <1>2, CharacterCells, ElementOfSeq
  <2>2. x \in [1 .. Len(x) -> Cell] /\ Len(x) \in Nat
    BY <1>2, <2>1, LenProperties
  <2> QED BY <2>2, SeqDef
<1>4. h \in Seq(Cell) /\ Len(h) = NetHeader /\ NetHeader \in Nat \ {0}
  <2>1. NetHeader \in Nat \ {0}
    BY RequestsAssumption
  <2>2. h \in [1 .. NetHeader -> Cell]
    BY DEF Zeros, Cell
  <2>3. h \in Seq(Cell)
    BY <2>1, <2>2, SeqDef
  <2>4. DOMAIN h = 1 .. Len(h) /\ Len(h) \in Nat
    BY <2>3, LenProperties
  <2> QED BY <2>1, <2>2, <2>3, <2>4
<1> HIDE DEF h
<1>5. /\ h \o x \in Seq(Cell) /\ Len(h \o x) = NetHeader + Len(x)
      /\ \A i \in 1 .. NetHeader + Len(x) : (h \o x)[i] = IF i <= NetHeader THEN h[i] ELSE x[i - NetHeader]
  <2>1. /\ h \o x \in Seq(Cell) /\ Len(h \o x) = Len(h) + Len(x)
        /\ \A i \in 1 .. Len(h) + Len(x) : (h \o x)[i] = IF i <= Len(h) THEN h[i] ELSE x[i - Len(h)]
    BY <1>3, <1>4, ConcatProperties
  <2> QED BY <1>4, <2>1
<1>6. ASSUME NEW j \in 1 .. Len(x)  PROVE (h \o x)[NetHeader + j] = x[j]
  <2>1. NetHeader + j \in 1 .. NetHeader + Len(x) /\ ~(NetHeader + j <= NetHeader) /\ (NetHeader + j) - NetHeader = j
    BY <1>3, <1>4
  <2> QED BY <1>5, <2>1
<1>7. Len(h \o x) \in Nat \ {0}
  BY <1>3, <1>4, <1>5
<1> QED BY <1>1, <1>2, <1>5, <1>6, <1>7 DEF h, x, Payload
FilledNet(s, descs, W, L, pay) ==
    [i \in 0 .. Len(descs) |->
        {p \in Work : /\ ChangedIn(p.s.mem, s.mem, descs) /\ SameBut(p.s, s)
                      /\ Put(p.s.mem, L, p.at, pay)
                      /\ p.at <= W[i] /\ p.at <= Len(pay)
                      /\ p.ok => ~p.done /\ (p.at = W[i] \/ p.at = Len(pay))
                      /\ ~p.ok => p.done}]
LEMMA NetFills ==
    ASSUME kind = "net", NEW s \in DevStates, s.rx # <<>>,
           NEW descs \in Seq(Descriptors), Apart2(descs),
           NEW W, NEW L, Laid(descs, TRUE, W, L)
    PROVE  \E p \in FilledNet(s, descs, W, L, Payload(s))[Len(descs)] :
              netFillRx(s, descs) = FilledFrame(p, Payload(s))
<1> DEFINE n == Len(descs)
           pay == Payload(s)
           I == FilledNet(s, descs, W, L, pay)
<1>1. n \in Nat /\ W \in [0 .. n -> Nat] /\ W[0] = 0
  BY DEF Laid
<1>2. pay \in Seq(Cell) /\ Len(pay) \in Nat
  BY PayloadIs
<1> HIDE DEF pay
<1>3. Begin(s, 0) \in I[0]
  <2> DEFINE b == Begin(s, 0)
  <2>1. b \in Work /\ b.s = s /\ b.at = 0 /\ b.ok = TRUE /\ b.done = FALSE
    BY DEF Begin, Work
  <2> HIDE DEF b
  <2>2. Put(s.mem, L, 0, pay) /\ ChangedIn(s.mem, s.mem, descs) /\ SameBut(s, s)
    BY DEF Put, ChangedIn, SameBut
  <2>3. b \in I[0]
    BY <1>1, <1>2, <2>1, <2>2 DEF FilledNet
  <2> QED BY <2>3 DEF b
<1>4. ASSUME NEW i \in 1 .. n, NEW p \in I[i - 1]
      PROVE  (IF p.done THEN p ELSE FillNet(pay, p, descs[i])) \in I[i]
  <2> DEFINE d == descs[i]
  <2>1. i \in 0 .. n /\ i - 1 \in 0 .. n
    BY <1>1
  <2>2. /\ p \in Work /\ ChangedIn(p.s.mem, s.mem, descs) /\ SameBut(p.s, s)
        /\ Put(p.s.mem, L, p.at, pay)
        /\ p.at <= W[i - 1] /\ p.at <= Len(pay)
        /\ p.ok => ~p.done /\ (p.at = W[i - 1] \/ p.at = Len(pay))
        /\ ~p.ok => p.done
    BY <2>1 DEF FilledNet
  <2>3. p.s \in DevStates /\ p.used \in Nat /\ p.done \in BOOLEAN /\ p.ok \in BOOLEAN /\ p.at \in Nat
    BY <2>2 DEF Work
  <2>4. d \in Descriptors
    BY ElementOfSeq
  <2>5. W[i] = W[i - 1] + (IF d.write = TRUE THEN d.len ELSE 0) /\ W[i] \in Nat /\ W[i - 1] \in Nat
    BY <1>1, <2>1 DEF Laid
  <2>6. d.addr \in Nat /\ d.len \in Nat /\ d.write \in BOOLEAN
    BY <2>4, Writes
  <2> HIDE DEF d
  <2>7. W[i - 1] <= W[i] /\ p.at <= W[i]
    BY <2>2, <2>3, <2>5, <2>6
  <2>8. ASSUME p.done \/ ~Writable(d)  PROVE p \in I[i]
    <3>1. p.done \/ W[i] = W[i - 1]
      <4>1. ~Writable(d) => (IF d.write = TRUE THEN d.len ELSE 0) = 0
        BY <2>4, Writes
      <4>2. ~Writable(d) => W[i] = W[i - 1]
        BY <2>5, <4>1
      <4> QED BY <2>8, <4>2
    <3>2. p.ok => ~p.done /\ (p.at = W[i] \/ p.at = Len(pay))
      BY <2>2, <3>1
    <3> QED BY <2>1, <2>2, <2>7, <3>2 DEF FilledNet
  <2>9. ASSUME ~p.done, Writable(d)  PROVE FillNet(pay, p, d) \in I[i]
    <3> DEFINE m == Least(d.len, Len(pay) - p.at)
               cells == SubSeq(pay, p.at + 1, p.at + m)
               g == copyToGuest(p.s, d.addr, cells)
    <3>1. p.ok /\ d.write /\ W[i] = W[i - 1] + d.len /\ (p.at = W[i - 1] \/ p.at = Len(pay))
      <4>1. d.write /\ d.write = TRUE
        BY <2>4, <2>9, Writes
      <4> QED BY <2>2, <2>5, <2>9, <4>1
    <3>2. m \in Nat /\ m <= d.len /\ m <= Len(pay) - p.at /\ (m # Len(pay) - p.at => m = d.len)
      <4> DEFINE b == Len(pay) - p.at
      <4>1. b \in Nat /\ m = Least(d.len, b)
        BY <1>2, <2>2, <2>3
      <4> HIDE DEF b, m
      <4>2. m \in Nat /\ m <= d.len /\ m <= b /\ (m # b => m = d.len)
        BY <2>6, <4>1, LeastIs
      <4> QED BY <4>1, <4>2 DEF b
    <3> HIDE DEF m
    <3>3. cells \in Seq(Cell) /\ Len(cells) = m /\ \A j \in 1 .. m : cells[j] = pay[p.at + j]
      <4>1. p.at + m <= Len(pay)
        BY <1>2, <2>3, <3>2
      <4> DEFINE a == p.at
      <4>2. pay \in Seq(Cell) /\ a \in Nat /\ m \in Nat /\ a + m <= Len(pay)
        BY <1>2, <2>3, <3>2, <4>1
      <4> HIDE DEF a
      <4>3. LET c == SubSeq(pay, a + 1, a + m)
            IN  c \in Seq(Cell) /\ Len(c) = m /\ \A j \in 1 .. m : c[j] = pay[a + j]
        BY <4>2, Stretch
      <4> QED BY <4>3 DEF a
    <3> HIDE DEF cells
    <3>4. /\ g \in DevStates /\ SameBut(g, p.s) /\ ChangedIn(g.mem, s.mem, descs)
          /\ Put(g.mem, L, p.at, pay)
          /\ ~g.fault => Put(g.mem, L, p.at + m, pay)
      <4>1. CASE p.at = W[i - 1]
        <5>1. 0 \in 0 .. d.len /\ d.addr + 0 = d.addr /\ W[i - 1] + 0 = W[i - 1] /\ 0 + Len(cells) <= d.len
          <6>1. Len(cells) = m /\ m \in Nat /\ m <= d.len
            BY <3>2, <3>3
          <6> QED BY <2>5, <2>6, <6>1
        <5>2. Put(p.s.mem, L, W[i - 1] + 0, pay)
          BY <2>2, <4>1, <5>1
        <5>3. LET r == copyToGuest(p.s, d.addr + 0, cells)
              IN  /\ r \in DevStates /\ SameBut(r, p.s) /\ ChangedIn(r.mem, s.mem, descs)
                  /\ Put(r.mem, L, W[i - 1] + 0, pay)
                  /\ ~r.fault /\ (\A j \in 1 .. Len(cells) : cells[j] = pay[W[i - 1] + 0 + j])
                     => Put(r.mem, L, W[i - 1] + 0 + Len(cells), pay)
          BY <2>2, <2>3, <3>1, <3>3, <5>1, <5>2, Filling DEF d
        <5> QED BY <3>3, <4>1, <5>1, <5>3
      <4>2. CASE p.at # W[i - 1]
        <5>1. m = 0 /\ p.at + m = p.at
          BY <1>2, <2>3, <3>1, <3>2, <4>2
        <5>2. cells = <<>>
          <6>1. Len(cells) = 0
            BY <3>3, <5>1
          <6> QED BY <3>3, <6>1, EmptySeq
        <5>3. g \in DevStates /\ SameBut(g, p.s) /\ g.mem = p.s.mem
          BY <2>3, <2>6, <5>2, CopyingNothing
        <5> HIDE DEF g
        <5> QED BY <2>2, <5>1, <5>3
      <4> QED BY <4>1, <4>2
    <3> HIDE DEF g
    <3>5. CASE g.fault
      <4> DEFINE x == Stop(p, fail(g))
      <4>1. FillNet(pay, p, d) = x
        BY <2>9, <3>5 DEF FillNet, g, cells, m
      <4>2. fail(g) \in DevStates /\ SameBut(fail(g), g) /\ fail(g).mem = g.mem
        BY <3>4, Changing
      <4>3. x \in Work /\ x.s = fail(g) /\ x.at = p.at /\ x.done = TRUE /\ x.ok = FALSE
        BY <2>2, <4>2 DEF Stop, Work
      <4> HIDE DEF x
      <4>4. ChangedIn(x.s.mem, s.mem, descs) /\ SameBut(x.s, s) /\ Put(x.s.mem, L, x.at, pay)
        BY <2>2, <3>4, <4>2, <4>3 DEF SameBut
      <4>5. x \in I[i]
        BY <2>1, <2>2, <2>7, <4>3, <4>4 DEF FilledNet
      <4> QED BY <4>1, <4>5
    <3>6. CASE ~g.fault
      <4> DEFINE x == [p EXCEPT !.s = g, !.at = p.at + m]
      <4>1. FillNet(pay, p, d) = x
        BY <2>2, <2>9, <3>6 DEF FillNet, g, cells, m, Work
      <4>2. x \in Work /\ x.s = g /\ x.at = p.at + m /\ x.ok = p.ok /\ x.done = p.done
        <5>1. p.at + m \in Nat
          BY <2>3, <3>2
        <5> QED BY <2>2, <3>4, <5>1 DEF Work
      <4> HIDE DEF x
      <4>3. x.at <= W[i] /\ x.at <= Len(pay) /\ (x.at = W[i] \/ x.at = Len(pay))
        <5>1. x.at = p.at + m /\ W[i] = W[i - 1] + d.len /\ p.at <= W[i - 1]
              /\ (p.at = W[i - 1] \/ p.at = Len(pay))
          BY <2>2, <3>1, <4>2
        <5>2. p.at \in Nat /\ m \in Nat /\ d.len \in Nat /\ W[i - 1] \in Nat /\ Len(pay) \in Nat
          BY <1>2, <2>3, <2>5, <2>6, <3>2
        <5> DEFINE a == p.at
                   l == Len(pay)
                   w == W[i - 1]
                   k == d.len
        <5>3. /\ a \in Nat /\ m \in Nat /\ k \in Nat /\ w \in Nat /\ l \in Nat
              /\ a <= w /\ (a = w \/ a = l) /\ m <= k /\ m <= l - a /\ (m # l - a => m = k)
          BY <3>2, <5>1, <5>2
        <5> HIDE DEF a, l, w, k
        <5>4. a + m <= w + k /\ a + m <= l /\ (a + m = w + k \/ a + m = l)
          BY <5>3
        <5> QED BY <5>1, <5>4 DEF a, l, w, k
      <4>4. ChangedIn(x.s.mem, s.mem, descs) /\ SameBut(x.s, s) /\ Put(x.s.mem, L, x.at, pay)
        BY <2>2, <3>4, <3>6, <4>2 DEF SameBut
      <4>5. x \in I[i]
        BY <2>1, <2>2, <2>9, <3>1, <4>2, <4>3, <4>4 DEF FilledNet
      <4> QED BY <4>1, <4>5
    <3> QED BY <3>5, <3>6
  <2> QED BY <2>8, <2>9 DEF FillNet, d
<1> HIDE DEF I
<1> QED BY <1>3, <1>4, FillNetRuns DEF I, pay

LEMMA FilledFrameIs ==
    ASSUME kind = "net", NEW s \in DevStates, s.rx # <<>>,
           NEW descs \in Seq(Descriptors), NEW W, NEW L, Laid(descs, TRUE, W, L),
           NEW p \in FilledNet(s, descs, W, L, Payload(s))[Len(descs)]
    PROVE  LET r == FilledFrame(p, Payload(s))
           IN  /\ r.s \in DevStates /\ r.s.out = s.out /\ r.s.rnd = s.rnd
               /\ ChangedIn(r.s.mem, s.mem, descs)
               /\ \/ r.len = 0 /\ r.s.rx = s.rx
                  \/ /\ r.len = Len(Payload(s)) /\ r.len <= W[Len(descs)] /\ r.s.rx = Tail(s.rx)
                     /\ Put(r.s.mem, L, r.len, Payload(s))
<1> DEFINE n == Len(descs)
           pay == Payload(s)
           r == FilledFrame(p, pay)
<1>1. n \in 0 .. n
  OBVIOUS
<1>2. /\ p \in Work /\ ChangedIn(p.s.mem, s.mem, descs) /\ SameBut(p.s, s)
      /\ Put(p.s.mem, L, p.at, pay) /\ p.at <= W[n] /\ p.at <= Len(pay)
  BY <1>1 DEF FilledNet
<1>3. pay \in Seq(Cell) /\ Len(pay) \in Nat
  BY PayloadIs
<1> HIDE DEF pay
<1>4. p.s \in DevStates /\ p.at \in Nat
  BY <1>2 DEF Work
<1>5. CASE ~p.ok \/ p.at < Len(pay)
  <2>1. r = Result(p.s, 0)
    BY <1>5 DEF FilledFrame
  <2> QED BY <1>2, <1>4, <2>1 DEF Result, SameBut, pay
<1>6. CASE ~(~p.ok \/ p.at < Len(pay))
  <2> DEFINE x == Tail(s.rx)
             t == [p.s EXCEPT !.rx = x]
  <2>1. p.s.rx = s.rx
    BY <1>2 DEF SameBut
  <2>2. r = Result(t, p.at)
    BY <1>4, <1>6, <2>1 DEF FilledFrame, DevStates
  <2>3. x \in Seq(Datum(kind))
    <3>1. s.rx \in Seq(Datum(kind))
      BY DEF DevStates
    <3> QED BY <3>1, HeadTailProperties
  <2> HIDE DEF x
  <2>4. t \in DevStates /\ t.rx = x /\ t.mem = p.s.mem /\ t.out = p.s.out /\ t.rnd = p.s.rnd
    BY <1>4, <2>3, Changing
  <2> HIDE DEF t
  <2>5. r.s = t /\ r.len = p.at /\ p.at = Len(pay)
    BY <1>2, <1>3, <1>4, <1>6, <2>2 DEF Result
  <2> QED BY <1>2, <2>4, <2>5 DEF x, pay, SameBut
<1> QED BY <1>5, <1>6

(* Entropy.                                                               *)
FillRandom(p, d) ==
    LET given1 == copyToGuest(p.s, d.addr, [i \in 1 .. d.len |-> <<"rnd", p.s.rnd + i, 0>>])
        drawn == Least(d.len, Reachable(p.s.mem, d.addr, d.len) + 1)
        after == [given1 EXCEPT !.rnd = @ + drawn]
    IN  IF ~Writable(d) THEN p
        ELSE IF given1.fault THEN Stop(p, fail(after))
        ELSE [p EXCEPT !.s = after, !.used = @ + d.len]
LEMMA FillRandomRuns ==
    ASSUME NEW s, NEW descs \in Seq(Descriptors), NEW I, Begin(s, 0) \in I[0],
           \A i \in 1 .. Len(descs) : \A p \in I[i - 1] :
              (IF p.done THEN p ELSE FillRandom(p, descs[i])) \in I[i]
    PROVE  \E p \in I[Len(descs)] : fillRequest(s, descs) = Result(p.s, p.used)
<1> DEFINE n == Len(descs)
           b == Begin(s, 0)
           After(p, i) == IF p.done THEN p ELSE FillRandom(p, descs[i])
           S == UNION {I[i] : i \in 0 .. n}
           g == [z \in S \X (1 .. n) |-> After(z[1], z[2])]
           Is(f) == f = [i \in 0 .. n |-> IF i = 0 THEN b ELSE After(f[i - 1], i)]
<1>1. n \in Nat
  OBVIOUS
<1>2. \A i \in 1 .. n : \A p \in I[i - 1] : After(p, i) \in I[i]
  OBVIOUS
<1> HIDE DEF n, After
<1>3. \A i \in 1 .. n : \A p \in I[i - 1] : g[<<p, i>>] = After(p, i)
  <2>1. \A i \in 1 .. n : i - 1 \in 0 .. n
    BY <1>1
  <2> QED BY <2>1
<1> HIDE DEF g, b
<1>4. PICK f : UnrollsAlong(f, n, b, g, I)
  BY <1>1, <1>2, <1>3, RecursionAlong DEF b
<1>5. Is(f)
  <2>1. \A i \in 1 .. n : f[i - 1] \in I[i - 1]
    BY <1>1, <1>4 DEF UnrollsAlong
  <2>2. \A i \in 0 .. n : (IF i = 0 THEN b ELSE g[<<f[i - 1], i>>])
                          = (IF i = 0 THEN b ELSE After(f[i - 1], i))
    BY <1>1, <1>3, <2>1
  <2> QED BY <1>4, <2>2 DEF UnrollsAlong
<1> DEFINE r == CHOOSE h : Is(h)
<1>6. Is(r)
  BY <1>5, Zenon
<1>7. fillRequest(s, descs) = Result(r[n].s, r[n].used)
  BY Zenon DEF fillRequest, Over, Used, FillRandom, After, b, n, Begin
<1> HIDE DEF r
<1>8. r[0] \in I[0] /\ \A i \in 1 .. n : r[i - 1] \in I[i - 1] => r[i] \in I[i]
  <2>1. r[0] = b /\ \A i \in 1 .. n : r[i] = After(r[i - 1], i)
    BY <1>1, <1>6
  <2> QED BY <1>2, <2>1 DEF b
<1>9. r[n] \in I[n]
  BY <1>1, <1>8, CarriedAlong
<1> QED BY <1>7, <1>9 DEF n

Drawn(rnd, m) == [k \in 1 .. m |-> <<"rnd", rnd + k, 0>>]
LEMMA DrawnIs ==
    ASSUME NEW rnd \in Nat, NEW m \in Nat
    PROVE  Drawn(rnd, m) \in Seq(Cell) /\ Len(Drawn(rnd, m)) = m
<1> DEFINE c == Drawn(rnd, m)
<1>1. c \in [1 .. m -> Cell]
  BY DEF Drawn, Cell
<1>2. c \in Seq(Cell)
  BY <1>1, SeqDef
<1>3. DOMAIN c = 1 .. m /\ DOMAIN c = 1 .. Len(c) /\ Len(c) \in Nat
  BY <1>1, <1>2, LenProperties
<1> QED BY <1>2, <1>3
FilledRandom(s, descs, W, L) ==
    [i \in 0 .. Len(descs) |->
        {p \in Work : /\ ChangedIn(p.s.mem, s.mem, descs) /\ p.s.rx = s.rx /\ p.s.out = s.out
                      /\ p.used <= W[i] /\ s.rnd + p.used <= p.s.rnd
                      /\ ~p.done => p.used = W[i] /\ s.rnd + p.used = p.s.rnd
                      /\ Put(p.s.mem, L, p.used, Drawn(s.rnd, W[Len(descs)]))}]
LEMMA RandomFills ==
    ASSUME kind = "rng", NEW s \in DevStates, NEW descs \in Seq(Descriptors), Apart2(descs),
           NEW W, NEW L, Laid(descs, TRUE, W, L)
    PROVE  \E p \in FilledRandom(s, descs, W, L)[Len(descs)] :
              fillRequest(s, descs) = Result(p.s, p.used)
<1> DEFINE n == Len(descs)
           X == Drawn(s.rnd, W[n])
           I == FilledRandom(s, descs, W, L)
<1>1. n \in Nat /\ W \in [0 .. n -> Nat] /\ W[0] = 0 /\ \A i \in 0 .. n : W[i] <= W[n]
  BY DEF Laid
<1>2. s.rnd \in Nat
  BY DEF DevStates
<1>3. Begin(s, 0) \in I[0]
  <2> DEFINE b == Begin(s, 0)
  <2>1. b \in Work /\ b.s = s /\ b.used = 0
    BY DEF Begin, Work
  <2> HIDE DEF b, X
  <2>2. Put(s.mem, L, 0, X) /\ ChangedIn(s.mem, s.mem, descs)
    BY DEF Put, ChangedIn
  <2>3. s.rnd + 0 = s.rnd /\ s.rnd <= s.rnd
    BY <1>2
  <2>4. b \in I[0]
    BY <1>1, <2>1, <2>2, <2>3 DEF FilledRandom, X
  <2> QED BY <2>4 DEF b
<1>4. ASSUME NEW i \in 1 .. n, NEW p \in I[i - 1]
      PROVE  (IF p.done THEN p ELSE FillRandom(p, descs[i])) \in I[i]
  <2> DEFINE d == descs[i]
  <2> HIDE DEF X
  <2>1. i \in 0 .. n /\ i - 1 \in 0 .. n
    BY <1>1
  <2>2. /\ p \in Work /\ ChangedIn(p.s.mem, s.mem, descs) /\ p.s.rx = s.rx /\ p.s.out = s.out
        /\ p.used <= W[i - 1] /\ s.rnd + p.used <= p.s.rnd
        /\ ~p.done => p.used = W[i - 1] /\ s.rnd + p.used = p.s.rnd
        /\ Put(p.s.mem, L, p.used, X)
    BY <2>1 DEF FilledRandom, X
  <2>3. p.s \in DevStates /\ p.used \in Nat /\ p.done \in BOOLEAN /\ p.ok \in BOOLEAN /\ p.at \in Nat
    BY <2>2 DEF Work
  <2>4. d \in Descriptors /\ p.s.rnd \in Nat
    BY <2>3, ElementOfSeq DEF DevStates
  <2>5. W[i] = W[i - 1] + (IF d.write = TRUE THEN d.len ELSE 0) /\ W[i] \in Nat /\ W[i - 1] \in Nat
        /\ W[i] <= W[n]
    BY <1>1, <2>1 DEF Laid
  <2>6. d.addr \in Nat /\ d.len \in Nat /\ d.write \in BOOLEAN
    BY <2>4, Writes
  <2> HIDE DEF d
  <2>7. W[i - 1] <= W[i] /\ p.used <= W[i]
    BY <2>2, <2>3, <2>5, <2>6
  <2>8. ASSUME p.done \/ ~Writable(d)  PROVE p \in I[i]
    <3>1. p.done \/ W[i] = W[i - 1]
      <4>1. ~Writable(d) => (IF d.write = TRUE THEN d.len ELSE 0) = 0
        BY <2>4, Writes
      <4>2. ~Writable(d) => W[i] = W[i - 1]
        BY <2>5, <4>1
      <4> QED BY <2>8, <4>2
    <3>2. ~p.done => p.used = W[i] /\ s.rnd + p.used = p.s.rnd
      BY <2>2, <3>1
    <3> QED BY <2>1, <2>2, <2>7, <3>2 DEF FilledRandom, X
  <2>9. ASSUME ~p.done, Writable(d)  PROVE FillRandom(p, d) \in I[i]
    <3> DEFINE cells == Drawn(p.s.rnd, d.len)
               g == copyToGuest(p.s, d.addr, cells)
               drawn == Least(d.len, Reachable(p.s.mem, d.addr, d.len) + 1)
               t == [g EXCEPT !.rnd = p.s.rnd + drawn]
    <3>1. d.write /\ W[i] = W[i - 1] + d.len /\ p.used = W[i - 1] /\ s.rnd + p.used = p.s.rnd
      <4>1. d.write /\ d.write = TRUE
        BY <2>4, <2>9, Writes
      <4> QED BY <2>2, <2>5, <2>9, <4>1
    <3>2. cells \in Seq(Cell) /\ Len(cells) = d.len /\ \A j \in 1 .. d.len : cells[j] = X[W[i - 1] + 0 + j]
      <4>1. cells \in Seq(Cell) /\ Len(cells) = d.len
        BY <2>4, <2>6, DrawnIs
      <4>2. ASSUME NEW j \in 1 .. d.len  PROVE cells[j] = X[W[i - 1] + 0 + j]
        <5>1. W[i - 1] + j \in 1 .. W[n] /\ W[i - 1] + 0 + j = W[i - 1] + j
          BY SMTT(30), <2>5, <2>6, <3>1, <1>1
        <5>2. X[W[i - 1] + j] = <<"rnd", s.rnd + (W[i - 1] + j), 0>>
          BY <5>1 DEF X, Drawn
        <5>3. cells[j] = <<"rnd", p.s.rnd + j, 0>>
          BY DEF Drawn
        <5>4. s.rnd + (W[i - 1] + j) = p.s.rnd + j
          BY <1>2, <2>4, <2>5, <3>1
        <5> QED BY <5>1, <5>2, <5>3, <5>4
      <4> QED BY <4>1, <4>2
    <3>3. cells = [j \in 1 .. d.len |-> <<"rnd", p.s.rnd + j, 0>>]
      BY DEF Drawn
    <3> HIDE DEF cells
    <3>4. /\ g \in DevStates /\ SameBut(g, p.s) /\ ChangedIn(g.mem, s.mem, descs)
          /\ Put(g.mem, L, p.used, X)
          /\ ~g.fault => Put(g.mem, L, p.used + d.len, X)
      <4>1. 0 \in 0 .. d.len /\ d.addr + 0 = d.addr /\ W[i - 1] + 0 = W[i - 1] /\ 0 + Len(cells) <= d.len
        BY <2>5, <2>6, <3>2
      <4>2. Put(p.s.mem, L, W[i - 1] + 0, X)
        BY <2>2, <3>1, <4>1
      <4>3. LET r == copyToGuest(p.s, d.addr + 0, cells)
            IN  /\ r \in DevStates /\ SameBut(r, p.s) /\ ChangedIn(r.mem, s.mem, descs)
                /\ Put(r.mem, L, W[i - 1] + 0, X)
                /\ ~r.fault /\ (\A j \in 1 .. Len(cells) : cells[j] = X[W[i - 1] + 0 + j])
                   => Put(r.mem, L, W[i - 1] + 0 + Len(cells), X)
        BY <2>2, <2>3, <3>1, <3>2, <4>1, <4>2, Filling DEF d
      <4> QED BY <3>1, <3>2, <4>1, <4>3
    <3>5. drawn \in Nat /\ (~g.fault => drawn = d.len)
      <4> DEFINE k == Reachable(p.s.mem, d.addr, d.len)
      <4>1. DOMAIN p.s.mem = InMemory
        BY <2>3 DEF DevStates
      <4>2. k \in 0 .. d.len /\ (k = d.len \/ d.addr + k \notin InMemory)
        BY <2>6, <4>1, ReachableIs
      <4>3. ~g.fault => \A j \in 1 .. Len(cells) : d.addr + j - 1 \in InMemory
        BY <2>3, <2>6, <3>2, Copying
      <4> HIDE DEF k, g, cells
      <4>4. ~g.fault => k = d.len
        <5>1. ASSUME ~g.fault, k # d.len  PROVE FALSE
          <6>1. k + 1 \in 1 .. Len(cells) /\ d.addr + (k + 1) - 1 = d.addr + k
            BY <2>6, <3>2, <4>2, <5>1
          <6> QED BY <4>2, <4>3, <5>1, <6>1
        <5> QED BY <5>1
      <4>5. drawn = Least(d.len, k + 1)
        BY DEF k
      <4> HIDE DEF drawn
      <4> QED BY <2>6, <4>2, <4>4, <4>5 DEF Least
    <3> HIDE DEF drawn
    <3>6. g.rnd = p.s.rnd /\ p.s.rnd + drawn \in Nat
      BY <2>4, <3>4, <3>5 DEF SameBut
    <3>7. /\ t \in DevStates /\ t.rx = g.rx /\ t.mem = g.mem /\ t.out = g.out /\ t.rnd = p.s.rnd + drawn
          /\ t.fault = g.fault
      <4> DEFINE x == p.s.rnd + drawn
      <4> HIDE DEF x, g
      <4> QED BY <3>4, <3>6, Changing DEF x
    <3>8. [g EXCEPT !.rnd = @ + drawn] = t
      <4> HIDE DEF g
      <4> QED BY <3>4, <3>6 DEF DevStates
    <3>9. FillRandom(p, d) = IF g.fault THEN Stop(p, fail(t)) ELSE [p EXCEPT !.s = t, !.used = @ + d.len]
      <4>1. FillRandom(p, d) = IF g.fault THEN Stop(p, fail([g EXCEPT !.rnd = @ + drawn]))
                               ELSE [p EXCEPT !.s = [g EXCEPT !.rnd = @ + drawn], !.used = @ + d.len]
        BY <2>9, <3>3, Zenon DEF FillRandom, drawn
      <4> QED BY <3>8, <4>1, Zenon
    <3> HIDE DEF g, t
    <3>10. CASE g.fault
      <4> DEFINE x == Stop(p, fail(t))
      <4>1. FillRandom(p, d) = x
        BY <3>9, <3>10
      <4>2. fail(t) \in DevStates /\ SameBut(fail(t), t) /\ fail(t).mem = t.mem
        BY <3>7, Changing
      <4>3. x \in Work /\ x.s = fail(t) /\ x.used = p.used /\ x.done = TRUE
        BY <2>2, <4>2 DEF Stop, Work
      <4> HIDE DEF x
      <4>4. /\ ChangedIn(x.s.mem, s.mem, descs) /\ x.s.rx = s.rx /\ x.s.out = s.out
            /\ Put(x.s.mem, L, x.used, X) /\ x.s.rnd = p.s.rnd + drawn
        BY <2>2, <3>4, <3>7, <4>2, <4>3 DEF SameBut
      <4>5. s.rnd + x.used <= x.s.rnd
        BY <1>2, <2>3, <2>4, <3>1, <3>5, <4>3, <4>4
      <4>6. x \in I[i]
        BY <2>1, <2>7, <4>3, <4>4, <4>5 DEF FilledRandom, X
      <4> QED BY <4>1, <4>6
    <3>11. CASE ~g.fault
      <4> DEFINE x == [p EXCEPT !.s = t, !.used = p.used + d.len]
      <4>1. FillRandom(p, d) = x
        BY <2>2, <3>9, <3>11 DEF Work
      <4>2. x \in Work /\ x.s = t /\ x.used = p.used + d.len /\ x.done = p.done
        <5>1. p.used + d.len \in Nat
          BY <2>3, <2>6
        <5> QED BY <2>2, <3>7, <5>1 DEF Work
      <4> HIDE DEF x
      <4>3. x.used = W[i] /\ x.used <= W[i]
        BY <2>5, <2>6, <3>1, <4>2
      <4>4. /\ ChangedIn(x.s.mem, s.mem, descs) /\ x.s.rx = s.rx /\ x.s.out = s.out
            /\ Put(x.s.mem, L, x.used, X) /\ x.s.rnd = p.s.rnd + d.len
        BY <2>2, <3>4, <3>5, <3>7, <3>11, <4>2 DEF SameBut
      <4>5. s.rnd + x.used = x.s.rnd /\ s.rnd + x.used <= x.s.rnd
        <5>1. x.s.rnd = p.s.rnd + d.len /\ s.rnd + p.used = p.s.rnd /\ x.used = p.used + d.len
          BY <3>1, <4>2, <4>4
        <5> QED BY <1>2, <2>3, <2>4, <2>6, <5>1
      <4>6. x \in I[i]
        BY <2>1, <4>2, <4>3, <4>4, <4>5 DEF FilledRandom, X
      <4> QED BY <4>1, <4>6
    <3> QED BY <3>10, <3>11
  <2> QED BY <2>8, <2>9 DEF FillRandom, d
<1> HIDE DEF I
<1> QED BY <1>3, <1>4, FillRandomRuns DEF I

(* The input device's status.                                             *)
Statuses(s, d) == [i \in 1 .. d.len \div Event |-> s.mem[d.addr + (i - 1) * Event]]
SendStatus(p, d) ==
    IF d.write \/ d.len < Event THEN p
    ELSE IF ~Mapped(p.s, d) THEN Stop(p, fail(p.s))
    ELSE [p EXCEPT !.s.out = @ \o Statuses(p.s, d), !.used = @ + d.len]
LEMMA SendStatusRuns ==
    ASSUME NEW s, NEW descs \in Seq(Descriptors), NEW I, Begin(s, 0) \in I[0],
           \A i \in 1 .. Len(descs) : \A p \in I[i - 1] :
              (IF p.done THEN p ELSE SendStatus(p, descs[i])) \in I[i]
    PROVE  \E p \in I[Len(descs)] : consumeStatus(s, descs) = Result(p.s, p.used)
<1> DEFINE n == Len(descs)
           b == Begin(s, 0)
           After(p, i) == IF p.done THEN p ELSE SendStatus(p, descs[i])
           S == UNION {I[i] : i \in 0 .. n}
           g == [z \in S \X (1 .. n) |-> After(z[1], z[2])]
           Is(f) == f = [i \in 0 .. n |-> IF i = 0 THEN b ELSE After(f[i - 1], i)]
<1>1. n \in Nat
  OBVIOUS
<1>2. \A i \in 1 .. n : \A p \in I[i - 1] : After(p, i) \in I[i]
  OBVIOUS
<1> HIDE DEF n, After
<1>3. \A i \in 1 .. n : \A p \in I[i - 1] : g[<<p, i>>] = After(p, i)
  <2>1. \A i \in 1 .. n : i - 1 \in 0 .. n
    BY <1>1
  <2> QED BY <2>1
<1> HIDE DEF g, b
<1>4. PICK f : UnrollsAlong(f, n, b, g, I)
  BY <1>1, <1>2, <1>3, RecursionAlong DEF b
<1>5. Is(f)
  <2>1. \A i \in 1 .. n : f[i - 1] \in I[i - 1]
    BY <1>1, <1>4 DEF UnrollsAlong
  <2>2. \A i \in 0 .. n : (IF i = 0 THEN b ELSE g[<<f[i - 1], i>>])
                          = (IF i = 0 THEN b ELSE After(f[i - 1], i))
    BY <1>1, <1>3, <2>1
  <2> QED BY <1>4, <2>2 DEF UnrollsAlong
<1> DEFINE r == CHOOSE h : Is(h)
<1>6. Is(r)
  BY <1>5, Zenon
<1>7. consumeStatus(s, descs) = Result(r[n].s, r[n].used)
  BY Zenon DEF consumeStatus, Over, Used, SendStatus, Statuses, After, b, n, Begin
<1> HIDE DEF r
<1>8. r[0] \in I[0] /\ \A i \in 1 .. n : r[i - 1] \in I[i - 1] => r[i] \in I[i]
  <2>1. r[0] = b /\ \A i \in 1 .. n : r[i] = After(r[i - 1], i)
    BY <1>1, <1>6
  <2> QED BY <1>2, <2>1 DEF b
<1>9. r[n] \in I[n]
  BY <1>1, <1>8, CarriedAlong
<1> QED BY <1>7, <1>9 DEF n

LEMMA StatusesAre ==
    ASSUME NEW s \in DevStates, NEW d \in Descriptors, Mapped(s, d)
    PROVE  Statuses(s, d) \in Seq(Cell)
<1>1. d.addr \in Nat /\ d.len \in Nat /\ Event \in Nat \ {0}
  BY RequestsAssumption DEF Descriptors
<1>2. s.mem \in [InMemory -> Cell] /\ DOMAIN s.mem = InMemory
  BY DEF DevStates
<1>3. \A j \in 0 .. d.len - 1 : d.addr + j \in InMemory
  <2>1. Reachable(s.mem, d.addr, d.len) = d.len
    BY DEF Mapped
  <2>2. \A j \in 0 .. Reachable(s.mem, d.addr, d.len) - 1 : d.addr + j \in DOMAIN s.mem
    BY <1>1, ReachableIs
  <2> QED BY <1>2, <2>1, <2>2
<1> DEFINE m == d.len \div Event
<1>4. m \in Nat /\ Event * m <= d.len
  BY <1>1
<1> HIDE DEF m
<1>5. ASSUME NEW i \in 1 .. m  PROVE s.mem[d.addr + (i - 1) * Event] \in Cell
  <2> DEFINE k == (i - 1) * Event
  <2>1. k \in Nat /\ k + Event <= m * Event
    BY <1>1, <1>4
  <2>2. m * Event = Event * m
    BY <1>1, <1>4
  <2> HIDE DEF k
  <2>3. k \in 0 .. d.len - 1
    <3>1. m * Event <= d.len /\ Event > 0 /\ Event \in Nat
      BY <1>1, <1>4, <2>2
    <3>2. m * Event \in Nat
      BY <1>1, <1>4
    <3> DEFINE x == m * Event
    <3> HIDE DEF x
    <3>3. x \in Nat /\ x <= d.len /\ k + Event <= x
      BY <2>1, <3>1, <3>2 DEF x
    <3> QED BY <1>1, <2>1, <3>1, <3>3
  <2>4. d.addr + k \in InMemory
    BY <1>3, <2>3
  <2> QED BY <1>2, <2>4 DEF k
<1>6. Statuses(s, d) \in [1 .. m -> Cell]
  BY <1>5 DEF Statuses, m
<1> QED BY <1>4, <1>6, SeqDef

SentStatus(s, descs) ==
    [i \in 0 .. Len(descs) |-> {p \in Work : p.s.mem = s.mem /\ p.s.rx = s.rx /\ p.s.rnd = s.rnd}]
LEMMA InputSends ==
    ASSUME kind = "input", NEW s \in DevStates, NEW descs \in Seq(Descriptors)
    PROVE  \E p \in SentStatus(s, descs)[Len(descs)] :
              consumeStatus(s, descs) = Result(p.s, p.used)
<1> DEFINE n == Len(descs)
           I == SentStatus(s, descs)
<1>1. n \in Nat
  OBVIOUS
<1>2. Begin(s, 0) \in I[0]
  BY <1>1 DEF Begin, Work, SentStatus
<1>3. ASSUME NEW i \in 1 .. n, NEW p \in I[i - 1]
      PROVE  (IF p.done THEN p ELSE SendStatus(p, descs[i])) \in I[i]
  <2> DEFINE d == descs[i]
  <2>1. i \in 0 .. n /\ i - 1 \in 0 .. n
    BY <1>1
  <2>2. p \in Work /\ p.s.mem = s.mem /\ p.s.rx = s.rx /\ p.s.rnd = s.rnd
    BY <2>1 DEF SentStatus
  <2>3. p.s \in DevStates /\ p.used \in Nat
    BY <2>2 DEF Work
  <2>4. d \in Descriptors
    BY ElementOfSeq
  <2>5. d.len \in Nat
    BY <2>4 DEF Descriptors
  <2> HIDE DEF d
  <2>6. p \in I[i]
    BY <2>1, <2>2 DEF SentStatus
  <2>7. CASE ~(d.write \/ d.len < Event) /\ ~Mapped(p.s, d)
    <3> DEFINE x == Stop(p, fail(p.s))
    <3>1. SendStatus(p, d) = x
      BY <2>7 DEF SendStatus
    <3>2. fail(p.s) \in DevStates /\ SameBut(fail(p.s), p.s) /\ fail(p.s).mem = p.s.mem
      BY <2>3, Changing
    <3>3. x \in Work /\ x.s = fail(p.s)
      BY <2>2, <3>2 DEF Stop, Work
    <3> HIDE DEF x
    <3>4. x \in I[i]
      BY <2>1, <2>2, <3>2, <3>3 DEF SentStatus, SameBut
    <3> QED BY <2>6, <3>1, <3>4 DEF d
  <2>8. CASE ~(d.write \/ d.len < Event) /\ Mapped(p.s, d)
    <3> DEFINE c == Statuses(p.s, d)
               out == p.s.out \o c
               t == [p.s EXCEPT !.out = out]
               x == [p EXCEPT !.s = t, !.used = p.used + d.len]
    <3>1. SendStatus(p, d) = x
      BY <2>2, <2>8 DEF SendStatus, Work, DevStates
    <3>2. out \in Seq(Message)
      <4>1. c \in Seq(Cell)
        BY <2>3, <2>4, <2>8, StatusesAre
      <4>2. Message = Cell /\ p.s.out \in Seq(Cell)
        BY <2>3 DEF Message, DevStates
      <4> HIDE DEF c
      <4> QED BY <4>1, <4>2, ConcatProperties
    <3> HIDE DEF out
    <3>3. t \in DevStates /\ t.rx = p.s.rx /\ t.mem = p.s.mem /\ t.out = out /\ t.rnd = p.s.rnd
      BY <2>3, <3>2, Changing
    <3> HIDE DEF t
    <3>4. x \in Work /\ x.s = t
      <4>1. p.used + d.len \in Nat
        BY <2>3, <2>5
      <4> QED BY <2>2, <3>3, <4>1 DEF Work
    <3> HIDE DEF x
    <3>5. x \in I[i]
      BY <2>1, <2>2, <3>3, <3>4 DEF SentStatus
    <3> QED BY <2>6, <3>1, <3>5 DEF d
  <2>9. CASE d.write \/ d.len < Event
    BY <2>6, <2>9 DEF SendStatus, d
  <2> QED BY <2>7, <2>8, <2>9
<1> HIDE DEF I
<1> QED BY <1>2, <1>3, SendStatusRuns DEF I

-----------------------------------------------------------------------------
(* Events.                                                                 *)
EventsOf(q) == FlattenSeq([i \in DOMAIN q |-> EventCells(q[i])])
LEMMA EventCellsAre ==
    \A e \in Nat : EventCells(e) \in Seq(Cell) /\ Len(EventCells(e)) = Event
<1> SUFFICES ASSUME NEW e \in Nat  PROVE EventCells(e) \in Seq(Cell) /\ Len(EventCells(e)) = Event
  OBVIOUS
<1> DEFINE c == EventCells(e)
<1>1. Event \in Nat
  BY RequestsAssumption
<1>2. c \in [1 .. Event -> Cell]
  BY DEF EventCells, Cell
<1>3. c \in Seq(Cell)
  BY <1>1, <1>2, SeqDef
<1>4. DOMAIN c = 1 .. Event /\ DOMAIN c = 1 .. Len(c) /\ Len(c) \in Nat
  BY <1>2, <1>3, LenProperties
<1> QED BY <1>1, <1>3, <1>4
LEMMA EachEvent ==
    ASSUME NEW q \in Seq(Nat)
    PROVE  LET x == [i \in DOMAIN q |-> EventCells(q[i])]
           IN  x \in Seq(Seq(Cell)) /\ Len(x) = Len(q) /\ \A i \in 1 .. Len(q) : x[i] = EventCells(q[i])
<1> DEFINE x == [i \in DOMAIN q |-> EventCells(q[i])]
<1>1. DOMAIN q = 1 .. Len(q) /\ Len(q) \in Nat /\ \A i \in 1 .. Len(q) : q[i] \in Nat
  BY LenProperties, ElementOfSeq
<1>2. x \in [1 .. Len(q) -> Seq(Cell)]
  BY <1>1, EventCellsAre
<1>3. x \in Seq(Seq(Cell))
  BY <1>1, <1>2, SeqDef
<1>4. DOMAIN x = 1 .. Len(x) /\ DOMAIN x = 1 .. Len(q) /\ Len(x) \in Nat
  BY <1>2, <1>3, LenProperties
<1>5. Len(x) = Len(q)
  BY <1>1, <1>4
<1> QED BY <1>1, <1>3, <1>5
LEMMA EventsConcat ==
    ASSUME NEW a \in Seq(Nat), NEW b \in Seq(Nat)
    PROVE  EventsOf(a \o b) = EventsOf(a) \o EventsOf(b)
<1> DEFINE x(q) == [i \in DOMAIN q |-> EventCells(q[i])]
<1>1. /\ a \o b \in Seq(Nat) /\ Len(a \o b) = Len(a) + Len(b)
      /\ \A i \in 1 .. Len(a) + Len(b) : (a \o b)[i] = IF i <= Len(a) THEN a[i] ELSE b[i - Len(a)]
  BY ConcatProperties
<1>2. \A q \in Seq(Nat) : /\ x(q) \in Seq(Seq(Cell)) /\ Len(x(q)) = Len(q)
                          /\ \A i \in 1 .. Len(q) : x(q)[i] = EventCells(q[i])
  BY EachEvent
<1>3. \A q : EventsOf(q) = FlattenSeq(x(q))
  BY DEF EventsOf
<1> HIDE DEF x
<1> DEFINE y == x(a) \o x(b)
<1>4. /\ y \in Seq(Seq(Cell)) /\ Len(y) = Len(a) + Len(b)
      /\ \A i \in 1 .. Len(a) + Len(b) : y[i] = IF i <= Len(a) THEN x(a)[i] ELSE x(b)[i - Len(a)]
  <2>1. x(a) \in Seq(Seq(Cell)) /\ x(b) \in Seq(Seq(Cell)) /\ Len(x(a)) = Len(a) /\ Len(x(b)) = Len(b)
    BY <1>2
  <2>2. /\ y \in Seq(Seq(Cell)) /\ Len(y) = Len(x(a)) + Len(x(b))
        /\ \A i \in 1 .. Len(x(a)) + Len(x(b)) : y[i] = IF i <= Len(x(a)) THEN x(a)[i] ELSE x(b)[i - Len(x(a))]
    BY <2>1, ConcatProperties, Zenon
  <2> QED BY <2>1, <2>2
<1> HIDE DEF y
<1>5. x(a \o b) = y
  <2>1. x(a \o b) \in Seq(Seq(Cell)) /\ Len(x(a \o b)) = Len(y)
    BY <1>1, <1>2, <1>4
  <2>2. ASSUME NEW i \in 1 .. Len(a) + Len(b)  PROVE x(a \o b)[i] = y[i]
    <3>1. x(a \o b)[i] = EventCells((a \o b)[i])
      BY <1>1, <1>2
    <3>2. CASE i <= Len(a)
      <4>1. i \in 1 .. Len(a)
        BY <3>2
      <4>2. x(a)[i] = EventCells(a[i])
        BY <1>2, <4>1
      <4> QED BY <1>1, <1>4, <3>1, <3>2, <4>2
    <3>3. CASE ~(i <= Len(a))
      <4>1. i - Len(a) \in 1 .. Len(b)
        BY <3>3
      <4>2. x(b)[i - Len(a)] = EventCells(b[i - Len(a)])
        BY <1>2, <4>1
      <4> QED BY <1>1, <1>4, <3>1, <3>3, <4>2
    <3> QED BY <3>2, <3>3
  <2>3. \A i \in 1 .. Len(x(a \o b)) : x(a \o b)[i] = y[i]
    BY <1>1, <1>2, <2>2
  <2> QED BY <1>4, <2>1, <2>3, SeqEqual
<1>6. FlattenSeq(y) = FlattenSeq(x(a)) \o FlattenSeq(x(b))
  BY <1>2, FlattenConcat DEF y
<1> QED BY <1>3, <1>5, <1>6
LEMMA EventsFirst ==
    ASSUME NEW q \in Seq(Nat)
    PROVE  /\ EventsOf(q) \in Seq(Cell)
           /\ q # <<>> => /\ EventsOf(q) = EventCells(q[1]) \o EventsOf(Tail(q))
                          /\ q[1] \in Nat /\ Tail(q) \in Seq(Nat)
<1>1. EventsOf(q) \in Seq(Cell)
  <2> DEFINE x == [i \in DOMAIN q |-> EventCells(q[i])]
  <2>1. x \in Seq(Seq(Cell))
    BY EachEvent
  <2> HIDE DEF x
  <2>2. \E f \in [0 .. Len(x) -> Seq(Cell)] : f[0] = <<>> /\ FlattenSeq(x) = f[Len(x)]
    BY <2>1, FlattenRun
  <2>3. Len(x) \in 0 .. Len(x)
    BY <2>1, LenProperties
  <2>4. FlattenSeq(x) \in Seq(Cell)
    BY <2>2, <2>3
  <2> QED BY <2>4 DEF x, EventsOf
<1>2. ASSUME q # <<>>
      PROVE  /\ EventsOf(q) = EventCells(q[1]) \o EventsOf(Tail(q))
             /\ q[1] \in Nat /\ Tail(q) \in Seq(Nat)
  <2>1. Len(q) \in Nat \ {0} /\ q[1] \in Nat /\ Tail(q) \in Seq(Nat)
    <3>1. Len(q) \in Nat \ {0}
      BY <1>2, EmptySeq
    <3>2. 1 \in 1 .. Len(q)
      BY <3>1
    <3> QED BY <1>2, <3>1, <3>2, ElementOfSeq, HeadTailProperties
  <2> DEFINE e == q[1]
             c == EventCells(e)
             x == [i \in DOMAIN <<e>> |-> EventCells(<<e>>[i])]
             f == [i \in 0 .. 1 |-> IF i = 0 THEN <<>> ELSE c]
  <2>2. q = <<e>> \o Tail(q)
    <3>1. 1 \in 1 .. Len(q) /\ Len(q) \in 1 .. Len(q)
      BY <2>1
    <3>2. SubSeq(q, 1, Len(q)) = <<q[1]>> \o SubSeq(q, 1 + 1, Len(q))
      BY <3>1, SubSeqRecursiveFirst
    <3>3. SubSeq(q, 1, Len(q)) = q /\ Tail(q) = SubSeq(q, 2, Len(q)) /\ 1 + 1 = 2
      BY <1>2, SubSeqFull, TailIsSubSeq
    <3> QED BY <3>2, <3>3
  <2>3. <<e>> \in Seq(Nat) /\ Len(<<e>>) = 1
    BY <2>1
  <2>4. EventsOf(<<e>>) = c
    <3>1. x \in Seq(Seq(Cell)) /\ Len(x) = 1 /\ x[1] = EventCells(<<e>>[1])
      <4>1. 1 \in 1 .. 1
        OBVIOUS
      <4> HIDE DEF e
      <4> QED BY <2>3, <4>1, EachEvent
    <3>2. x[1] = c /\ c \in Seq(Cell)
      BY <2>1, <3>1, EventCellsAre
    <3> HIDE DEF x, c
    <3>3. <<>> \o c = c
      BY <3>2, ConcatEmptySeq
    <3>4. f[0] = <<>> /\ f[1] = c
      OBVIOUS
    <3> HIDE DEF f
    <3>5. \A i \in 1 .. Len(x) : f[i] = f[i - 1] \o x[i]
      <4>1. \A i \in 1 .. Len(x) : i = 1 /\ i - 1 = 0
        BY <3>1
      <4> QED BY <3>2, <3>3, <3>4, <4>1
    <3>6. FlattenSeq(x) = f[Len(x)]
      BY <3>1, <3>4, <3>5, FlattenUnrolled
    <3> QED BY <3>1, <3>4, <3>6 DEF x, EventsOf
  <2>5. EventsOf(<<e>> \o Tail(q)) = EventsOf(<<e>>) \o EventsOf(Tail(q))
    BY <2>1, <2>3, EventsConcat
  <2> HIDE DEF c
  <2>6. EventsOf(q) = c \o EventsOf(Tail(q))
    BY <2>2, <2>4, <2>5
  <2> QED BY <2>1, <2>6 DEF c
<1> QED BY <1>1, <1>2

(* One event, as many as fit a descriptor, a chain of one.                 *)
PutEvent(p, d) ==
    LET given1 == copyToGuest([p.s EXCEPT !.rx = Tail(@)], d.addr + p.used, EventCells(p.s.rx[1]))
    IN  IF (d.len - p.used) % LenMod < Event \/ p.s.rx = <<>> THEN p
        ELSE IF given1.fault THEN Stop(p, fail(given1))
        ELSE [p EXCEPT !.s = given1, !.used = @ + Event, !.done = given1.rx = <<>>]
MoreEvents(p, d) == IF p.done THEN p ELSE PutEvent(p, d)
EventsIn(p, d) ==
    LET Done1[i \in 0 .. Len(p.s.rx)] == IF i = 0 THEN p ELSE MoreEvents(Done1[i - 1], d)
    IN  Done1[Len(p.s.rx)]
LEMMA EventsInStay ==
    ASSUME NEW J, NEW p \in J, NEW d, Len(p.s.rx) \in Nat, \A x \in J : MoreEvents(x, d) \in J
    PROVE  EventsIn(p, d) \in J
<1> DEFINE n == Len(p.s.rx)
           g == [z \in J \X (1 .. n) |-> MoreEvents(z[1], d)]
           Is(f) == f = [i \in 0 .. n |-> IF i = 0 THEN p ELSE MoreEvents(f[i - 1], d)]
<1>1. n \in Nat
  OBVIOUS
<1> HIDE DEF n
<1>2. g \in [J \X (1 .. n) -> J]
  OBVIOUS
<1>3. PICK f \in [0 .. n -> J] : Unrolls(f, n, p, g)
  <2> HIDE DEF g
  <2> QED BY <1>1, <1>2, Recursion
<1>4. Is(f)
  <2>1. \A i \in 1 .. n : g[<<f[i - 1], i>>] = MoreEvents(f[i - 1], d)
    <3>1. \A i \in 1 .. n : f[i - 1] \in J
      BY <1>1, <1>3
    <3> QED BY <3>1
  <2> HIDE DEF g
  <2>2. \A i \in 0 .. n : (IF i = 0 THEN p ELSE g[<<f[i - 1], i>>])
                          = (IF i = 0 THEN p ELSE MoreEvents(f[i - 1], d))
    BY <1>1, <2>1
  <2> QED BY <1>3, <2>2 DEF Unrolls
<1> DEFINE r == CHOOSE h : Is(h)
<1>5. Is(r)
  BY <1>4, Zenon
<1>6. EventsIn(p, d) = r[n]
  BY Zenon DEF EventsIn, n
<1> HIDE DEF r
<1>7. r[0] \in J /\ \A i \in 1 .. n : r[i - 1] \in J => r[i] \in J
  <2>1. r[0] = p /\ \A i \in 1 .. n : r[i] = MoreEvents(r[i - 1], d)
    BY <1>1, <1>5
  <2> QED BY <2>1
<1>8. r[n] \in J
  BY <1>1, <1>7, Carried
<1> QED BY <1>6, <1>8

(* The input device's events.                                             *)
FillInput(p, d) == IF ~d.write \/ d.len < Event THEN p ELSE EventsIn(p, d)
LEMMA FillInputRuns ==
    ASSUME NEW s, NEW descs \in Seq(Descriptors), NEW I, Begin(s, 0) \in I[0],
           \A i \in 1 .. Len(descs) : \A p \in I[i - 1] :
              (IF p.done THEN p ELSE FillInput(p, descs[i])) \in I[i]
    PROVE  \E p \in I[Len(descs)] : fillEvent(s, descs) = Result(p.s, p.used)
<1> DEFINE n == Len(descs)
           b == Begin(s, 0)
           After(p, i) == IF p.done THEN p ELSE FillInput(p, descs[i])
           S == UNION {I[i] : i \in 0 .. n}
           g == [z \in S \X (1 .. n) |-> After(z[1], z[2])]
           Is(f) == f = [i \in 0 .. n |-> IF i = 0 THEN b ELSE After(f[i - 1], i)]
<1>1. n \in Nat
  OBVIOUS
<1>2. \A i \in 1 .. n : \A p \in I[i - 1] : After(p, i) \in I[i]
  OBVIOUS
<1> HIDE DEF n, After
<1>3. \A i \in 1 .. n : \A p \in I[i - 1] : g[<<p, i>>] = After(p, i)
  <2>1. \A i \in 1 .. n : i - 1 \in 0 .. n
    BY <1>1
  <2> QED BY <2>1
<1> HIDE DEF g, b
<1>4. PICK f : UnrollsAlong(f, n, b, g, I)
  BY <1>1, <1>2, <1>3, RecursionAlong DEF b
<1>5. Is(f)
  <2>1. \A i \in 1 .. n : f[i - 1] \in I[i - 1]
    BY <1>1, <1>4 DEF UnrollsAlong
  <2>2. \A i \in 0 .. n : (IF i = 0 THEN b ELSE g[<<f[i - 1], i>>])
                          = (IF i = 0 THEN b ELSE After(f[i - 1], i))
    BY <1>1, <1>3, <2>1
  <2> QED BY <1>4, <2>2 DEF UnrollsAlong
<1> DEFINE r == CHOOSE h : Is(h)
<1>6. Is(r)
  BY <1>5, Zenon
<1>7. fillEvent(s, descs) = Result(r[n].s, r[n].used)
  BY Zenon DEF fillEvent, Over, Used, FillInput, EventsIn, MoreEvents, PutEvent, After, b, n, Begin
<1> HIDE DEF r
<1>8. r[0] \in I[0] /\ \A i \in 1 .. n : r[i - 1] \in I[i - 1] => r[i] \in I[i]
  <2>1. r[0] = b /\ \A i \in 1 .. n : r[i] = After(r[i - 1], i)
    BY <1>1, <1>6
  <2> QED BY <1>2, <2>1 DEF b
<1>9. r[n] \in I[n]
  BY <1>1, <1>8, CarriedAlong
<1> QED BY <1>7, <1>9 DEF n

LEMMA Concatenated ==
    ASSUME NEW S, NEW x \in Seq(S), NEW y \in Seq(S)
    PROVE  /\ x \o y \in Seq(S) /\ Len(x \o y) = Len(x) + Len(y)
           /\ \A k \in 1 .. Len(x) : (x \o y)[k] = x[k]
           /\ \A j \in 1 .. Len(y) : (x \o y)[Len(x) + j] = y[j]
<1> DEFINE z == x \o y
           n == Len(x)
           m == Len(y)
<1>1. /\ z \in Seq(S) /\ Len(z) = n + m
      /\ \A i \in 1 .. n + m : z[i] = IF i <= n THEN x[i] ELSE y[i - n]
  BY ConcatProperties
<1>2. n \in Nat /\ m \in Nat
  OBVIOUS
<1> HIDE DEF z, n, m
<1>3. ASSUME NEW k \in 1 .. n  PROVE z[k] = x[k]
  <2>1. k \in 1 .. n + m /\ k <= n
    BY <1>2
  <2> QED BY <1>1, <2>1
<1>4. ASSUME NEW j \in 1 .. m  PROVE z[n + j] = y[j]
  <2>1. n + j \in 1 .. n + m /\ ~(n + j <= n) /\ (n + j) - n = j
    BY <1>2
  <2> QED BY <1>1, <2>1
<1> QED BY <1>1, <1>3, <1>4 DEF z, n, m

(* What has been put is Y, and what waits follows it.                      *)
PutSoFar(s, L, Y, p) ==
    /\ Y \in Seq(Cell) /\ Len(Y) = p.used /\ EventsOf(s.rx) = Y \o EventsOf(p.s.rx)
    /\ Put(p.s.mem, L, p.used, Y)
FilledInput(s, descs, W, L) ==
    {p \in Work : /\ ChangedIn(p.s.mem, s.mem, descs) /\ p.s.out = s.out /\ p.s.rnd = s.rnd
                  /\ p.used <= W[Len(descs)] /\ \E Y : PutSoFar(s, L, Y, p)}
LEMMA PutEventStays ==
    ASSUME kind = "input", NEW s \in DevStates,
           NEW descs \in Seq(Descriptors), Apart2(descs), Len(descs) = 1, descs[1].write,
           Span(descs[1]) \subseteq InMemory, descs[1].len < LenMod,
           NEW W, NEW L, Laid(descs, TRUE, W, L), NEW p \in FilledInput(s, descs, W, L)
    PROVE  MoreEvents(p, descs[1]) \in FilledInput(s, descs, W, L)
<1> DEFINE d == descs[1]
           J == FilledInput(s, descs, W, L)
<1>1. d \in Descriptors /\ 1 \in 1 .. Len(descs)
  <2>1. 1 \in 1 .. Len(descs)
    OBVIOUS
  <2>2. descs[1] \in Descriptors
    BY <2>1, ElementOfSeq, Zenon
  <2> QED BY <2>1, <2>2
<1>2. d.addr \in Nat /\ d.len \in Nat /\ d.write = TRUE /\ LenMod \in Nat \ {0} /\ Event \in Nat \ {0}
  <2>1. d.addr \in Nat /\ d.len \in Nat /\ d.write \in BOOLEAN
    BY <1>1 DEF Descriptors
  <2>2. d.write
    OBVIOUS
  <2> HIDE DEF d
  <2> QED BY <2>1, <2>2, RequestsAssumption
<1>3. W[0] = 0 /\ W[1] = d.len
  <2>1. W[0] = 0
    BY DEF Laid
  <2>2. W[1] = W[1 - 1] + (IF d.write = TRUE THEN d.len ELSE 0)
    BY <1>1 DEF Laid
  <2> HIDE DEF d
  <2> QED BY <1>2, <2>1, <2>2
<1>4. /\ p \in Work /\ ChangedIn(p.s.mem, s.mem, descs) /\ p.s.out = s.out /\ p.s.rnd = s.rnd
      /\ p.used <= d.len
  BY <1>3 DEF FilledInput
<1>5. PICK Y : PutSoFar(s, L, Y, p)
  BY DEF FilledInput
<1>6. p.s \in DevStates /\ p.used \in Nat /\ p.done \in BOOLEAN /\ p.ok \in BOOLEAN /\ p.at \in Nat
  BY <1>4 DEF Work
<1>7. p.s.rx \in Seq(Nat) /\ Datum(kind) = Nat
  <2>1. Datum(kind) = Nat
    BY DEF Datum
  <2> QED BY <1>6, <2>1 DEF DevStates
<1> DEFINE u == p.used
           room == (d.len - u) % LenMod
<1>8. room = d.len - u
  <2> HIDE DEF d
  <2>1. d.len - u \in Nat /\ d.len - u < LenMod
    BY <1>2, <1>4, <1>6 DEF d
  <2> QED BY <1>2, <2>1
<1>9. CASE p.done \/ room < Event \/ p.s.rx = <<>>
  <2>1. MoreEvents(p, d) = p
    BY <1>9 DEF MoreEvents, PutEvent
  <2> QED BY <2>1
<1>10. ASSUME ~p.done, ~(room < Event), p.s.rx # <<>>  PROVE MoreEvents(p, d) \in J
  <2> DEFINE x == p.s.rx[1]
             rest == Tail(p.s.rx)
             cells == EventCells(x)
             q == [p.s EXCEPT !.rx = rest]
             g == copyToGuest(q, d.addr + u, cells)
             Y2 == Y \o cells
  <2>1. x \in Nat /\ rest \in Seq(Nat) /\ EventsOf(p.s.rx) = cells \o EventsOf(rest)
    BY <1>7, <1>10, EventsFirst
  <2>2. cells \in Seq(Cell) /\ Len(cells) = Event
    BY <2>1, EventCellsAre
  <2>3. /\ Y \in Seq(Cell) /\ Len(Y) = u /\ EventsOf(s.rx) = Y \o EventsOf(p.s.rx)
        /\ Put(p.s.mem, L, u, Y)
    BY <1>5 DEF PutSoFar
  <2>4. q \in DevStates /\ q.rx = rest /\ q.mem = p.s.mem /\ q.out = p.s.out /\ q.rnd = p.s.rnd
    <3>1. rest \in Seq(Datum(kind)) /\ p.s \in DevStates
      BY <1>6, <1>7, <2>1
    <3> HIDE DEF rest
    <3> QED BY <3>1, Changing
  <2>5. [p.s EXCEPT !.rx = Tail(@)] = q
    BY <1>6 DEF DevStates
  <2>6. MoreEvents(p, d) = IF g.fault THEN Stop(p, fail(g))
                           ELSE [p EXCEPT !.s = g, !.used = @ + Event, !.done = g.rx = <<>>]
    <3> HIDE DEF q
    <3> QED BY <1>10, <2>5 DEF MoreEvents, PutEvent
  <2> HIDE DEF q, cells, x, rest
  <2>7. /\ Y2 \in Seq(Cell) /\ Len(Y2) = u + Event
        /\ \A k \in 1 .. u : Y2[k] = Y[k]
        /\ \A j \in 1 .. Event : Y2[u + j] = cells[j]
    <3>1. Y \in Seq(Cell) /\ cells \in Seq(Cell)
      BY <2>2, <2>3
    <3>2. /\ Y \o cells \in Seq(Cell) /\ Len(Y \o cells) = Len(Y) + Len(cells)
          /\ \A k \in 1 .. Len(Y) : (Y \o cells)[k] = Y[k]
          /\ \A j \in 1 .. Len(cells) : (Y \o cells)[Len(Y) + j] = cells[j]
      BY <3>1, Concatenated
    <3>3. Len(Y) = u /\ Len(cells) = Event
      BY <2>2, <2>3
    <3> HIDE DEF u
    <3> QED BY <3>2, <3>3
  <2>8. EventsOf(s.rx) = Y2 \o EventsOf(rest)
    <3>1. EventsOf(rest) \in Seq(Cell)
      BY <2>1, EventsFirst
    <3>2. (Y \o cells) \o EventsOf(rest) = Y \o (cells \o EventsOf(rest))
      <4> DEFINE a == EventsOf(rest)
                 T == Seq(Cell)
      <4>1. \A b, c, e \in T : (b \o c) \o e = b \o (c \o e)
        <5>1. Associates(T)
          BY Associative
        <5> HIDE DEF T
        <5> QED BY <5>1 DEF Associates
      <4>2. Y \in T /\ cells \in T /\ a \in T
        BY <2>2, <2>3, <3>1
      <4> HIDE DEF a, T
      <4>3. (Y \o cells) \o a = Y \o (cells \o a)
        BY <4>1, <4>2
      <4> QED BY <4>3 DEF a
    <3> QED BY <2>1, <2>3, <3>2
  <2> HIDE DEF Y2
  <2>9. /\ g \in DevStates /\ SameBut(g, q) /\ ChangedIn(g.mem, s.mem, descs)
        /\ ~g.fault => Put(g.mem, L, u + Event, Y2)
    <3>1. u \in 0 .. d.len /\ W[1 - 1] + u = u /\ u + Len(cells) <= d.len
      <4> HIDE DEF d, room
      <4>1. room >= Event /\ room = d.len - u
        BY <1>2, <1>4, <1>6, <1>8, <1>10
      <4> QED BY <1>2, <1>3, <1>4, <1>6, <2>2, <4>1
    <3>2. Put(q.mem, L, W[1 - 1] + u, Y2)
      <4>1. Put(p.s.mem, L, u, Y2)
        BY <2>3, <2>7 DEF Put
      <4> QED BY <2>4, <3>1, <4>1
    <3>3. ChangedIn(q.mem, s.mem, descs)
      BY <1>4, <2>4
    <3>4. LET r == copyToGuest(q, d.addr + u, cells)
          IN  /\ r \in DevStates /\ SameBut(r, q) /\ ChangedIn(r.mem, s.mem, descs)
              /\ Put(r.mem, L, W[1 - 1] + u, Y2)
              /\ ~r.fault /\ (\A j \in 1 .. Len(cells) : cells[j] = Y2[W[1 - 1] + u + j])
                 => Put(r.mem, L, W[1 - 1] + u + Len(cells), Y2)
      <4> DEFINE v == u
      <4>1. v \in 0 .. descs[1].len /\ v + Len(cells) <= descs[1].len /\ Put(q.mem, L, W[1 - 1] + v, Y2)
        BY <3>1, <3>2
      <4> HIDE DEF v
      <4>2. LET r == copyToGuest(q, descs[1].addr + v, cells)
            IN  /\ r \in DevStates /\ SameBut(r, q) /\ ChangedIn(r.mem, s.mem, descs)
                /\ Put(r.mem, L, W[1 - 1] + v, Y2)
                /\ ~r.fault /\ (\A j \in 1 .. Len(cells) : cells[j] = Y2[W[1 - 1] + v + j])
                   => Put(r.mem, L, W[1 - 1] + v + Len(cells), Y2)
        BY <1>1, <2>2, <2>4, <3>3, <4>1, Filling
      <4> QED BY <4>2 DEF v
    <3>5. \A j \in 1 .. Len(cells) : cells[j] = Y2[W[1 - 1] + u + j]
      BY <2>2, <2>7, <3>1
    <3> HIDE DEF d
    <3> QED BY <2>2, <3>1, <3>4, <3>5
  <2>10. ~g.fault
    <3> DEFINE a == d.addr + u
    <3>1. a \in Nat /\ a .. a + Len(cells) - 1 \subseteq Span(d)
      <4> HIDE DEF d, room, u
      <4>0. u \in Nat
        BY <1>6 DEF u
      <4>1. room >= Event /\ room = d.len - u
        <5>1. room \in Int
          BY <1>2, <1>8, <4>0
        <5> QED BY <1>2, <1>8, <1>10, <5>1
      <4>2. a \in Nat /\ d.addr <= a /\ a + Len(cells) - 1 <= d.addr + d.len - 1
        BY SMTT(30), <1>2, <2>2, <4>0, <4>1 DEF a
      <4> HIDE DEF a
      <4> QED BY <1>2, <2>2, <4>2 DEF Span
    <3>2. a .. a + Len(cells) - 1 \subseteq InMemory
      BY <3>1
    <3> HIDE DEF a
    <3>3. ~copyToGuest(q, a, cells).fault
      BY <2>2, <2>4, <3>1, <3>2, Copying
    <3> QED BY <3>3 DEF a
  <2> HIDE DEF g
  <2> DEFINE empty == g.rx = <<>>
             y == [p EXCEPT !.s = g, !.used = u + Event, !.done = empty]
  <2>11. MoreEvents(p, d) = y
    BY <1>4, <2>6, <2>10 DEF Work
  <2>12. y \in Work /\ y.s = g /\ y.used = u + Event
    <3>1. empty \in BOOLEAN /\ u + Event \in Nat
      BY <1>2, <1>6
    <3> HIDE DEF empty
    <3> QED BY <1>4, <2>9, <3>1 DEF Work
  <2> HIDE DEF y
  <2>13. u + Event <= d.len
    <3> HIDE DEF d, room
    <3>1. room >= Event /\ room = d.len - u
      BY <1>2, <1>4, <1>6, <1>8, <1>10
    <3> QED BY <1>2, <1>6, <3>1
  <2>14. PutSoFar(s, L, Y2, y)
    BY <2>4, <2>7, <2>8, <2>9, <2>10, <2>12 DEF PutSoFar, SameBut
  <2>15. y \in J
    <3>1. y.s.out = s.out /\ y.s.rnd = s.rnd /\ ChangedIn(y.s.mem, s.mem, descs)
      BY <1>4, <2>4, <2>9, <2>12 DEF SameBut
    <3>2. y.used <= W[Len(descs)]
      BY <1>3, <2>12, <2>13
    <3> QED BY <2>12, <2>14, <3>1, <3>2 DEF FilledInput
  <2> QED BY <2>11, <2>15
<1> QED BY <1>9, <1>10

-----------------------------------------------------------------------------
(* What a request takes from the host and gives it.                        *)
(* What a driver lends the input device: a descriptor in memory.           *)
OneBuffer(descs) ==
    Len(descs) <= 1 /\ \A i \in DOMAIN descs :
        descs[i].write => Span(descs[i]) \subseteq InMemory /\ descs[i].len < LenMod
LEMMA InputFills ==
    ASSUME kind = "input", NEW s \in DevStates, NEW descs \in Seq(Descriptors), Apart2(descs),
           OneBuffer(descs), NEW W, NEW L, Laid(descs, TRUE, W, L)
    PROVE  \E p \in FilledInput(s, descs, W, L) : fillEvent(s, descs) = Result(p.s, p.used)
<1> DEFINE J == FilledInput(s, descs, W, L)
           I == [i \in 0 .. Len(descs) |-> J]
           b == Begin(s, 0)
<1>1. b \in J
  <2>1. b \in Work /\ b.s = s /\ b.used = 0
    BY DEF Work, Begin
  <2>2. EventsOf(s.rx) \in Seq(Cell)
    <3>1. s.rx \in Seq(Nat)
      <4>1. Datum(kind) = Nat
        BY DEF Datum
      <4> QED BY <4>1 DEF DevStates
    <3> QED BY <3>1, EventsFirst
  <2>3. PutSoFar(s, L, <<>>, b)
    <3>1. EventsOf(s.rx) = <<>> \o EventsOf(s.rx)
      <4> DEFINE e == EventsOf(s.rx)
      <4>1. e \in Seq(Cell)
        BY <2>2
      <4> HIDE DEF e
      <4>2. e = <<>> \o e
        BY <4>1, ConcatEmptySeq
      <4> QED BY <4>2 DEF e
    <3>2. <<>> \in Seq(Cell) /\ Len(<<>>) = 0
      BY EmptySeq
    <3> QED BY <2>1, <3>1, <3>2 DEF PutSoFar, Put
  <2>4. ChangedIn(s.mem, s.mem, descs) /\ 0 <= W[Len(descs)]
    BY DEF ChangedIn, Laid
  <2> HIDE DEF b
  <2> QED BY <2>1, <2>3, <2>4 DEF FilledInput
<1>2. ASSUME NEW i \in 1 .. Len(descs), NEW p \in J
      PROVE  (IF p.done THEN p ELSE FillInput(p, descs[i])) \in J
  <2>1. i = 1 /\ Len(descs) = 1 /\ 1 \in DOMAIN descs
    BY DEF OneBuffer
  <2>2. CASE p.done \/ ~descs[1].write \/ descs[1].len < Event
    BY <2>1, <2>2 DEF FillInput
  <2>3. CASE ~p.done /\ descs[1].write /\ ~(descs[1].len < Event)
    <3>1. \A x \in J : MoreEvents(x, descs[1]) \in J
      BY <2>1, <2>3, PutEventStays DEF OneBuffer
    <3>2. Len(p.s.rx) \in Nat
      BY DEF FilledInput, Work, DevStates
    <3>3. EventsIn(p, descs[1]) \in J
      <4> HIDE DEF J
      <4> QED BY <3>1, <3>2, EventsInStay
    <3> HIDE DEF J
    <3> QED BY <2>1, <2>3, <3>3 DEF FillInput
  <2> QED BY <2>2, <2>3
<1>3. \A i \in 1 .. Len(descs) : \A p \in I[i - 1] :
         (IF p.done THEN p ELSE FillInput(p, descs[i])) \in I[i]
  <2>1. \A i \in 1 .. Len(descs) : I[i - 1] = J /\ I[i] = J
    <3> HIDE DEF J
    <3> QED OBVIOUS
  <2> HIDE DEF I, J
  <2> QED BY <1>2, <2>1
<1>4. I[0] = J /\ I[Len(descs)] = J
  <2> HIDE DEF J
  <2> QED OBVIOUS
<1> HIDE DEF I, J
<1>5. \E p \in I[Len(descs)] : fillEvent(s, descs) = Result(p.s, p.used)
  BY <1>1, <1>3, <1>4, FillInputRuns DEF b
<1> QED BY <1>4, <1>5 DEF J
(* A chain is a sequence of descriptors.                                   *)
Follow1(w, table, limit) ==
    IF w.stop THEN w
    ELSE IF w.id >= limit \/ w.id \in w.seen \/ w.id \notin DOMAIN table
            \/ table[w.id].indirect
    THEN [w EXCEPT !.stop = TRUE]
    ELSE LET d == table[w.id]
         IN  [id |-> d.to, seen |-> w.seen \cup {w.id}, out |-> Append(w.out, d),
              stop |-> ~d.next, ok |-> ~d.next]
LEMMA WalkedIs ==
    ASSUME NEW table, \A x \in DOMAIN table : table[x] \in Descriptors,
           NEW head \in Nat, NEW limit \in Nat
    PROVE  Walked(table, head, limit).out \in Seq(Descriptors)
           /\ Walked(table, head, limit).ok \in BOOLEAN
<1> DEFINE S == [id : Nat, seen : SUBSET Nat, out : Seq(Descriptors), stop : BOOLEAN, ok : BOOLEAN]
           b == [id |-> head, seen |-> {}, out |-> <<>>, stop |-> FALSE, ok |-> FALSE]
           Next1(x) == Follow1(x, table, limit)
           g == [z \in S \X (1 .. limit) |-> Next1(z[1])]
           Is(f) == f = [i \in 0 .. limit |-> IF i = 0 THEN b ELSE Next1(f[i - 1])]
<1>1. b \in S
  <2>1. <<>> \in Seq(Descriptors)
    BY EmptySeq
  <2> QED BY <2>1
<1>2. ASSUME NEW x \in S  PROVE Next1(x) \in S
  <2> DEFINE d == table[x.id]
             y == [id |-> d.to, seen |-> x.seen \cup {x.id}, out |-> Append(x.out, d),
                   stop |-> ~d.next, ok |-> ~d.next]
  <2>1. [x EXCEPT !.stop = TRUE] \in S
    OBVIOUS
  <2>2. x.id \in DOMAIN table => y \in S
    <3> SUFFICES ASSUME x.id \in DOMAIN table  PROVE y \in S
      OBVIOUS
    <3>1. d \in Descriptors /\ x.out \in Seq(Descriptors) /\ x.id \in Nat /\ x.seen \in SUBSET Nat
      OBVIOUS
    <3>2. d.to \in Nat /\ d.next \in BOOLEAN
      BY <3>1 DEF Descriptors
    <3> HIDE DEF d
    <3>3. Append(x.out, d) \in Seq(Descriptors)
      BY <3>1, AppendProperties
    <3> DEFINE o == Append(x.out, d)
    <3>4. o \in Seq(Descriptors)
      BY <3>3
    <3> HIDE DEF o
    <3> DEFINE nx == ~d.next
    <3>5. nx \in BOOLEAN
      OBVIOUS
    <3> HIDE DEF nx
    <3>6. [id |-> d.to, seen |-> x.seen \cup {x.id}, out |-> o, stop |-> nx, ok |-> nx] \in S
      BY <3>1, <3>2, <3>4, <3>5
    <3> QED BY <3>6 DEF o, nx
  <2> DEFINE c == x.id >= limit \/ x.id \in x.seen \/ x.id \notin DOMAIN table \/ table[x.id].indirect
  <2>3. Next1(x) = IF x.stop THEN x ELSE IF c THEN [x EXCEPT !.stop = TRUE] ELSE y
    BY DEF Follow1
  <2>4. ~c => x.id \in DOMAIN table
    OBVIOUS
  <2> HIDE DEF c, y, Next1, S
  <2> QED BY <2>1, <2>2, <2>3, <2>4
<1> HIDE DEF Next1
<1>3. g \in [S \X (1 .. limit) -> S]
  <2> HIDE DEF S
  <2> QED BY <1>2
<1>4. PICK f \in [0 .. limit -> S] : Unrolls(f, limit, b, g)
  <2> HIDE DEF g, S, b
  <2> QED BY <1>1, <1>3, Recursion
<1>5. Is(f)
  <2> HIDE DEF S, b
  <2>1. \A i \in 1 .. limit : g[<<f[i - 1], i>>] = Next1(f[i - 1])
    <3>1. \A i \in 1 .. limit : f[i - 1] \in S
      BY <1>4
    <3> QED BY <3>1
  <2>2. f = [i \in 0 .. limit |-> IF i = 0 THEN b ELSE g[<<f[i - 1], i>>]]
    BY <1>4 DEF Unrolls
  <2> HIDE DEF g
  <2>3. \A i \in 0 .. limit : (IF i = 0 THEN b ELSE g[<<f[i - 1], i>>])
                              = (IF i = 0 THEN b ELSE Next1(f[i - 1]))
    BY <2>1
  <2> QED BY <2>2, <2>3
<1> DEFINE r == CHOOSE h : Is(h)
<1>6. Is(r)
  BY <1>5, Zenon
<1>7. Walked(table, head, limit) = r[limit]
  BY Zenon DEF Walked, Next1, Follow1
<1> HIDE DEF r
<1>8. r[0] \in S /\ \A i \in 1 .. limit : r[i - 1] \in S => r[i] \in S
  <2> HIDE DEF S
  <2>1. r[0] = b /\ \A i \in 1 .. limit : r[i] = Next1(r[i - 1])
    <3> HIDE DEF b
    <3> QED BY <1>6
  <2> HIDE DEF b
  <2> QED BY <1>1, <1>2, <2>1
<1>9. r[limit] \in S
  <2> HIDE DEF S
  <2> QED BY <1>8, Carried
<1> QED BY <1>7, <1>9
(* What the driver of a device with streams keeps to.                      *)
TablesOK == /\ sc.num \in Nat /\ 0 \in DOMAIN sc.tables
            /\ \A a \in DOMAIN sc.tables : \A x \in DOMAIN sc.tables[a] : sc.tables[a][x] \in Descriptors
StreamMachine == kind \in Streams /\ TablesOK /\ DriverOK(sc)
LEMMA ChainIs ==
    ASSUME TablesOK, NEW head \in Nat
    PROVE  /\ Chain(head) \in Seq(Descriptors)
           /\ readChain(sc.tables, sc.num, head).ok \in BOOLEAN
<1> DEFINE c == readChain(sc.tables, sc.num, head)
           none == [ok |-> FALSE, out |-> <<>>]
           Typed(x) == x.out \in Seq(Descriptors) /\ x.ok \in BOOLEAN
<1>1. Typed(none)
  <2>1. <<>> \in Seq(Descriptors)
    BY EmptySeq
  <2> QED BY <2>1
<1>2. \A a \in DOMAIN sc.tables, x \in Nat, n \in Nat : Typed(Walked(sc.tables[a], x, n))
  BY WalkedIs DEF TablesOK
<1>3. \A x \in Nat, n \in Nat : Typed(Walked(<<>>, x, n))
  <2>1. \A x \in DOMAIN <<>> : <<>>[x] \in Descriptors
    OBVIOUS
  <2> QED BY <2>1, WalkedIs
<1>4. \A d \in Descriptors : Typed(readIndirectChain(sc.tables, d))
  <2> SUFFICES ASSUME NEW d \in Descriptors  PROVE Typed(readIndirectChain(sc.tables, d))
    OBVIOUS
  <2> DEFINE limit == d.len \div DescSize
             table == IF d.addr \in DOMAIN sc.tables THEN sc.tables[d.addr] ELSE <<>>
             bad == d.len = 0 \/ d.len % DescSize # 0 \/ limit > MaxTable
  <2>1. limit \in Nat
    <3>1. d.len \in Nat /\ DescSize \in Nat \ {0}
      BY RequestsAssumption DEF Descriptors
    <3> QED BY <3>1
  <2>2. readIndirectChain(sc.tables, d) = IF bad THEN none ELSE Walked(table, 0, limit)
    BY DEF readIndirectChain
  <2> HIDE DEF limit, bad, none, Typed
  <2>3. Typed(Walked(table, 0, limit))
    BY <1>2, <1>3, <2>1
  <2> HIDE DEF table
  <2> QED BY <1>1, <2>2, <2>3
<1>5. Typed(c)
  <2>1. CASE head >= sc.num \/ head \notin DOMAIN sc.tables[0]
    <3>1. c = none
      BY <2>1 DEF readChain
    <3> HIDE DEF c, none
    <3> QED BY <1>1, <3>1
  <2>2. CASE ~(head >= sc.num \/ head \notin DOMAIN sc.tables[0])
    <3>1. sc.tables[0][head] \in Descriptors
      BY <2>2 DEF TablesOK
    <3>2. c = IF sc.tables[0][head].indirect THEN readIndirectChain(sc.tables, sc.tables[0][head])
              ELSE Walked(sc.tables[0], head, sc.num)
      BY <2>2 DEF readChain
    <3>3. Typed(Walked(sc.tables[0], head, sc.num))
      BY <1>2 DEF TablesOK
    <3>4. Typed(readIndirectChain(sc.tables, sc.tables[0][head]))
      BY <1>4, <3>1
    <3> HIDE DEF c, Typed
    <3> QED BY <3>2, <3>3, <3>4
  <2> QED BY <2>1, <2>2
<1> QED BY <1>5 DEF Chain

(* What a driver lends does not overlap.                                   *)
Disjoint(descs, sent) ==
    \A i \in DOMAIN descs, j \in DOMAIN sent :
        descs[i].write /\ ~sent[j].write => Span(descs[i]) \cap Span(sent[j]) = {}
LEMMA LentBy ==
    ASSUME StreamMachine, NEW q, NEW head, <<q, head>> \in sc.heads
    PROVE  /\ q \in Queues /\ head \in Nat
           /\ q = 0 => /\ Apart2(Chain(head))
                       /\ kind = "input" => OneBuffer(Chain(head))
                       /\ \A g : <<1, g>> \in sc.heads => Disjoint(Chain(head), Chain(g))
           /\ kind = "net" /\ q = 1 /\ readChain(sc.tables, sc.num, head).ok
              => NetHeader <= Len(Places(Chain(head), FALSE))
<1> DEFINE h == <<q, head>>
           descs == Chain(head)
<1>1. q \in Queues /\ head \in Nat
  BY DEF StreamMachine, DriverOK, Queues, kind
<1>2. ASSUME q = 0  PROVE Apart2(descs)
  BY <1>2 DEF StreamMachine, DriverOK, Apart2, Chain
<1>3. ASSUME q = 0, kind = "input"  PROVE OneBuffer(descs)
  BY <1>3 DEF StreamMachine, DriverOK, OneBuffer, Chain, kind, InMemory
<1>4. ASSUME q = 0, NEW g, <<1, g>> \in sc.heads  PROVE Disjoint(descs, Chain(g))
  BY ZenonT(40), <1>4 DEF StreamMachine, DriverOK, Disjoint, Chain
<1>5. ASSUME kind = "net", q = 1, readChain(sc.tables, sc.num, head).ok
      PROVE  NetHeader <= Len(Places(descs, FALSE))
  BY <1>5 DEF StreamMachine, DriverOK, Chain, kind
<1> QED BY <1>1, <1>2, <1>3, <1>4, <1>5
(* What is in the buffers of a chain.                                      *)
LEMMA DataIs ==
    ASSUME TablesOK, NEW head \in Nat, NEW flag \in BOOLEAN, NEW mem \in [InMemory -> Cell]
    PROVE  LET z == Data(head, flag, mem)
               L == Places(Chain(head), flag)
           IN  /\ z \in Seq(Cell) /\ Len(z) = Len(L) /\ Len(L) \in Nat
               /\ \A k \in 1 .. Len(z) : z[k] = CellAt(mem, L[k])
<1> DEFINE descs == Chain(head)
           L == Places(descs, flag)
<1>1. descs \in Seq(Descriptors)
  BY ChainIs
<1> HIDE DEF descs
<1>2. PICK W : Laid(descs, flag, W, L)
  BY <1>1, LaidOut
<1>3. Len(L) = W[Len(descs)] /\ Len(L) \in Nat
  BY <1>2 DEF Laid
<1>4. LET z == Cells(descs, flag, mem)
      IN  /\ z \in Seq(Cell) /\ Len(z) = W[Len(descs)]
          /\ \A k \in 1 .. Len(z) : z[k] = CellAt(mem, L[k])
  BY <1>1, <1>2, CellsAre
<1> HIDE DEF L
<1> QED BY <1>3, <1>4 DEF Data, descs, L
LEMMA GoingStays ==
    ASSUME TablesOK, NEW g \in Nat, NEW mem \in [InMemory -> Cell], NEW mem2 \in [InMemory -> Cell],
           NEW descs, ChangedIn(mem2, mem, descs), Disjoint(descs, Chain(g))
    PROVE  Data(g, FALSE, mem2) = Data(g, FALSE, mem)
<1> DEFINE z == Data(g, FALSE, mem)
           z2 == Data(g, FALSE, mem2)
           sent == Chain(g)
           L == Places(sent, FALSE)
<1>1. /\ z \in Seq(Cell) /\ Len(z) = Len(L) /\ Len(L) \in Nat
      /\ \A k \in 1 .. Len(z) : z[k] = CellAt(mem, L[k])
  BY DataIs
<1>2. /\ z2 \in Seq(Cell) /\ Len(z2) = Len(L)
      /\ \A k \in 1 .. Len(z2) : z2[k] = CellAt(mem2, L[k])
  BY DataIs
<1>3. sent \in Seq(Descriptors)
  BY ChainIs
<1> HIDE DEF z, z2, sent
<1>4. PICK W : Laid(sent, FALSE, W, L)
  BY <1>3, LaidOut
<1>5. ASSUME NEW k \in 1 .. Len(L)  PROVE CellAt(mem2, L[k]) = CellAt(mem, L[k])
  <2> DEFINE u == L[k]
             n == Len(sent)
  <2>1. \E j \in 1 .. n : sent[j].write = FALSE /\ u \in Span(sent[j])
    <3>1. n \in 0 .. n /\ k \in 1 .. W[n]
      <4>1. n \in Nat
        BY <1>3
      <4>2. Len(L) = W[n]
        BY <1>4 DEF Laid
      <4> HIDE DEF n, L
      <4> QED BY <4>1, <4>2
    <3>2. \A i \in 0 .. n : \A x \in 1 .. W[i] :
             \E j \in 1 .. i : sent[j].write = FALSE /\ L[x] \in Span(sent[j])
      BY <1>4 DEF Laid
    <3> HIDE DEF L, n
    <3> QED BY <3>1, <3>2
  <2>2. PICK j \in DOMAIN sent : ~sent[j].write /\ u \in Span(sent[j])
    <3>1. DOMAIN sent = 1 .. n
      BY <1>3, LenProperties
    <3>2. \A x : x = FALSE => ~x
      OBVIOUS
    <3> HIDE DEF u, n
    <3> QED BY <2>1, <3>1, <3>2
  <2> HIDE DEF u, L
  <2>3. u \in InMemory => mem2[u] = mem[u]
    <3> SUFFICES ASSUME u \in InMemory, mem2[u] # mem[u]  PROVE FALSE
      OBVIOUS
    <3>1. PICK i \in DOMAIN descs : descs[i].write /\ u \in Span(descs[i])
      BY DEF ChangedIn
    <3>2. Span(descs[i]) \cap Span(sent[j]) = {}
      BY <2>2, <3>1 DEF Disjoint, sent
    <3> QED BY <2>2, <3>1, <3>2
  <2> QED BY <2>3 DEF CellAt, u
<1> HIDE DEF L
<1>6. \A k \in 1 .. Len(z) : z[k] = z2[k]
  BY <1>1, <1>2, <1>5
<1>7. z2 = z
  BY <1>1, <1>2, <1>6, SeqEqual
<1> QED BY <1>7 DEF z, z2
(* What was put in the first units of a chain is found there.              *)
Holds(c, m, X) == c \in Seq(Cell) /\ Len(c) = m /\ \A k \in 1 .. m : c[k] = X[k]
LEMMA FoundIs ==
    ASSUME TablesOK, NEW head \in Nat, NEW mem \in [InMemory -> Cell],
           NEW m \in 0 .. Len(Places(Chain(head), TRUE)),
           NEW X, Put(mem, Places(Chain(head), TRUE), m, X)
    PROVE  Holds(First(m, Data(head, TRUE, mem)), m, X)
<1> DEFINE z == Data(head, TRUE, mem)
           L == Places(Chain(head), TRUE)
<1>1. /\ z \in Seq(Cell) /\ Len(z) = Len(L) /\ Len(L) \in Nat
      /\ \A k \in 1 .. Len(z) : z[k] = CellAt(mem, L[k])
  BY DataIs
<1>2. m \in 0 .. Len(L) /\ Put(mem, L, m, X)
  OBVIOUS
<1> HIDE DEF z, L
<1>3. /\ SubSeq(z, 1, m) \in Seq(Cell) /\ Len(SubSeq(z, 1, m)) = m
      /\ \A k \in 1 .. m : SubSeq(z, 1, m)[k] = z[k]
  <2>1. m \in 0 .. Len(z)
    BY <1>1, <1>2
  <2> QED BY <1>1, <2>1, Prefix
<1>4. \A k \in 1 .. m : z[k] = X[k]
  <2> SUFFICES ASSUME NEW k \in 1 .. m  PROVE z[k] = X[k]
    OBVIOUS
  <2>1. k \in 1 .. Len(z)
    BY <1>1, <1>2
  <2>2. L[k] \in InMemory /\ mem[L[k]] = X[k]
    BY <1>2 DEF Put
  <2> QED BY <1>1, <2>1, <2>2 DEF CellAt
<1>5. First(m, z) = SubSeq(z, 1, m)
  BY DEF First
<1> QED BY <1>3, <1>4, <1>5 DEF z, Holds

LEMMA CharacterSeqs == Seq(Characters) \subseteq Seq(Cell)
<1> SUFFICES ASSUME NEW x \in Seq(Characters)  PROVE x \in Seq(Cell)
  OBVIOUS
<1>1. x \in [1 .. Len(x) -> Characters] /\ Len(x) \in Nat
  BY LenProperties
<1>2. \A i \in 1 .. Len(x) : x[i] \in Cell
  BY <1>1, CharacterCells
<1>3. x = [i \in 1 .. Len(x) |-> x[i]]
  BY <1>1
<1> DEFINE n == Len(x)
<1>4. n \in Nat /\ x = [i \in 1 .. n |-> x[i]] /\ \A i \in 1 .. n : x[i] \in Cell
  BY <1>1, <1>2, <1>3
<1> HIDE DEF n
<1>5. [i \in 1 .. n |-> x[i]] \in Seq(Cell)
  BY <1>4
<1> QED BY <1>4, <1>5
LEMMA FrameSeqs == Seq(Seq(Characters)) \subseteq Seq(Seq(Cell))
<1> SUFFICES ASSUME NEW x \in Seq(Seq(Characters))  PROVE x \in Seq(Seq(Cell))
  OBVIOUS
<1> DEFINE n == Len(x)
           T == Seq(Cell)
           C == Seq(Characters)
<1>1. x \in [1 .. n -> C] /\ n \in Nat
  BY LenProperties
<1>2. C \subseteq T
  BY CharacterSeqs
<1> HIDE DEF n, T, C
<1>3. x = [i \in 1 .. n |-> x[i]] /\ \A i \in 1 .. n : x[i] \in T
  BY <1>1, <1>2
<1>4. [i \in 1 .. n |-> x[i]] \in Seq(T)
  BY <1>1, <1>3
<1> QED BY <1>3, <1>4 DEF T
(* What a buffer that the device has filled gives, of what waited.         *)
Taken(r, s, head) ==
    LET c == First(r.len, Data(head, TRUE, r.s.mem))
    IN  /\ c \in Seq(Cell)
        /\ kind = "console" => s.rx = c \o r.s.rx
        /\ kind = "net" => \/ r.len = 0 /\ r.s.rx = s.rx
                           \/ /\ r.len # 0 /\ s.rx = <<SubSeq(c, NetHeader + 1, Len(c))>> \o r.s.rx
                              /\ SubSeq(c, NetHeader + 1, Len(c)) \in Seq(Cell)
        /\ kind = "input" => EventsOf(s.rx) = c \o EventsOf(r.s.rx)
        /\ kind = "rng" => c = Drawn(s.rnd, r.len) /\ s.rnd + r.len <= r.s.rnd
Fills(r, s, head) == /\ r.s \in DevStates /\ r.len \in Nat /\ r.s.out = s.out
                     /\ ChangedIn(r.s.mem, s.mem, Chain(head)) /\ Taken(r, s, head)

LEMMA ConsoleTaken ==
    ASSUME StreamMachine, kind = "console", NEW head, <<0, head>> \in sc.heads, NEW s \in DevStates
    PROVE  Fills(consoleFillRx(s, Chain(head)), s, head)
<1> DEFINE descs == Chain(head)
           L == Places(descs, TRUE)
           r == consoleFillRx(s, descs)
<1>1. TablesOK /\ head \in Nat /\ Apart2(descs) /\ descs \in Seq(Descriptors)
  <2>1. TablesOK
    BY DEF StreamMachine
  <2>2. head \in Nat /\ Apart2(descs)
    BY LentBy
  <2> QED BY <2>1, <2>2, ChainIs
<1> DEFINE n == Len(descs)
<1>2. PICK W : Laid(descs, TRUE, W, L)
  BY <1>1, LaidOut
<1>3. PICK p \in FilledConsole(s, descs, W, L)[n] : r = Result(p.s, p.used)
  BY <1>1, <1>2, ConsoleFills
<1>4. n \in Nat /\ n \in 0 .. n /\ Len(L) = W[n] /\ W[n] \in Nat
  <2>1. n \in Nat
    BY <1>1, LenProperties
  <2>2. W \in [0 .. n -> Nat] /\ Len(L) = W[n]
    BY <1>2 DEF Laid
  <2> HIDE DEF n, L
  <2> QED BY <2>1, <2>2
<1>5. /\ p \in Work /\ ChangedIn(p.s.mem, s.mem, descs) /\ p.s.out = s.out
      /\ p.used <= W[n] /\ p.used <= Len(s.rx)
      /\ p.s.rx = SubSeq(s.rx, p.used + 1, Len(s.rx)) /\ Put(p.s.mem, L, p.used, s.rx)
  BY <1>4 DEF FilledConsole
<1>6. p.s \in DevStates /\ p.used \in Nat /\ p.s.mem \in [InMemory -> Cell]
  BY <1>5 DEF Work, DevStates
<1>7. r.s = p.s /\ r.len = p.used
  BY <1>3 DEF Result
<1> DEFINE a == p.used
           c == First(a, Data(head, TRUE, p.s.mem))
<1>8. /\ c \in Seq(Cell) /\ Len(c) = a /\ \A k \in 1 .. a : c[k] = s.rx[k]
  <2>1. a \in 0 .. Len(L)
    <3> HIDE DEF L, n
    <3> QED BY <1>4, <1>5, <1>6
  <2>2. Put(p.s.mem, L, a, s.rx)
    BY <1>5
  <2> DEFINE mem == p.s.mem
             X == s.rx
  <2>3. mem \in [InMemory -> Cell] /\ Put(mem, L, a, X)
    BY <1>6, <2>2
  <2> HIDE DEF a, mem, X
  <2>4. Holds(First(a, Data(head, TRUE, mem)), a, X)
    BY <1>1, <2>1, <2>3, FoundIs
  <2> QED BY <2>4 DEF mem, X, Holds
<1> DEFINE q == s.rx
<1>9. q \in Seq(Cell) /\ a \in 0 .. Len(q)
  <2>1. s.rx \in Seq(Characters)
    <3>1. Datum(kind) = Characters
      BY DEF Datum
    <3> QED BY <3>1 DEF DevStates
  <2>2. s.rx \in Seq(Cell)
    BY <2>1, CharacterSeqs
  <2> QED BY <1>5, <1>6, <2>2
<1>10. q = c \o SubSeq(q, a + 1, Len(q))
  <2> HIDE DEF c, q, a
  <2>1. SubSeq(q, 1, a) \in Seq(Cell) /\ Len(SubSeq(q, 1, a)) = a /\ \A k \in 1 .. a : SubSeq(q, 1, a)[k] = q[k]
    BY <1>9, Prefix
  <2>2. c = SubSeq(q, 1, a)
    <3>1. c \in Seq(Cell) /\ Len(c) = a /\ \A k \in 1 .. a : c[k] = q[k]
      BY <1>8 DEF q
    <3> DEFINE e == SubSeq(q, 1, a)
    <3>2. e \in Seq(Cell) /\ Len(e) = a /\ \A k \in 1 .. a : e[k] = q[k]
      BY <2>1
    <3> HIDE DEF e
    <3>3. Len(c) = Len(e) /\ \A k \in 1 .. Len(c) : c[k] = e[k]
      BY <3>1, <3>2
    <3>4. c = e
      BY <3>1, <3>2, <3>3, SeqEqual
    <3> QED BY <3>4 DEF e
  <2>3. /\ 1 \in 1 .. Len(q) + 1 /\ a \in 1 - 1 .. Len(q) /\ Len(q) \in a .. Len(q)
    BY <1>9
  <2>4. SubSeq(q, 1, a) \o SubSeq(q, a + 1, Len(q)) = SubSeq(q, 1, Len(q))
    BY <1>9, <2>3, ConcatAdjacentSubSeq
  <2>5. SubSeq(q, 1, Len(q)) = q
    BY <1>9, SubSeqFull
  <2> QED BY <2>2, <2>4, <2>5
<1>11. Taken(r, s, head)
  <2>1. s.rx = c \o p.s.rx
    BY <1>5, <1>10
  <2> HIDE DEF c, r
  <2> QED BY <1>7, <1>8, <2>1 DEF Taken, c
<1> HIDE DEF r
<1> QED BY <1>5, <1>6, <1>7, <1>11 DEF Fills, r
(* A chain of buffers, and where its units are.                            *)
LEMMA LentChain ==
    ASSUME StreamMachine, NEW head, <<0, head>> \in sc.heads
    PROVE  /\ TablesOK /\ head \in Nat /\ Apart2(Chain(head)) /\ Chain(head) \in Seq(Descriptors)
           /\ kind = "input" => OneBuffer(Chain(head))
           /\ \E W : /\ Laid(Chain(head), TRUE, W, Places(Chain(head), TRUE))
                     /\ Len(Places(Chain(head), TRUE)) = W[Len(Chain(head))]
                     /\ W[Len(Chain(head))] \in Nat
           /\ Len(Chain(head)) \in 0 .. Len(Chain(head))
<1> DEFINE descs == Chain(head)
           L == Places(descs, TRUE)
           n == Len(descs)
<1>1. TablesOK /\ head \in Nat /\ Apart2(descs) /\ (kind = "input" => OneBuffer(descs))
  <2>1. TablesOK
    BY DEF StreamMachine
  <2>2. head \in Nat /\ Apart2(Chain(head)) /\ (kind = "input" => OneBuffer(Chain(head)))
    BY LentBy
  <2> QED BY <2>1, <2>2
<1>2. descs \in Seq(Descriptors)
  BY <1>1, ChainIs
<1>3. n \in Nat
  BY <1>2, LenProperties
<1>4. PICK W : Laid(descs, TRUE, W, L)
  BY <1>2, LaidOut
<1>5. W \in [0 .. n -> Nat] /\ Len(L) = W[n]
  BY <1>4 DEF Laid
<1>6. W[n] \in Nat /\ n \in 0 .. n
  <2> HIDE DEF n
  <2> QED BY <1>3, <1>5
<1> HIDE DEF L
<1> QED BY <1>1, <1>2, <1>4, <1>5, <1>6 DEF L

LEMMA NetTaken ==
    ASSUME StreamMachine, kind = "net", NEW head, <<0, head>> \in sc.heads, NEW s \in DevStates,
           s.rx # <<>>
    PROVE  Fills(netFillRx(s, Chain(head)), s, head)
<1> DEFINE descs == Chain(head)
           L == Places(descs, TRUE)
           n == Len(descs)
           r == netFillRx(s, descs)
           pay == Payload(s)
           x == s.rx[1]
<1>1. TablesOK /\ head \in Nat /\ Apart2(descs) /\ descs \in Seq(Descriptors)
  BY LentChain
<1>2. PICK W : Laid(descs, TRUE, W, L) /\ Len(L) = W[n] /\ W[n] \in Nat
  BY LentChain
<1>3. PICK p \in FilledNet(s, descs, W, L, pay)[n] : r = FilledFrame(p, pay)
  BY <1>1, <1>2, NetFills
<1>4. /\ r.s \in DevStates /\ r.s.out = s.out /\ r.s.rnd = s.rnd
      /\ ChangedIn(r.s.mem, s.mem, descs)
      /\ \/ r.len = 0 /\ r.s.rx = s.rx
         \/ /\ r.len = Len(pay) /\ r.len <= W[n] /\ r.s.rx = Tail(s.rx)
            /\ Put(r.s.mem, L, r.len, pay)
  <2> DEFINE f == FilledFrame(p, Payload(s))
  <2>1. /\ f.s \in DevStates /\ f.s.out = s.out /\ f.s.rnd = s.rnd
        /\ ChangedIn(f.s.mem, s.mem, descs)
        /\ \/ f.len = 0 /\ f.s.rx = s.rx
           \/ /\ f.len = Len(Payload(s)) /\ f.len <= W[Len(descs)] /\ f.s.rx = Tail(s.rx)
              /\ Put(f.s.mem, L, f.len, Payload(s))
    <3> HIDE DEF L, r
    <3> QED BY <1>1, <1>2, <1>3, FilledFrameIs DEF L
  <2>2. r = f
    BY <1>3
  <2> HIDE DEF f, r
  <2> QED BY <2>1, <2>2
<1>5. /\ pay \in Seq(Cell) /\ Len(pay) = NetHeader + Len(x)
      /\ x \in Seq(Characters) /\ s.rx \in Seq(Seq(Characters)) /\ Len(pay) \in Nat \ {0}
      /\ \A j \in 1 .. Len(x) : pay[NetHeader + j] = x[j]
  BY PayloadIs
<1> DEFINE mem == r.s.mem
           c == First(r.len, Data(head, TRUE, mem))
<1>6. mem \in [InMemory -> Cell]
  BY <1>4 DEF DevStates
<1> HIDE DEF pay, r, n, L, x
<1>7. CASE r.len = 0 /\ r.s.rx = s.rx
  <2>1. 0 \in 0 .. Len(L) /\ Put(mem, L, 0, pay)
    BY <1>2 DEF Put
  <2> HIDE DEF mem
  <2>2. Holds(First(0, Data(head, TRUE, mem)), 0, pay)
    BY <1>1, <1>6, <2>1, FoundIs DEF L
  <2>3. c \in Seq(Cell)
    BY <1>7, <2>2 DEF Holds
  <2>4. Taken(r, s, head)
    <3> HIDE DEF c
    <3> QED BY <1>7, <2>3 DEF Taken, c, mem
  <2> QED BY <1>4, <1>7, <2>4 DEF Fills, r
<1>8. CASE r.len = Len(pay) /\ r.len <= W[n] /\ r.s.rx = Tail(s.rx) /\ Put(r.s.mem, L, r.len, pay)
  <2> DEFINE m == Len(pay)
  <2>1. m \in 0 .. Len(L) /\ Put(mem, L, m, pay)
    BY <1>2, <1>5, <1>8
  <2> HIDE DEF mem, m
  <2>2. Holds(First(m, Data(head, TRUE, mem)), m, pay)
    BY <1>1, <1>6, <2>1, FoundIs DEF L
  <2>3. c \in Seq(Cell) /\ Len(c) = m /\ \A k \in 1 .. m : c[k] = pay[k]
    BY <1>8, <2>2 DEF Holds, m
  <2> HIDE DEF c
  <2>4. c = pay
    BY <1>5, <2>3, SeqEqual DEF m
  <2>5. SubSeq(pay, NetHeader + 1, Len(pay)) = x
    <3> DEFINE y == SubSeq(pay, NetHeader + 1, Len(pay))
    <3>1. NetHeader \in 0 .. Len(pay) /\ NetHeader \in Nat /\ Len(x) \in Nat
      BY <1>5, RequestsAssumption
    <3>2. y \in Seq(Cell) /\ Len(y) = Len(pay) - NetHeader /\ \A j \in 1 .. Len(y) : y[j] = pay[NetHeader + j]
      BY <1>5, <3>1, Rest
    <3> HIDE DEF y
    <3>3. Len(y) = Len(x) /\ \A j \in 1 .. Len(y) : y[j] = x[j]
      BY <1>5, <3>1, <3>2
    <3>4. x \in Seq(Cell)
      BY <1>5, CharacterSeqs
    <3>5. y = x
      BY <3>2, <3>3, <3>4, SeqEqual
    <3> QED BY <3>5 DEF y
  <2>6. s.rx = <<x>> \o Tail(s.rx)
    BY <1>5 DEF x
  <2>7. Taken(r, s, head)
    <3>1. x \in Seq(Cell)
      BY <1>5, CharacterSeqs
    <3>2. r.len # 0
      BY <1>5, <1>8
    <3> QED BY <1>8, <2>3, <2>4, <2>5, <2>6, <3>1, <3>2 DEF Taken, c, mem
  <2>8. r.len \in Nat
    BY <1>5, <1>8
  <2> QED BY <1>4, <2>7, <2>8 DEF Fills, r
<1> QED BY <1>4, <1>7, <1>8

LEMMA InputTaken ==
    ASSUME StreamMachine, kind = "input", NEW head, <<0, head>> \in sc.heads, NEW s \in DevStates
    PROVE  Fills(fillEvent(s, Chain(head)), s, head)
<1> DEFINE descs == Chain(head)
           L == Places(descs, TRUE)
           n == Len(descs)
           r == fillEvent(s, descs)
<1>1. TablesOK /\ head \in Nat /\ Apart2(descs) /\ descs \in Seq(Descriptors) /\ OneBuffer(descs)
  BY LentChain
<1>2. PICK W : Laid(descs, TRUE, W, L) /\ Len(L) = W[n] /\ W[n] \in Nat
  BY LentChain
<1>3. PICK p \in FilledInput(s, descs, W, L) : r = Result(p.s, p.used)
  BY <1>1, <1>2, InputFills
<1>4. /\ p \in Work /\ ChangedIn(p.s.mem, s.mem, descs) /\ p.s.out = s.out /\ p.used <= W[n]
  BY <1>3 DEF FilledInput
<1>5. PICK Y : PutSoFar(s, L, Y, p)
  BY <1>3 DEF FilledInput
<1>6. /\ Y \in Seq(Cell) /\ Len(Y) = p.used /\ EventsOf(s.rx) = Y \o EventsOf(p.s.rx)
      /\ Put(p.s.mem, L, p.used, Y)
  BY <1>5 DEF PutSoFar
<1>7. p.s \in DevStates /\ p.used \in Nat /\ p.s.mem \in [InMemory -> Cell]
  BY <1>4 DEF Work, DevStates
<1>8. r.s = p.s /\ r.len = p.used
  BY <1>3 DEF Result
<1> DEFINE mem == p.s.mem
           a == p.used
           c == First(a, Data(head, TRUE, mem))
<1> HIDE DEF r, n, L
<1>9. a \in 0 .. Len(L) /\ Put(mem, L, a, Y) /\ mem \in [InMemory -> Cell]
  BY <1>2, <1>4, <1>6, <1>7
<1> HIDE DEF mem, a
<1>10. Holds(First(a, Data(head, TRUE, mem)), a, Y)
  BY <1>1, <1>9, FoundIs DEF L
<1>11. c \in Seq(Cell) /\ Len(c) = a /\ \A k \in 1 .. a : c[k] = Y[k]
  BY <1>10 DEF Holds
<1> HIDE DEF c
<1>12. c = Y
  BY <1>6, <1>11, SeqEqual DEF a
<1>13. Taken(r, s, head)
  BY <1>6, <1>8, <1>11, <1>12 DEF Taken, c, mem, a
<1> QED BY <1>4, <1>7, <1>8, <1>13 DEF Fills, r
LEMMA RandomTaken ==
    ASSUME StreamMachine, kind = "rng", NEW head, <<0, head>> \in sc.heads, NEW s \in DevStates
    PROVE  Fills(fillRequest(s, Chain(head)), s, head)
<1> DEFINE descs == Chain(head)
           L == Places(descs, TRUE)
           n == Len(descs)
           r == fillRequest(s, descs)
<1>1. TablesOK /\ head \in Nat /\ Apart2(descs) /\ descs \in Seq(Descriptors) /\ n \in 0 .. n
  BY LentChain
<1>2. PICK W : Laid(descs, TRUE, W, L) /\ Len(L) = W[n] /\ W[n] \in Nat
  BY LentChain
<1>3. PICK p \in FilledRandom(s, descs, W, L)[n] : r = Result(p.s, p.used)
  BY <1>1, <1>2, RandomFills
<1> DEFINE X == Drawn(s.rnd, W[n])
<1>4. /\ p \in Work /\ ChangedIn(p.s.mem, s.mem, descs) /\ p.s.out = s.out /\ p.used <= W[n]
      /\ s.rnd + p.used <= p.s.rnd /\ Put(p.s.mem, L, p.used, X)
  BY <1>1 DEF FilledRandom
<1>5. p.s \in DevStates /\ p.used \in Nat /\ p.s.mem \in [InMemory -> Cell] /\ s.rnd \in Nat
  BY <1>4 DEF Work, DevStates
<1>6. r.s = p.s /\ r.len = p.used
  BY <1>3 DEF Result
<1> DEFINE mem == p.s.mem
           a == p.used
           c == First(a, Data(head, TRUE, mem))
<1> HIDE DEF r, n, L, X
<1>7. a \in 0 .. Len(L) /\ Put(mem, L, a, X) /\ mem \in [InMemory -> Cell]
  BY <1>2, <1>4, <1>5
<1> HIDE DEF mem, a
<1>8. Holds(First(a, Data(head, TRUE, mem)), a, X)
  BY <1>1, <1>7, FoundIs DEF L
<1>9. c \in Seq(Cell) /\ Len(c) = a /\ \A k \in 1 .. a : c[k] = X[k]
  BY <1>8 DEF Holds
<1> HIDE DEF c
<1> DEFINE D == Drawn(s.rnd, a)
<1>10. D \in Seq(Cell) /\ Len(D) = a
  BY <1>5, DrawnIs DEF a
<1>11. \A k \in 1 .. a : D[k] = X[k]
  <2>1. \A k \in 1 .. a : k \in 1 .. W[n]
    BY <1>2, <1>4, <1>5 DEF a
  <2> QED BY <2>1 DEF Drawn, X
<1> HIDE DEF D
<1>12. c = D
  BY <1>9, <1>10, <1>11, SeqEqual
<1>13. Taken(r, s, head)
  BY <1>4, <1>6, <1>9, <1>12 DEF Taken, c, mem, a, D
<1> QED BY <1>4, <1>5, <1>6, <1>13 DEF Fills, r

(* What a buffer that the device has read gives.                           *)
PieceOf(head, len, mem) ==
    IF kind = "console" THEN First(len, Data(head, FALSE, mem))
    ELSE FrameSent(Data(head, FALSE, mem), len)
Passes == kind \in {"console", "net"}
Sends(r, s, head) ==
    /\ r.s \in DevStates /\ r.len \in Nat /\ r.s.mem = s.mem /\ r.s.rx = s.rx /\ r.s.rnd = s.rnd
    /\ Passes => /\ r.len <= Len(Places(Chain(head), FALSE))
                 /\ r.s.out = s.out \o PieceOf(head, r.len, s.mem)
LEMMA ConsoleSent ==
    ASSUME TablesOK, kind = "console", NEW head \in Nat, NEW s \in DevStates
    PROVE  Sends(consoleConsumeTx(s, Chain(head)), s, head)
<1> DEFINE descs == Chain(head)
           L == Places(descs, FALSE)
           n == Len(descs)
           r == consoleConsumeTx(s, descs)
<1>1. descs \in Seq(Descriptors) /\ n \in Nat /\ n \in 0 .. n
  <2>1. descs \in Seq(Descriptors)
    BY ChainIs
  <2>2. n \in Nat
    BY <2>1, LenProperties
  <2> HIDE DEF n
  <2> QED BY <2>1, <2>2
<1>2. PICK W : Laid(descs, FALSE, W, L)
  BY <1>1, LaidOut
<1>3. Len(L) = W[n]
  BY <1>2 DEF Laid
<1>4. PICK p \in SentConsole(s, descs, W)[n] : r = Result(p.s, p.used)
  BY <1>1, <1>2, ConsoleSends
<1>5. /\ p \in Work /\ p.s.mem = s.mem /\ p.s.rx = s.rx /\ p.s.rnd = s.rnd /\ p.used <= W[n]
      /\ p.s.out = s.out \o SubSeq(Cells(descs, FALSE, s.mem), 1, p.used)
  BY <1>1 DEF SentConsole
<1>6. p.s \in DevStates /\ p.used \in Nat
  BY <1>5 DEF Work
<1>7. r.s = p.s /\ r.len = p.used
  BY <1>4 DEF Result
<1> HIDE DEF r, L, n
<1>8. PieceOf(head, r.len, s.mem) = SubSeq(Cells(descs, FALSE, s.mem), 1, p.used)
  BY <1>7 DEF PieceOf, First, Data
<1> QED BY <1>3, <1>5, <1>6, <1>7, <1>8 DEF Sends, r, L

LEMMA NetSent ==
    ASSUME TablesOK, kind = "net", NEW head \in Nat, NetHeader <= Len(Places(Chain(head), FALSE)),
           NEW s \in DevStates
    PROVE  Sends(netConsumeTx(s, Chain(head)), s, head)
<1> DEFINE descs == Chain(head)
           L == Places(descs, FALSE)
           n == Len(descs)
           r == netConsumeTx(s, descs)
<1>1. descs \in Seq(Descriptors)
  BY ChainIs
<1>2. PICK W : Laid(descs, FALSE, W, L)
  BY <1>1, LaidOut
<1>3. Len(L) = W[n] /\ NetHeader <= W[n]
  BY <1>2 DEF Laid
<1>4. PICK p \in SentNet(s, descs, W)[n] : r = SentFrame(s, descs, p)
  BY <1>1, <1>2, NetSends
<1> DEFINE f == SentFrame(s, descs, p)
<1>5. /\ f.s \in DevStates /\ f.s.mem = s.mem /\ f.s.rx = s.rx /\ f.s.rnd = s.rnd
      /\ f.len \in 0 .. W[n]
      /\ f.s.out = s.out \o FrameSent(Cells(descs, FALSE, s.mem), f.len)
  <2> HIDE DEF r
  <2> QED BY <1>1, <1>2, <1>3, <1>4, SentFrameIs
<1>6. r = f
  BY <1>4
<1> HIDE DEF f, r, L, n
<1>7. PieceOf(head, r.len, s.mem) = FrameSent(Cells(descs, FALSE, s.mem), r.len)
  BY DEF PieceOf, Data
<1>8. r.len \in Nat /\ r.len <= W[n]
  BY <1>5, <1>6
<1> QED BY <1>3, <1>5, <1>6, <1>7, <1>8 DEF Sends, r, L

LEMMA InputSent ==
    ASSUME TablesOK, kind = "input", NEW head \in Nat, NEW s \in DevStates
    PROVE  Sends(consumeStatus(s, Chain(head)), s, head)
<1> DEFINE descs == Chain(head)
           n == Len(descs)
           r == consumeStatus(s, descs)
<1>1. descs \in Seq(Descriptors) /\ n \in Nat /\ n \in 0 .. n
  <2>1. descs \in Seq(Descriptors)
    BY ChainIs
  <2>2. n \in Nat
    BY <2>1, LenProperties
  <2> HIDE DEF n
  <2> QED BY <2>1, <2>2
<1>2. PICK p \in SentStatus(s, descs)[n] : r = Result(p.s, p.used)
  BY <1>1, InputSends
<1>3. p \in Work /\ p.s.mem = s.mem /\ p.s.rx = s.rx /\ p.s.rnd = s.rnd
  BY <1>1 DEF SentStatus
<1>4. p.s \in DevStates /\ p.used \in Nat
  BY <1>3 DEF Work
<1>5. r.s = p.s /\ r.len = p.used
  BY <1>2 DEF Result
<1> HIDE DEF r
<1>6. ~Passes
  BY DEF Passes
<1> QED BY <1>3, <1>4, <1>5, <1>6 DEF Sends, r
(* A chain that cannot be followed gives nothing.                          *)
LEMMA NothingTaken ==
    ASSUME StreamMachine, NEW head, <<0, head>> \in sc.heads, NEW s \in DevStates
    PROVE  Fills(Result(fail(s), 0), s, head)
<1> DEFINE r == Result(fail(s), 0)
           L == Places(Chain(head), TRUE)
           mem == s.mem
           c == First(0, Data(head, TRUE, mem))
<1>1. r.s = fail(s) /\ r.len = 0
  BY DEF Result
<1>2. r.s \in DevStates /\ SameBut(r.s, s) /\ r.s.mem = s.mem
  BY <1>1, Changing
<1>3. TablesOK /\ head \in Nat /\ Len(L) \in Nat
  BY LentChain
<1>4. mem \in [InMemory -> Cell] /\ s.rnd \in Nat
  BY DEF DevStates
<1>5. 0 \in 0 .. Len(L) /\ Put(mem, L, 0, <<>>)
  <2> HIDE DEF L
  <2> QED BY <1>3 DEF Put
<1> HIDE DEF r, mem, L
<1>6. Holds(First(0, Data(head, TRUE, mem)), 0, <<>>)
  BY <1>3, <1>4, <1>5, FoundIs DEF L
<1>7. c \in Seq(Cell) /\ Len(c) = 0
  BY <1>6 DEF Holds
<1> HIDE DEF c
<1>8. c = <<>>
  BY <1>7, EmptySeq
<1>9. Taken(r, s, head)
  <2>1. ASSUME kind = "console"  PROVE s.rx = c \o r.s.rx
    <3>1. Datum(kind) = Characters
      BY <2>1 DEF Datum
    <3>2. s.rx \in Seq(Characters)
      BY <3>1 DEF DevStates
    <3>3. <<>> \o s.rx = s.rx
      BY <3>2, ConcatEmptySeq
    <3> QED BY <1>2, <1>8, <3>3 DEF SameBut
  <2>2. ASSUME kind = "input"  PROVE EventsOf(s.rx) = c \o EventsOf(r.s.rx)
    <3>1. Datum(kind) = Nat
      BY <2>2 DEF Datum
    <3>2. s.rx \in Seq(Nat)
      BY <3>1 DEF DevStates
    <3> DEFINE e == EventsOf(s.rx)
    <3>3. e \in Seq(Cell)
      BY <3>2, EventsFirst
    <3> HIDE DEF e
    <3>4. <<>> \o e = e
      BY <3>3, ConcatEmptySeq
    <3> QED BY <1>2, <1>8, <3>4 DEF SameBut, e
  <2>3. c = Drawn(s.rnd, 0)
    <3> DEFINE D == Drawn(s.rnd, 0)
    <3>1. D \in Seq(Cell) /\ Len(D) = 0
      BY <1>4, DrawnIs
    <3> HIDE DEF D
    <3>2. D = <<>>
      BY <3>1, EmptySeq
    <3> QED BY <1>8, <3>2 DEF D
  <2>4. s.rnd + 0 <= r.s.rnd
    BY <1>2, <1>4 DEF SameBut
  <2>5. r.s.rx = s.rx
    BY <1>2 DEF SameBut
  <2>6. r.len = 0 /\ c = First(r.len, Data(head, TRUE, r.s.mem))
    BY <1>1, <1>2 DEF c, mem
  <2> QED BY <1>7, <2>1, <2>2, <2>3, <2>4, <2>5, <2>6 DEF Taken
<1>10. ChangedIn(r.s.mem, s.mem, Chain(head))
  BY <1>2 DEF ChangedIn
<1> QED BY <1>1, <1>2, <1>9, <1>10 DEF Fills, r, SameBut
LEMMA NothingSent ==
    ASSUME TablesOK, NEW head \in Nat, NEW s \in DevStates
    PROVE  Sends(Result(fail(s), 0), s, head)
<1> DEFINE r == Result(fail(s), 0)
           z == Data(head, FALSE, s.mem)
<1>1. r.s = fail(s) /\ r.len = 0
  BY DEF Result
<1>2. r.s \in DevStates /\ SameBut(r.s, s) /\ r.s.mem = s.mem
  BY <1>1, Changing
<1>3. Len(Places(Chain(head), FALSE)) \in Nat
  <2>1. s.mem \in [InMemory -> Cell]
    BY DEF DevStates
  <2> QED BY <2>1, DataIs
<1> HIDE DEF r, z
<1>4. PieceOf(head, 0, s.mem) = <<>>
  <2>1. First(0, z) = <<>>
    BY SubSeqEmpty DEF First
  <2>2. SubSeq(SubSeq(z, 1, 0), NetHeader + 1, 0) = <<>>
    <3>1. NetHeader + 1 \in Int /\ 0 < NetHeader + 1
      BY RequestsAssumption
    <3> QED BY <3>1, SubSeqEmpty
  <2>3. FrameSent(z, 0) = <<>>
    BY <2>2 DEF FrameSent
  <2> QED BY <2>1, <2>3 DEF PieceOf, z
<1>5. s.out \o <<>> = s.out
  <2>1. s.out \in Seq(Message)
    BY DEF DevStates
  <2> QED BY <2>1, ConcatEmptySeq
<1>6. r.len <= Len(Places(Chain(head), FALSE))
  <2> DEFINE n == Len(Places(Chain(head), FALSE))
  <2>1. n \in Nat
    BY <1>3
  <2> HIDE DEF n
  <2>2. r.len <= n
    BY <1>1, <2>1
  <2> QED BY <2>2 DEF n
<1>7. r.s.out = s.out \o PieceOf(head, r.len, s.mem)
  BY <1>1, <1>2, <1>4, <1>5 DEF SameBut
<1>8. r.s.rx = s.rx /\ r.s.rnd = s.rnd
  BY <1>2 DEF SameBut
<1>9. Sends(r, s, head)
  <2>1. r.len \in Nat
    BY <1>1
  <2> QED BY <1>2, <1>6, <1>7, <1>8, <2>1, Zenon DEF Sends
<1> QED BY <1>9 DEF r

(* What serving a request does.                                            *)
Clean(s) == [s EXCEPT !.failed = FALSE, !.fault = FALSE]
LEMMA CleanIs ==
    ASSUME NEW s \in DevStates
    PROVE  Clean(s) \in DevStates /\ SameBut(Clean(s), s) /\ Clean(s).mem = s.mem
<1> DEFINE A == [InMemory -> Cell]
           B == Seq(Datum(kind))
           C == Seq(Message)
           D == {[w |-> 1024, h |-> 768, id |-> 0]}
           E == {[res |-> 0, at |-> 0]}
           Y == [mem : A, disk : {sc.disk}, rx : B, out : C, res : {<<>>}, scanout : D,
                 cursor : E, rnd : Nat, failed : BOOLEAN, fault : BOOLEAN]
           x == [s EXCEPT !.failed = FALSE]
           y == [x EXCEPT !.fault = FALSE]
<1>1. s \in Y /\ DevStates = Y
  BY DEF DevStates
<1> HIDE DEF A, B, C, D, E
<1>2. x \in Y /\ x.rx = s.rx /\ x.out = s.out /\ x.rnd = s.rnd /\ x.mem = s.mem
  BY <1>1
<1> HIDE DEF x
<1>3. y \in Y /\ y.rx = s.rx /\ y.out = s.out /\ y.rnd = s.rnd /\ y.mem = s.mem
  BY <1>2
<1>4. Clean(s) = y
  BY DEF Clean, x
<1> HIDE DEF y, Y
<1> QED BY <1>1, <1>3, <1>4 DEF SameBut
LEMMA HandledFills ==
    ASSUME StreamMachine, dev \in DevStates, NEW head, <<0, head>> \in sc.heads,
           kind = "net" => dev.rx # <<>>
    PROVE  Fills(Handled(0, head), dev, head)
<1> DEFINE s == Clean(dev)
           c == readChain(sc.tables, sc.num, head)
           h == Handled(0, head)
<1>1. s \in DevStates /\ SameBut(s, dev) /\ s.mem = dev.mem
  BY CleanIs
<1>2. \A r : Fills(r, s, head) => Fills(r, dev, head)
  BY ZenonT(40), <1>1 DEF Fills, Taken, SameBut
<1>3. kind \in {"console", "net", "rng", "input"}
  BY DEF StreamMachine, Streams
<1>4. c.out = Chain(head)
  BY DEF Chain
<1>5. CASE ~c.ok
  <2>1. h = Result(fail(s), 0)
    BY <1>5 DEF Handled, Clean
  <2> HIDE DEF h, s
  <2> QED BY <1>1, <1>2, <2>1, NothingTaken DEF h
<1>6. CASE c.ok
  <2>1. CASE kind = "console"
    <3>1. h = consoleFillRx(s, Chain(head))
      BY <1>4, <1>6, <2>1 DEF Handled, Clean, consoleHandle
    <3> HIDE DEF h, s
    <3> QED BY <1>1, <1>2, <2>1, <3>1, ConsoleTaken DEF h
  <2>2. CASE kind = "net"
    <3>1. h = netFillRx(s, Chain(head))
      BY <1>4, <1>6, <2>2 DEF Handled, Clean, netHandle
    <3>2. s.rx # <<>>
      BY <1>1, <2>2 DEF SameBut
    <3> HIDE DEF h, s
    <3> QED BY <1>1, <1>2, <2>2, <3>1, <3>2, NetTaken DEF h
  <2>3. CASE kind = "rng"
    <3>1. h = fillRequest(s, Chain(head))
      BY <1>4, <1>6, <2>3 DEF Handled, Clean
    <3> HIDE DEF h, s
    <3> QED BY <1>1, <1>2, <2>3, <3>1, RandomTaken DEF h
  <2>4. CASE kind = "input"
    <3>1. h = fillEvent(s, Chain(head))
      BY <1>4, <1>6, <2>4 DEF Handled, Clean, inputHandle
    <3> HIDE DEF h, s
    <3> QED BY <1>1, <1>2, <2>4, <3>1, InputTaken DEF h
  <2> QED BY <1>3, <2>1, <2>2, <2>3, <2>4
<1> QED BY <1>5, <1>6
LEMMA HandledSends ==
    ASSUME StreamMachine, dev \in DevStates, NEW head, <<1, head>> \in sc.heads
    PROVE  Sends(Handled(1, head), dev, head)
<1> DEFINE s == Clean(dev)
           c == readChain(sc.tables, sc.num, head)
           h == Handled(1, head)
<1>1. s \in DevStates /\ SameBut(s, dev) /\ s.mem = dev.mem
  BY CleanIs
<1>2. \A r : Sends(r, s, head) => Sends(r, dev, head)
  BY <1>1 DEF Sends, SameBut
<1>3. TablesOK /\ head \in Nat
  <2>1. TablesOK
    BY DEF StreamMachine
  <2> QED BY <2>1, LentBy
<1>4. kind \in {"console", "net", "input"}
  <2>1. 1 \in Queues
    BY LentBy
  <2>2. kind # "rng"
    BY <2>1 DEF Queues, QueueCount
  <2> QED BY <2>2 DEF StreamMachine, Streams
<1>5. c.out = Chain(head)
  BY DEF Chain
<1>6. CASE ~c.ok
  <2>1. h = Result(fail(s), 0)
    BY <1>6 DEF Handled, Clean
  <2> HIDE DEF h, s
  <2> QED BY <1>1, <1>2, <1>3, <2>1, NothingSent DEF h
<1>7. CASE c.ok
  <2>1. CASE kind = "console"
    <3>1. h = consoleConsumeTx(s, Chain(head))
      BY <1>5, <1>7, <2>1 DEF Handled, Clean, consoleHandle
    <3> HIDE DEF h, s
    <3> QED BY <1>1, <1>2, <1>3, <2>1, <3>1, ConsoleSent DEF h
  <2>2. CASE kind = "net"
    <3>1. h = netConsumeTx(s, Chain(head))
      BY <1>5, <1>7, <2>2 DEF Handled, Clean, netHandle
    <3>2. NetHeader <= Len(Places(Chain(head), FALSE))
      BY <1>7, <2>2, LentBy
    <3> HIDE DEF h, s
    <3> QED BY <1>1, <1>2, <1>3, <2>2, <3>1, <3>2, NetSent DEF h
  <2>3. CASE kind = "input"
    <3>1. h = consumeStatus(s, Chain(head))
      BY <1>5, <1>7, <2>3 DEF Handled, Clean, inputHandle
    <3> HIDE DEF h, s
    <3> QED BY <1>1, <1>2, <1>3, <2>3, <3>1, InputSent DEF h
  <2> QED BY <1>4, <2>1, <2>2, <2>3
<1> QED BY <1>6, <1>7

-----------------------------------------------------------------------------
(* The serial port, and the steps.                                         *)
(* The serial port.                                                        *)
UartStates == [ier : Nat, lcr : Nat, mcr : Nat, dll : Nat, dlm : Nat,
               rx : Seq(Characters), out : Seq(Nat), irq : BOOLEAN]
Announced(u, h) == DataReady(u) => u.irq \/ h = "claimed"
LEMMA UpdateIs ==
    ASSUME NEW u \in UartStates
    PROVE  LET v == uartUpdateIRQ(u)
           IN  v \in UartStates /\ v.rx = u.rx /\ \A h : Announced(v, h)
<1> DEFINE b == DataReady(u) \/ Transmit(u)
           v == [u EXCEPT !.irq = b]
           X == Seq(Characters)
           Y == [ier : Nat, lcr : Nat, mcr : Nat, dll : Nat, dlm : Nat,
                 rx : X, out : Seq(Nat), irq : BOOLEAN]
<1>1. b \in BOOLEAN
  BY DEF DataReady, Transmit
<1>2. u \in Y /\ UartStates = Y
  BY DEF UartStates
<1>3. uartUpdateIRQ(u) = v
  BY DEF uartUpdateIRQ
<1>4. DataReady(u) => b
  OBVIOUS
<1> HIDE DEF b, X
<1>5. v \in Y /\ v.rx = u.rx /\ v.ier = u.ier /\ v.irq = b
  BY <1>1, <1>2
<1> HIDE DEF v, Y
<1>6. DataReady(v) => v.irq
  BY <1>4, <1>5 DEF DataReady
<1> QED BY <1>2, <1>3, <1>5, <1>6 DEF Announced
LEMMA Received ==
    ASSUME NEW u \in UartStates, NEW x \in Seq(Characters)
    PROVE  [u EXCEPT !.rx = x] \in UartStates /\ [u EXCEPT !.rx = x].rx = x
<1> DEFINE X == Seq(Characters)
<1>1. UartStates = [ier : Nat, lcr : Nat, mcr : Nat, dll : Nat, dlm : Nat,
                    rx : X, out : Seq(Nat), irq : BOOLEAN]
  BY DEF UartStates
<1>2. x \in X
  OBVIOUS
<1> HIDE DEF X
<1> QED BY <1>1, <1>2
LEMMA WrittenPort ==
    ASSUME NEW u \in UartStates, NEW off \in {0, 1, 3}, NEW v \in {0, 1, 128}, NEW h, Announced(u, h)
    PROVE  LET w == uartWrite(u, off, v)
           IN  w \in UartStates /\ w.rx = u.rx /\ Announced(w, h)
<1> DEFINE X == Seq(Characters)
           O == Seq(Nat)
           Y == [ier : Nat, lcr : Nat, mcr : Nat, dll : Nat, dlm : Nat,
                 rx : X, out : O, irq : BOOLEAN]
           w == uartWrite(u, off, v)
           Same(x) == x.ier = u.ier /\ x.rx = u.rx /\ x.irq = u.irq
<1>1. u \in Y /\ UartStates = Y
  BY DEF UartStates
<1>2. v \in Nat
  OBVIOUS
<1>3. Append(u.out, v) \in O
  <2>1. u.out \in Seq(Nat)
    BY DEF UartStates
  <2> QED BY <1>2, <2>1, AppendProperties
<1> HIDE DEF X, O
<1> DEFINE o == Append(u.out, v)
<1>4. \A x \in Y : Same(x) => x.rx = u.rx /\ Announced(x, h)
  BY DEF Announced, DataReady
<1>5. CASE off = 0
  <2> HIDE DEF o
  <2>1. [u EXCEPT !.dll = v] \in Y /\ Same([u EXCEPT !.dll = v])
    BY <1>1, <1>2
  <2>2. [u EXCEPT !.out = o] \in Y /\ Same([u EXCEPT !.out = o])
    BY <1>1, <1>3 DEF o
  <2>3. [u EXCEPT !.out = Append(@, v)] = [u EXCEPT !.out = o]
    BY <1>1 DEF o
  <2>4. w \in {[u EXCEPT !.dll = v], [u EXCEPT !.out = o]}
    BY <1>5, <2>3 DEF uartWrite
  <2> HIDE DEF w, Y
  <2>5. w \in Y /\ Same(w)
    BY <2>1, <2>2, <2>4
  <2> HIDE DEF Same
  <2> QED BY <1>1, <1>4, <2>5 DEF w
<1>6. CASE off = 1
  <2> DEFINE x == [u EXCEPT !.ier = v]
             y == [u EXCEPT !.dlm = v]
  <2>1. x \in Y /\ x.rx = u.rx
    BY <1>1, <1>2
  <2>2. y \in Y /\ Same(y)
    BY <1>1, <1>2
  <2>3. w = IF Divisor(u) THEN y ELSE uartUpdateIRQ(x)
    BY <1>6 DEF uartWrite
  <2> HIDE DEF w, x, y, Y, Same
  <2>4. uartUpdateIRQ(x) \in Y /\ uartUpdateIRQ(x).rx = u.rx /\ Announced(uartUpdateIRQ(x), h)
    BY <1>1, <2>1, UpdateIs
  <2> QED BY <1>1, <1>4, <2>2, <2>3, <2>4 DEF w
<1>7. CASE off = 3
  <2>1. w = [u EXCEPT !.lcr = v]
    BY <1>7 DEF uartWrite
  <2>2. w \in Y /\ Same(w)
    BY <1>1, <1>2, <2>1
  <2> HIDE DEF w, Y, Same
  <2> QED BY <1>1, <1>4, <2>2 DEF w
<1> QED BY <1>5, <1>6, <1>7
LEMMA ReadPort ==
    ASSUME NEW u \in UartStates, NEW off \in {0, 1, 2, 5}, NEW h, Announced(u, h)
    PROVE  LET v == uartRead(u, off)
           IN  /\ v \in UartStates /\ Announced(v, h)
               /\ \/ v = u
                  \/ off = 0 /\ v # u /\ u.rx # <<>> /\ v.rx = Tail(u.rx) /\ uartValue(u, off) = u.rx[1]
<1> DEFINE v == uartRead(u, off)
           t == Tail(u.rx)
           x == [u EXCEPT !.rx = t]
<1>1. CASE ~(off = 0 /\ ~Divisor(u) /\ u.rx # <<>>)
  <2>1. v = u
    BY <1>1 DEF uartRead
  <2> QED BY <2>1
<1>2. CASE off = 0 /\ ~Divisor(u) /\ u.rx # <<>>
  <2>1. [u EXCEPT !.rx = Tail(@)] = x
    BY DEF UartStates
  <2>2. v = uartUpdateIRQ(x)
    <3> HIDE DEF x
    <3> QED BY <1>2, <2>1 DEF uartRead
  <2>3. u.rx \in Seq(Characters) /\ t \in Seq(Characters) /\ Len(t) = Len(u.rx) - 1 /\ Len(u.rx) \in Nat
    <3>1. u.rx \in Seq(Characters)
      BY DEF UartStates
    <3> QED BY <1>2, <3>1, HeadTailProperties, LenProperties
  <2> HIDE DEF t, v
  <2>4. x \in UartStates /\ x.rx = t
    BY <2>3, Received
  <2> HIDE DEF x
  <2>5. v \in UartStates /\ v.rx = t /\ Announced(v, h)
    BY <2>2, <2>4, UpdateIs
  <2>6. v # u
    <3>1. t # u.rx
      BY <2>3
    <3> QED BY <2>5, <3>1
  <2>7. uartValue(u, off) = u.rx[1]
    BY <1>2 DEF uartValue
  <2> QED BY <1>2, <2>5, <2>6, <2>7 DEF t, v
<1> QED BY <1>1, <1>2
PortOK(u, ty, gv, h) == /\ u \in UartStates /\ ty \in Seq(Characters) /\ Announced(u, h)
                        /\ kind = "console" => ty \o u.rx = gv
LEMMA FirstTyped ==
    ASSUME NEW S, NEW ty \in Seq(S), NEW q \in Seq(S), q # <<>>
    PROVE  Append(ty, q[1]) \in Seq(S) /\ Append(ty, q[1]) \o Tail(q) = ty \o q
<1> DEFINE T == Seq(S)
           x == <<q[1]>>
           y == Tail(q)
<1>1. q[1] \in S /\ y \in T /\ x \in T /\ q = x \o y
  <2>1. q[1] \in S
    BY EmptySeq, ElementOfSeq
  <2>2. y \in T
    BY HeadTailProperties
  <2>3. q = x \o y
    OBVIOUS
  <2> QED BY <2>1, <2>2, <2>3
<1>2. Append(ty, q[1]) = ty \o x /\ Append(ty, q[1]) \in T
  BY <1>1, AppendProperties
<1>3. \A a, b, c \in T : (a \o b) \o c = a \o (b \o c)
  <2>1. Associates(T)
    BY Associative
  <2> HIDE DEF T
  <2> QED BY <2>1 DEF Associates
<1>4. ty \in T
  OBVIOUS
<1> HIDE DEF T, x, y
<1>5. (ty \o x) \o y = ty \o (x \o y)
  BY <1>1, <1>3, <1>4
<1> QED BY <1>1, <1>2, <1>5 DEF T, y
LEMMA PortStep ==
    ASSUME PortOK(uart, typed, given, handling), Port
    PROVE  PortOK(uart', typed', given, handling')
<1>1. uart \in UartStates /\ typed \in Seq(Characters) /\ Announced(uart, handling)
      /\ (kind = "console" => typed \o uart.rx = given)
  BY DEF PortOK
<1>2. CASE \E off \in {0, 1, 2, 5} : UartRead(off)
  <2>1. PICK off \in {0, 1, 2, 5} : UartRead(off)
    BY <1>2
  <2> DEFINE v == uartRead(uart, off)
  <2>2. /\ v \in UartStates /\ Announced(v, handling)
        /\ \/ v = uart
           \/ off = 0 /\ v # uart /\ uart.rx # <<>> /\ v.rx = Tail(uart.rx)
              /\ uartValue(uart, off) = uart.rx[1]
    BY <1>1, ReadPort
  <2>3. uart' = v /\ typed' = IF off = 0 /\ v # uart THEN Append(typed, uartValue(uart, off)) ELSE typed
    BY <2>1 DEF UartRead
  <2>4. handling' = IF off = 5 /\ handling # "none" /\ uartValue(uart, off) = 96 THEN "empty" ELSE handling
    BY <2>1 DEF UartRead
  <2>5. uartValue(uart, 5) = 96 => uart.rx = <<>>
    BY DEF uartValue
  <2> HIDE DEF v
  <2>6. CASE v = uart
    <3>1. Announced(uart, handling')
      BY <1>1, <2>4, <2>5 DEF Announced, DataReady
    <3> QED BY <1>1, <2>3, <2>6, <3>1 DEF PortOK
  <2>7. CASE off = 0 /\ v # uart /\ uart.rx # <<>> /\ v.rx = Tail(uart.rx)
             /\ uartValue(uart, off) = uart.rx[1]
    <3>1. uart.rx \in Seq(Characters)
      BY <1>1 DEF UartStates
    <3>2. typed' \in Seq(Characters) /\ typed' \o v.rx = typed \o uart.rx
      BY <1>1, <2>3, <2>7, <3>1, FirstTyped
    <3>3. handling' = handling
      BY <2>4, <2>7
    <3> QED BY <1>1, <2>2, <2>3, <3>2, <3>3 DEF PortOK
  <2> QED BY <2>2, <2>6, <2>7
<1>3. CASE \E off \in {0, 1, 3}, v \in {0, 1, 128} : UartWrite(off, v)
  <2>1. PICK off \in {0, 1, 3}, v \in {0, 1, 128} : UartWrite(off, v)
    BY <1>3
  <2>2. uart' = uartWrite(uart, off, v) /\ typed' = typed /\ handling' = handling
    BY <2>1 DEF UartWrite
  <2> DEFINE w == uartWrite(uart, off, v)
  <2>3. w \in UartStates /\ w.rx = uart.rx /\ Announced(w, handling)
    BY <1>1, WrittenPort
  <2> HIDE DEF w
  <2>4. uart' = w
    BY <2>2 DEF w
  <2> QED BY <1>1, <2>2, <2>3, <2>4 DEF PortOK
<1>4. CASE Claim
  <2> DEFINE v == [uart EXCEPT !.irq = FALSE]
             X == Seq(Characters)
  <2>1. v \in UartStates /\ v.rx = uart.rx
    <3>1. UartStates = [ier : Nat, lcr : Nat, mcr : Nat, dll : Nat, dlm : Nat,
                        rx : X, out : Seq(Nat), irq : BOOLEAN]
      BY DEF UartStates
    <3> HIDE DEF X
    <3> QED BY <1>1, <3>1
  <2>2. uart' = v /\ handling' = "claimed" /\ typed' = typed
    BY <1>4 DEF Claim
  <2> HIDE DEF v
  <2> QED BY <1>1, <2>1, <2>2 DEF PortOK, Announced
<1>5. CASE Complete
  <2>1. handling = "empty" /\ handling' = "none" /\ uart' = uart /\ typed' = typed
    BY <1>5 DEF Complete
  <2>2. Announced(uart, handling')
    BY <1>1, <2>1 DEF Announced
  <2> QED BY <1>1, <2>1, <2>2 DEF PortOK
<1> QED BY <1>2, <1>3, <1>4, <1>5 DEF Port
(* What the device has reported, and what it got from each buffer.         *)
UsedRec == [q : Queues, head : Nat, len : Nat]
Reported(u) == /\ u \in UsedRec /\ <<u.q, u.head>> \in sc.heads
               /\ Passes /\ u.q = 1 => u.len <= Len(Places(Chain(u.head), FALSE))
UsedOK(us) == us \in Seq(UsedRec) /\ \A i \in DOMAIN us : Reported(us[i])
Piece(u, mem) == IF u.q = 1 THEN PieceOf(u.head, u.len, mem) ELSE <<>>
Pieces(us, mem) == FlattenSeq([i \in DOMAIN us |-> Piece(us[i], mem)])
LEMMA PieceIs ==
    ASSUME StreamMachine, Passes, NEW mem \in [InMemory -> Cell], NEW u, Reported(u)
    PROVE  Piece(u, mem) \in Seq(Message)
<1> DEFINE head == u.head
           z == Data(head, FALSE, mem)
           len == u.len
<1>1. TablesOK /\ head \in Nat /\ len \in Nat
  BY DEF StreamMachine, Reported, UsedRec
<1>2. <<>> \in Seq(Message)
  BY EmptySeq
<1>3. CASE u.q # 1
  BY <1>2, <1>3 DEF Piece
<1>4. CASE u.q = 1
  <2>1. z \in Seq(Cell) /\ Len(z) = Len(Places(Chain(head), FALSE)) /\ Len(z) \in Nat
    <3> HIDE DEF head, len
    <3>1. /\ z \in Seq(Cell) /\ Len(z) = Len(Places(Chain(head), FALSE))
          /\ Len(Places(Chain(head), FALSE)) \in Nat
      BY <1>1, DataIs
    <3> HIDE DEF z
    <3> QED BY <3>1
  <2>2. len <= Len(Places(Chain(head), FALSE))
    BY <1>4 DEF Reported
  <2> HIDE DEF z
  <2>3. len \in 0 .. Len(z)
    <3> DEFINE k == Len(z)
    <3>1. len \in Nat /\ k \in Nat /\ len <= k
      BY <1>1, <2>1, <2>2
    <3> HIDE DEF len, head, k
    <3>2. len \in 0 .. k
      BY <3>1
    <3> QED BY <3>2 DEF k
  <2>4. Piece(u, mem) = IF kind = "console" THEN SubSeq(z, 1, len) ELSE FrameSent(z, len)
    BY <1>4 DEF Piece, PieceOf, First, z
  <2> HIDE DEF len, head
  <2> DEFINE t == SubSeq(z, 1, len)
  <2>5. t \in Seq(Cell) /\ Len(t) = len
    BY <2>1, <2>3, Prefix
  <2> HIDE DEF t
  <2>6. CASE kind = "console"
    <3>1. Message = Cell
      BY <2>6 DEF Message
    <3> QED BY <2>4, <2>5, <2>6, <3>1 DEF t
  <2>7. CASE kind = "net"
    <3> DEFINE frame == SubSeq(t, NetHeader + 1, len)
    <3>1. Message = Seq(Cell)
      BY <2>7 DEF Message
    <3>2. frame \in Seq(Cell)
      <4>0. NetHeader \in Nat
        BY RequestsAssumption
      <4>1. CASE len < NetHeader + 1
        <5>1. frame = <<>>
          BY <1>1, <4>0, <4>1, SubSeqEmpty
        <5> QED BY <5>1, EmptySeq
      <4>2. CASE ~(len < NetHeader + 1)
        <5>1. NetHeader \in 0 .. Len(t)
          BY <1>1, <2>5, <4>0, <4>2
        <5> QED BY <2>5, <5>1, Rest
      <4> QED BY <4>1, <4>2
    <3> HIDE DEF frame
    <3>3. FrameSent(z, len) = IF frame = <<>> \/ len < Len(z) THEN <<>> ELSE <<frame>>
      BY DEF FrameSent, frame, t
    <3>4. <<frame>> \in Seq(Seq(Cell))
      BY <3>2
    <3> QED BY <1>2, <2>4, <2>7, <3>1, <3>3, <3>4
  <2> QED BY <2>6, <2>7 DEF Passes
<1> QED BY <1>3, <1>4

LEMMA PiecesAppend ==
    ASSUME StreamMachine, Passes, NEW mem \in [InMemory -> Cell],
           NEW us, UsedOK(us), NEW u, Reported(u)
    PROVE  /\ UsedOK(Append(us, u)) /\ Pieces(us, mem) \in Seq(Message)
           /\ Pieces(Append(us, u), mem) = Pieces(us, mem) \o Piece(u, mem)
<1> DEFINE M == Seq(Message)
           f(x) == [i \in DOMAIN x |-> Piece(x[i], mem)]
           v == Append(us, u)
           n == Len(us)
<1>1. us \in Seq(UsedRec) /\ u \in UsedRec /\ n \in Nat /\ DOMAIN us = 1 .. n
  BY LenProperties DEF UsedOK, Reported
<1>2. /\ v \in Seq(UsedRec) /\ DOMAIN v = 1 .. n + 1 /\ v[n + 1] = u
      /\ \A i \in 1 .. n : v[i] = us[i]
  <2>1. v \in Seq(UsedRec) /\ Len(v) = n + 1 /\ \A i \in 1 .. n : v[i] = us[i]
    BY <1>1, AppendProperties
  <2>2. v[n + 1] = u
    BY <1>1, AppendProperties
  <2>3. DOMAIN v = 1 .. n + 1
    BY <2>1, LenProperties
  <2> QED BY <2>1, <2>2, <2>3
<1> HIDE DEF v, n
<1>3. \A i \in DOMAIN us : Reported(us[i])
  BY DEF UsedOK
<1>4. UsedOK(v)
  <2>1. ASSUME NEW i \in DOMAIN v  PROVE Reported(v[i])
    <3>1. i \in 1 .. n \/ i = n + 1
      BY <1>1, <1>2
    <3> QED BY <1>1, <1>2, <1>3, <3>1
  <2> QED BY <1>2, <2>1 DEF UsedOK
<1>5. \A x : Reported(x) => Piece(x, mem) \in M
  BY PieceIs
<1> HIDE DEF M
<1>6. f(us) \in Seq(M) /\ Piece(u, mem) \in M
  <2>1. \A i \in 1 .. n : Piece(us[i], mem) \in M
    BY <1>1, <1>3, <1>5
  <2>2. [i \in 1 .. n |-> Piece(us[i], mem)] \in Seq(M)
    BY <1>1, <2>1
  <2> QED BY <1>1, <1>5, <2>2
<1>7. f(v) = Append(f(us), Piece(u, mem))
  <2> DEFINE a == f(us)
             p == Piece(u, mem)
             b == Append(a, p)
             c == f(v)
  <2>1. a \in Seq(M) /\ p \in M /\ Len(a) = n
    <3>1. DOMAIN a = 1 .. n
      BY <1>1
    <3>2. DOMAIN a = 1 .. Len(a) /\ Len(a) \in Nat
      BY <1>6, LenProperties
    <3> HIDE DEF a
    <3> QED BY <1>1, <1>6, <3>1, <3>2 DEF a
  <2> HIDE DEF a, p
  <2>2. /\ b \in Seq(M) /\ Len(b) = n + 1 /\ b[n + 1] = p /\ \A i \in 1 .. n : b[i] = a[i]
    BY <2>1, AppendProperties
  <2>3. DOMAIN b = 1 .. n + 1
    BY <2>2, LenProperties
  <2>4. \A i \in 1 .. n + 1 : c[i] = b[i]
    <3>1. ASSUME NEW i \in 1 .. n + 1  PROVE c[i] = b[i]
      <4>1. c[i] = Piece(v[i], mem)
        BY <1>2
      <4>2. CASE i = n + 1
        BY <1>2, <2>2, <4>1, <4>2 DEF p
      <4>3. CASE i \in 1 .. n
        <5>1. a[i] = Piece(us[i], mem)
          BY <1>1, <4>3 DEF a
        <5> QED BY <1>2, <2>2, <4>1, <4>3, <5>1
      <4>4. i = n + 1 \/ i \in 1 .. n
        BY <1>1
      <4> QED BY <4>2, <4>3, <4>4
    <3> QED BY <3>1
  <2>5. b = [i \in 1 .. n + 1 |-> b[i]]
    <3> HIDE DEF b
    <3>1. b \in [1 .. Len(b) -> M] /\ Len(b) = n + 1
      BY <2>2, LenProperties
    <3> QED BY <3>1
  <2>6. c = [i \in 1 .. n + 1 |-> c[i]]
    BY <1>2
  <2> HIDE DEF b, c
  <2>7. c = b
    BY <2>4, <2>5, <2>6
  <2> QED BY <2>7 DEF a, b, c, p
<1> HIDE DEF f
<1>8. /\ FlattenSeq(Append(f(us), Piece(u, mem))) = FlattenSeq(f(us)) \o Piece(u, mem)
      /\ FlattenSeq(f(us)) \in M
  <2>1. f(us) \in Seq(Seq(Message)) /\ Piece(u, mem) \in Seq(Message)
    BY <1>6 DEF M
  <2> QED BY <2>1, FlattenAppend DEF M
<1>9. Pieces(us, mem) = FlattenSeq(f(us)) /\ Pieces(v, mem) = FlattenSeq(f(v))
  BY DEF Pieces, f
<1> QED BY <1>4, <1>7, <1>8, <1>9 DEF v, M

LEMMA PiecesStay ==
    ASSUME StreamMachine, NEW mem \in [InMemory -> Cell], NEW mem2 \in [InMemory -> Cell],
           NEW us, UsedOK(us), NEW descs, ChangedIn(mem2, mem, descs),
           \A g : <<1, g>> \in sc.heads => Disjoint(descs, Chain(g))
    PROVE  Pieces(us, mem2) = Pieces(us, mem)
<1>1. TablesOK
  BY DEF StreamMachine
<1>2. ASSUME NEW i \in DOMAIN us  PROVE Piece(us[i], mem2) = Piece(us[i], mem)
  <2> DEFINE u == us[i]
  <2>1. u.head \in Nat /\ <<u.q, u.head>> \in sc.heads
    BY DEF UsedOK, Reported, UsedRec
  <2> HIDE DEF u
  <2>2. CASE u.q = 1
    <3>1. Disjoint(descs, Chain(u.head))
      BY <2>1, <2>2
    <3>2. Data(u.head, FALSE, mem2) = Data(u.head, FALSE, mem)
      BY <1>1, <2>1, <3>1, GoingStays
    <3> QED BY <2>2, <3>2 DEF Piece, PieceOf, u
  <2>3. CASE u.q # 1
    BY <2>3 DEF Piece, u
  <2> QED BY <2>2, <2>3
<1>3. [i \in DOMAIN us |-> Piece(us[i], mem2)] = [i \in DOMAIN us |-> Piece(us[i], mem)]
  BY <1>2
<1> QED BY <1>3, Zenon DEF Pieces
(* What holds of a device that passes on streams.                          *)
PostedOK(ps) == /\ ps \in [Queues -> Seq(Nat)]
                /\ \A q \in Queues : \A i \in DOMAIN ps[q] : <<q, ps[q][i]>> \in sc.heads
Increasing(rnd, gt) == /\ \A i, j \in DOMAIN gt : i < j => gt[i][2] < gt[j][2]
                       /\ \A i \in DOMAIN gt : gt[i][2] <= rnd
InOrder(dv, gv, gt) == /\ gv \in Seq(Datum(kind)) /\ gt \in Seq(Message)
                       /\ Passes => gt \o dv.rx = gv
                       /\ kind = "input" => gt \o EventsOf(dv.rx) = EventsOf(gv)
                       /\ kind = "rng" => Increasing(dv.rnd, gt)
SentOK(dv, us) == Passes => dv.out = Pieces(us, dv.mem)

LEMMA Waits ==
    ASSUME NEW s \in DevStates
    PROVE  /\ Passes => s.rx \in Seq(Message)
           /\ kind = "input" => EventsOf(s.rx) \in Seq(Message) /\ s.rx \in Seq(Nat)
<1>1. ASSUME kind = "console"  PROVE s.rx \in Seq(Message)
  <2>1. Message = Cell /\ Datum(kind) = Characters
    BY <1>1 DEF Message, Datum
  <2>2. s.rx \in Seq(Characters)
    BY <2>1 DEF DevStates
  <2> QED BY <2>1, <2>2, CharacterSeqs
<1>2. ASSUME kind = "net"  PROVE s.rx \in Seq(Message)
  <2>1. Message = Seq(Cell) /\ Datum(kind) = Seq(Characters)
    BY <1>2 DEF Message, Datum
  <2>2. s.rx \in Seq(Seq(Characters))
    BY <2>1 DEF DevStates
  <2> QED BY <2>1, <2>2, FrameSeqs
<1>3. ASSUME kind = "input"  PROVE EventsOf(s.rx) \in Seq(Message) /\ s.rx \in Seq(Nat)
  <2>1. Message = Cell /\ Datum(kind) = Nat
    BY <1>3 DEF Message, Datum
  <2>2. s.rx \in Seq(Nat)
    BY <2>1 DEF DevStates
  <2>3. EventsOf(s.rx) \in Seq(Cell)
    BY <2>2, EventsFirst
  <2> QED BY <2>1, <2>2, <2>3
<1> QED BY <1>1, <1>2, <1>3 DEF Passes

(* A stream goes on where it was.                                          *)
LEMMA GoesOn ==
    ASSUME NEW S, NEW x \in Seq(S), NEW y \in Seq(S), NEW z \in Seq(S)
    PROVE  x \o y \in Seq(S) /\ (x \o y) \o z = x \o (y \o z)
<1> DEFINE T == Seq(S)
<1>1. \A a, b, c \in T : (a \o b) \o c = a \o (b \o c)
  <2>1. Associates(T)
    BY Associative
  <2> HIDE DEF T
  <2> QED BY <2>1 DEF Associates
<1>2. x \o y \in T
  BY ConcatProperties
<1>3. x \in T /\ y \in T /\ z \in T
  OBVIOUS
<1> HIDE DEF T
<1>4. (x \o y) \o z = x \o (y \o z)
  BY <1>1, <1>3
<1> QED BY <1>2, <1>4 DEF T

LEMMA DrawnOn ==
    ASSUME NEW gt \in Seq(Cell), NEW rnd \in Nat, NEW m \in Nat, NEW rnd2 \in Nat,
           rnd + m <= rnd2, Increasing(rnd, gt)
    PROVE  Increasing(rnd2, gt \o Drawn(rnd, m))
<1> DEFINE D == Drawn(rnd, m)
           z == gt \o D
           n == Len(gt)
<1>1. D \in Seq(Cell) /\ Len(D) = m /\ \A k \in 1 .. m : D[k][2] = rnd + k
  BY DrawnIs DEF Drawn
<1> HIDE DEF D
<1>2. /\ z \in Seq(Cell) /\ Len(z) = n + m
      /\ \A i \in 1 .. n + m : z[i] = IF i <= n THEN gt[i] ELSE D[i - n]
  BY <1>1, ConcatProperties
<1>3. n \in Nat /\ DOMAIN gt = 1 .. n
  BY LenProperties
<1>4. DOMAIN z = 1 .. n + m
  BY <1>2, LenProperties
<1>5. /\ \A i, j \in 1 .. n : i < j => gt[i][2] < gt[j][2]
      /\ \A i \in 1 .. n : gt[i][2] <= rnd
  BY <1>3 DEF Increasing
<1>6. \A i \in 1 .. n : gt[i][2] \in Nat
  <2> SUFFICES ASSUME NEW i \in 1 .. n  PROVE gt[i][2] \in Nat
    OBVIOUS
  <2>1. gt[i] \in Cell
    BY <1>3, ElementOfSeq
  <2> QED BY <2>1 DEF Cell
<1> HIDE DEF z, n
<1> DEFINE at(i) == z[i][2]
           go(i) == gt[i][2]
<1>7. \A i \in 1 .. n : at(i) = go(i) /\ go(i) \in Nat /\ go(i) <= rnd
  <2>1. \A i \in 1 .. n : i \in 1 .. n + m /\ i <= n
    BY <1>3
  <2> QED BY <1>2, <1>5, <1>6, <2>1
<1>8. \A k \in 1 .. m : at(n + k) = rnd + k
  <2> SUFFICES ASSUME NEW k \in 1 .. m  PROVE z[n + k][2] = rnd + k
    OBVIOUS
  <2>1. n + k \in 1 .. n + m /\ ~(n + k <= n) /\ (n + k) - n = k
    BY <1>3
  <2>2. z[n + k] = D[k]
    BY <1>2, <2>1
  <2> QED BY <1>1, <2>2
<1>9. \A i \in 1 .. n + m : i \in 1 .. n \/ \E k \in 1 .. m : i = n + k
  <2> SUFFICES ASSUME NEW i \in 1 .. n + m, ~(i \in 1 .. n)  PROVE \E k \in 1 .. m : i = n + k
    OBVIOUS
  <2>1. i - n \in 1 .. m /\ i = n + (i - n)
    BY <1>3
  <2> QED BY <2>1
<1>10. \A i, j \in 1 .. n : i < j => go(i) < go(j)
  BY <1>5
<1> HIDE DEF at, go
<1>11. ASSUME NEW i \in 1 .. n + m  PROVE at(i) <= rnd2
  <2>1. CASE i \in 1 .. n
    BY <1>7, <2>1
  <2>2. CASE \E k \in 1 .. m : i = n + k
    <3>1. PICK k \in 1 .. m : i = n + k
      BY <2>2
    <3>2. at(i) = rnd + k
      BY <1>8, <3>1
    <3> QED BY <3>2
  <2> QED BY <1>9, <2>1, <2>2
<1>12. ASSUME NEW i \in 1 .. n + m, NEW j \in 1 .. n + m, i < j  PROVE at(i) < at(j)
  <2>1. CASE j \in 1 .. n
    <3>1. i \in 1 .. n
      BY <1>3, <1>12, <2>1
    <3> QED BY <1>7, <1>10, <1>12, <2>1, <3>1
  <2>2. CASE \E k \in 1 .. m : j = n + k
    <3>1. PICK k \in 1 .. m : j = n + k
      BY <2>2
    <3>2. at(j) = rnd + k
      BY <1>8, <3>1
    <3>3. CASE i \in 1 .. n
      BY <1>7, <3>2, <3>3
    <3>4. CASE \E l \in 1 .. m : i = n + l
      <4>1. PICK l \in 1 .. m : i = n + l
        BY <3>4
      <4>2. at(i) = rnd + l
        BY <1>8, <4>1
      <4>3. l < k
        BY <1>3, <1>12, <3>1, <4>1
      <4> QED BY <3>2, <4>2, <4>3
    <3> QED BY <1>9, <3>3, <3>4
  <2> QED BY <1>9, <2>1, <2>2
<1> QED BY <1>4, <1>11, <1>12 DEF Increasing, at, z, D
LEMMA FillInOrder ==
    ASSUME StreamMachine, dev \in DevStates, NEW head, NEW r, Fills(r, dev, head),
           InOrder(dev, given, got)
    PROVE  InOrder(r.s, given, got \o (IF r.len = 0 THEN <<>> ELSE Found(0, head, r)))
<1> DEFINE c == First(r.len, Data(head, TRUE, r.s.mem))
           new == IF r.len = 0 THEN <<>> ELSE Found(0, head, r)
<1>1. r.s \in DevStates /\ r.len \in Nat /\ Taken(r, dev, head)
  BY DEF Fills
<1>2. c \in Seq(Cell)
  BY <1>1 DEF Taken
<1>3. r.len = 0 => c = <<>>
  <2>1. ASSUME r.len = 0  PROVE SubSeq(Data(head, TRUE, r.s.mem), 1, r.len) = <<>>
    BY <2>1, SubSeqEmpty
  <2> QED BY <2>1 DEF First
<1>4. kind # "net" => new = c
  <2>1. ASSUME kind # "net", r.len # 0  PROVE Found(0, head, r) = c
    <3>1. ~(~Fed(0) /\ kind # "rng")
      BY DEF StreamMachine, Streams, Fed
    <3> QED BY <2>1, <3>1 DEF Found
  <2> HIDE DEF c
  <2> QED BY <1>3, <2>1
<1>5. given \in Seq(Datum(kind)) /\ got \in Seq(Message)
  BY DEF InOrder
<1>6. CASE kind = "console"
  <2>1. Message = Cell /\ Passes /\ kind # "net" /\ kind # "input" /\ kind # "rng"
    BY <1>6 DEF Message, Passes
  <2>2. dev.rx = c \o r.s.rx
    BY <1>1, <1>6 DEF Taken
  <2>3. got \o dev.rx = given
    BY <2>1 DEF InOrder
  <2> HIDE DEF c, new
  <2> DEFINE rest == r.s.rx
  <2>4. rest \in Seq(Message)
    BY <1>1, <2>1, Waits
  <2> HIDE DEF rest
  <2>5. got \o c \in Seq(Message) /\ (got \o c) \o rest = got \o (c \o rest)
    <3>1. c \in Seq(Message)
      BY <1>2, <2>1
    <3> QED BY <1>5, <2>4, <3>1, GoesOn
  <2>6. InOrder(r.s, given, got \o c)
    BY <1>5, <2>1, <2>2, <2>3, <2>5 DEF InOrder, rest
  <2> QED BY <1>4, <2>1, <2>6 DEF new
<1>7. CASE kind = "input"
  <2>1. Message = Cell /\ ~Passes /\ kind # "net" /\ kind # "rng"
    BY <1>7 DEF Message, Passes
  <2>2. EventsOf(dev.rx) = c \o EventsOf(r.s.rx)
    BY <1>1, <1>7 DEF Taken
  <2>3. got \o EventsOf(dev.rx) = EventsOf(given)
    BY <1>7 DEF InOrder
  <2> HIDE DEF c, new
  <2> DEFINE rest == EventsOf(r.s.rx)
  <2>4. rest \in Seq(Message)
    BY <1>1, <1>7, Waits
  <2> HIDE DEF rest
  <2>5. got \o c \in Seq(Message) /\ (got \o c) \o rest = got \o (c \o rest)
    <3>1. c \in Seq(Message)
      BY <1>2, <2>1
    <3> QED BY <1>5, <2>4, <3>1, GoesOn
  <2>6. InOrder(r.s, given, got \o c)
    BY <1>5, <2>1, <2>2, <2>3, <2>5 DEF InOrder, rest
  <2> QED BY <1>4, <2>1, <2>6 DEF new
<1>8. CASE kind = "rng"
  <2>1. Message = Cell /\ ~Passes /\ kind # "net" /\ kind # "input"
    BY <1>8 DEF Message, Passes
  <2>2. c = Drawn(dev.rnd, r.len) /\ dev.rnd + r.len <= r.s.rnd
    BY <1>1, <1>8 DEF Taken
  <2>3. Increasing(dev.rnd, got) /\ got \in Seq(Cell)
    BY <1>5, <1>8, <2>1 DEF InOrder
  <2>4. dev.rnd \in Nat /\ r.s.rnd \in Nat
    BY <1>1 DEF DevStates
  <2>5. Increasing(r.s.rnd, got \o Drawn(dev.rnd, r.len))
    <3> DEFINE a == dev.rnd
               b == r.s.rnd
               m == r.len
    <3>1. a \in Nat /\ b \in Nat /\ m \in Nat /\ a + m <= b /\ Increasing(a, got)
      BY <1>1, <2>2, <2>3, <2>4
    <3> HIDE DEF a, b, m
    <3>2. Increasing(b, got \o Drawn(a, m))
      BY <2>3, <3>1, DrawnOn
    <3> QED BY <3>2 DEF a, b, m
  <2> HIDE DEF c, new
  <2>6. got \o c \in Seq(Message)
    <3>1. c \in Seq(Message)
      BY <1>2, <2>1
    <3> QED BY <1>5, <3>1, ConcatProperties
  <2>7. InOrder(r.s, given, got \o c)
    BY <1>5, <2>1, <2>2, <2>5, <2>6 DEF InOrder
  <2> QED BY <1>4, <2>1, <2>7 DEF new
<1>9. CASE kind = "net"
  <2> DEFINE frame == SubSeq(c, NetHeader + 1, Len(c))
             rest == r.s.rx
  <2>1. Message = Seq(Cell) /\ Passes /\ kind # "console" /\ kind # "input" /\ kind # "rng"
    BY <1>9 DEF Message, Passes
  <2>2. \/ r.len = 0 /\ rest = dev.rx
        \/ r.len # 0 /\ dev.rx = <<frame>> \o rest /\ frame \in Seq(Cell)
    BY <1>1, <1>9 DEF Taken
  <2>3. got \o dev.rx = given
    BY <2>1 DEF InOrder
  <2>4. rest \in Seq(Message)
    BY <1>1, <2>1, Waits
  <2>5. r.len # 0 => new = <<frame>>
    <3>1. Fed(0)
      BY <1>9 DEF Fed
    <3> QED BY <1>9, <3>1 DEF Found
  <2>6. r.len = 0 => new = <<>>
    OBVIOUS
  <2> HIDE DEF c, new, frame, rest
  <2>7. CASE r.len = 0 /\ rest = dev.rx
    <3>1. got \o new = got
      BY <1>5, <2>6, <2>7, ConcatEmptySeq
    <3>2. InOrder(r.s, given, got)
      BY <1>5, <2>1, <2>3, <2>7 DEF InOrder, rest
    <3> QED BY <3>1, <3>2 DEF new
  <2>8. CASE r.len # 0 /\ dev.rx = <<frame>> \o rest /\ frame \in Seq(Cell)
    <3> DEFINE f == <<frame>>
    <3>1. f \in Seq(Message)
      BY <2>1, <2>8
    <3> HIDE DEF f
    <3>2. got \o f \in Seq(Message) /\ (got \o f) \o rest = got \o (f \o rest)
      BY <1>5, <2>4, <3>1, GoesOn
    <3>3. InOrder(r.s, given, got \o f)
      BY <1>5, <2>1, <2>3, <2>8, <3>2 DEF InOrder, rest, f
    <3> QED BY <2>5, <2>8, <3>3 DEF new, f
  <2> QED BY <2>2, <2>7, <2>8
<1> QED BY <1>6, <1>7, <1>8, <1>9 DEF StreamMachine, Streams
LEMMA SendInOrder ==
    ASSUME StreamMachine, dev \in DevStates, NEW head, <<1, head>> \in sc.heads,
           NEW r, Sends(r, dev, head), InOrder(dev, given, got)
    PROVE  InOrder(r.s, given, got \o (IF r.len = 0 THEN <<>> ELSE Found(1, head, r)))
<1> DEFINE new == IF r.len = 0 THEN <<>> ELSE Found(1, head, r)
<1>1. kind # "rng"
  <2>1. 1 \in Queues
    BY LentBy
  <2> QED BY <2>1 DEF Queues, QueueCount
<1>2. new = <<>>
  BY <1>1 DEF Found, Fed
<1>3. got \in Seq(Message)
  BY DEF InOrder
<1> HIDE DEF new
<1>4. got \o new = got
  BY <1>2, <1>3, ConcatEmptySeq
<1>5. InOrder(r.s, given, got)
  BY <1>1 DEF InOrder, Sends
<1> QED BY <1>4, <1>5 DEF new
LEMMA UsedAppend ==
    ASSUME NEW us, UsedOK(us), NEW u, Reported(u)
    PROVE  UsedOK(Append(us, u))
<1> DEFINE v == Append(us, u)
           n == Len(us)
<1>1. us \in Seq(UsedRec) /\ u \in UsedRec
  BY DEF UsedOK, Reported
<1>2. n \in Nat /\ DOMAIN us = 1 .. n
  BY <1>1, LenProperties
<1>3. v \in Seq(UsedRec) /\ Len(v) = n + 1 /\ v[n + 1] = u /\ \A i \in 1 .. n : v[i] = us[i]
  BY <1>1, AppendProperties
<1>4. DOMAIN v = 1 .. n + 1
  BY <1>3, LenProperties
<1>5. \A i \in 1 .. n : Reported(us[i])
  BY <1>2 DEF UsedOK
<1> HIDE DEF v, n
<1>6. ASSUME NEW i \in DOMAIN v  PROVE Reported(v[i])
  <2>1. i \in 1 .. n \/ i = n + 1
    BY <1>2, <1>4
  <2> QED BY <1>3, <1>5, <2>1
<1>7. UsedOK(v)
  BY <1>3, <1>6 DEF UsedOK
<1> QED BY <1>7 DEF v

(* A completion reported: what it adds to what was sent.                   *)
LEMMA FillReported ==
    ASSUME StreamMachine, dev \in DevStates, NEW head, <<0, head>> \in sc.heads,
           NEW r, Fills(r, dev, head), UsedOK(used), SentOK(dev, used)
    PROVE  LET u == [q |-> 0, head |-> head, len |-> r.len]
           IN  UsedOK(Append(used, u)) /\ SentOK(r.s, used) /\ SentOK(r.s, Append(used, u))
<1> DEFINE u == [q |-> 0, head |-> head, len |-> r.len]
           m1 == dev.mem
           m2 == r.s.mem
<1>1. r.s \in DevStates /\ r.len \in Nat /\ r.s.out = dev.out /\ ChangedIn(m2, m1, Chain(head))
  BY DEF Fills
<1>2. /\ 0 \in Queues /\ head \in Nat
      /\ \A g : <<1, g>> \in sc.heads => Disjoint(Chain(head), Chain(g))
  BY LentBy
<1>3. Reported(u) /\ u.q = 0
  BY <1>1, <1>2 DEF Reported, UsedRec
<1>4. m1 \in [InMemory -> Cell] /\ m2 \in [InMemory -> Cell]
  BY <1>1 DEF DevStates
<1> HIDE DEF u, m1, m2
<1>5. UsedOK(Append(used, u))
  BY <1>3, UsedAppend
<1>6. ASSUME Passes
      PROVE  r.s.out = Pieces(used, m2) /\ Pieces(Append(used, u), m2) = Pieces(used, m2)
  <2>1. Pieces(used, m2) = Pieces(used, m1)
    BY <1>1, <1>2, <1>4, PiecesStay
  <2>2. dev.out = Pieces(used, m1)
    BY <1>6 DEF SentOK, m1
  <2>3. /\ Pieces(used, m2) \in Seq(Message)
        /\ Pieces(Append(used, u), m2) = Pieces(used, m2) \o Piece(u, m2)
    BY <1>3, <1>4, <1>6, PiecesAppend
  <2>4. Piece(u, m2) = <<>>
    BY <1>3 DEF Piece
  <2> DEFINE z == Pieces(used, m2)
  <2> HIDE DEF z
  <2>5. z \in Seq(Message) /\ Pieces(Append(used, u), m2) = z \o <<>>
    BY <2>3, <2>4 DEF z
  <2>6. z \o <<>> = z
    BY <2>5, ConcatEmptySeq
  <2> QED BY <1>1, <2>1, <2>2, <2>5, <2>6 DEF z
<1> QED BY <1>5, <1>6 DEF SentOK, u, m2
LEMMA SendReported ==
    ASSUME StreamMachine, dev \in DevStates, NEW head, <<1, head>> \in sc.heads,
           NEW r, Sends(r, dev, head), UsedOK(used), SentOK(dev, used)
    PROVE  LET u == [q |-> 1, head |-> head, len |-> r.len]
           IN  UsedOK(Append(used, u)) /\ SentOK(r.s, Append(used, u))
<1> DEFINE u == [q |-> 1, head |-> head, len |-> r.len]
           m == dev.mem
<1>1. r.s \in DevStates /\ r.len \in Nat /\ r.s.mem = m
  BY DEF Sends
<1>2. 1 \in Queues /\ head \in Nat
  BY LentBy
<1>3. Passes => r.len <= Len(Places(Chain(head), FALSE))
  BY DEF Sends
<1>4. Reported(u) /\ u.q = 1 /\ u.head = head /\ u.len = r.len
  BY <1>1, <1>2, <1>3 DEF Reported, UsedRec
<1>5. m \in [InMemory -> Cell]
  BY DEF DevStates
<1> HIDE DEF u, m
<1>6. UsedOK(Append(used, u))
  BY <1>4, UsedAppend
<1>7. ASSUME Passes  PROVE r.s.out = Pieces(Append(used, u), m)
  <2>1. dev.out = Pieces(used, m)
    BY <1>7 DEF SentOK, m
  <2>2. Pieces(Append(used, u), m) = Pieces(used, m) \o Piece(u, m)
    BY <1>4, <1>5, <1>7, PiecesAppend
  <2>3. Piece(u, m) = PieceOf(head, r.len, m)
    BY <1>4 DEF Piece
  <2>4. r.s.out = dev.out \o PieceOf(head, r.len, m)
    BY <1>7 DEF Sends, m
  <2> QED BY <2>1, <2>2, <2>3, <2>4
<1> QED BY <1>1, <1>6, <1>7 DEF SentOK, u
(* The steps of a device that passes on streams.                           *)
Flows(dv, ps, vs, us, gv, gt) ==
    /\ dv \in DevStates /\ PostedOK(ps) /\ vs \in Seq(Queues) /\ UsedOK(us)
    /\ InOrder(dv, gv, gt) /\ SentOK(dv, us)
LEMMA TailOfVisits ==
    ASSUME visiting \in Seq(Queues), visiting # <<>>
    PROVE  Head(visiting) \in Queues /\ Tail(visiting) \in Seq(Queues)
<1> QED BY HeadTailProperties
LEMMA WaitingIs ==
    ASSUME RegsOK(regs), PostedOK(posted), NEW q \in Queues, NEW head \in Waiting(q)
    PROVE  <<q, head>> \in sc.heads /\ (Fed(q) => dev.rx # <<>>)
<1> DEFINE n == regs.queue[q].last
           ps == posted[q]
<1>1. n \in Nat
  BY DEF RegsOK, QueueState
<1>2. ps \in Seq(Nat) /\ \A i \in DOMAIN ps : <<q, ps[i]>> \in sc.heads
  BY DEF PostedOK
<1>3. DOMAIN ps = 1 .. Len(ps) /\ Len(ps) \in Nat
  BY <1>2, LenProperties
<1>4. n < Len(ps) /\ (Fed(q) => dev.rx # <<>>) /\ head = ps[n + 1]
  BY DEF Waiting
<1> HIDE DEF n, ps
<1>5. n + 1 \in DOMAIN ps
  BY <1>1, <1>3, <1>4
<1> QED BY <1>2, <1>4, <1>5
LEMMA ServeFlows ==
    ASSUME StreamMachine, RegsOK(regs), Flows(dev, posted, visiting, used, given, got), Serve
    PROVE  Flows(dev', posted', visiting', used', given', got')
<1> DEFINE q == Head(visiting)
<1>1. visiting # <<>>
  BY DEF Serve
<1>2. q \in Queues /\ visiting' \in Seq(Queues)
  <2>1. visiting \in Seq(Queues)
    BY DEF Flows
  <2>2. visiting' \in {visiting, Tail(visiting)}
    BY DEF Serve
  <2> QED BY <1>1, <2>1, <2>2, TailOfVisits
<1> DEFINE After(r, head) ==
             /\ dev' = r.s
             /\ got' = got \o (IF r.len = 0 THEN <<>> ELSE Found(q, head, r))
             /\ \/ used' = used /\ Fed(q)
                \/ used' = Append(used, [q |-> q, head |-> head, len |-> r.len])
<1>3. \E head \in Waiting(q) : After(Handled(q, head), head)
  <2>1. PICK head \in Waiting(q) : \E r \in {Handled(q, head)} : After(r, head)
    BY DEF Serve
  <2> HIDE DEF After
  <2> QED BY <2>1
<1>4. PICK head \in Waiting(q) : After(Handled(q, head), head)
  BY <1>3
<1> DEFINE r == Handled(q, head)
<1>5. posted' = posted /\ given' = given
  BY DEF Serve
<1>6. dev \in DevStates /\ PostedOK(posted) /\ UsedOK(used) /\ InOrder(dev, given, got) /\ SentOK(dev, used)
  BY DEF Flows
<1>7. <<q, head>> \in sc.heads /\ (Fed(q) => dev.rx # <<>>)
  BY <1>2, <1>6, WaitingIs
<1>8. q = 0 \/ q = 1
  BY <1>2 DEF Queues, QueueCount
<1>9. CASE q = 0
  <2>1. kind = "net" => dev.rx # <<>>
    BY <1>7, <1>9 DEF Fed
  <2>2. Fills(r, dev, head)
    <3>1. Fills(Handled(0, head), dev, head)
      BY <1>6, <1>7, <1>9, <2>1, HandledFills
    <3> QED BY <1>9, <3>1
  <2>3. /\ dev' = r.s /\ got' = got \o (IF r.len = 0 THEN <<>> ELSE Found(0, head, r))
        /\ \/ used' = used
           \/ used' = Append(used, [q |-> 0, head |-> head, len |-> r.len])
    BY <1>4, <1>9
  <2> HIDE DEF r, q
  <2>4. InOrder(r.s, given, got \o (IF r.len = 0 THEN <<>> ELSE Found(0, head, r)))
    BY <1>6, <2>2, FillInOrder
  <2>5. r.s \in DevStates
    BY <2>2 DEF Fills
  <2> DEFINE u == [q |-> 0, head |-> head, len |-> r.len]
  <2>6. UsedOK(Append(used, u)) /\ SentOK(r.s, used) /\ SentOK(r.s, Append(used, u))
    BY <1>6, <1>7, <1>9, <2>2, FillReported
  <2> HIDE DEF u
  <2>7. used' = used \/ used' = Append(used, u)
    BY <2>3 DEF u
  <2>8. UsedOK(used') /\ SentOK(r.s, used')
    BY <1>6, <2>6, <2>7
  <2> QED BY <1>2, <1>5, <1>6, <2>3, <2>4, <2>5, <2>8 DEF Flows
<1>10. CASE q = 1
  <2>1. Sends(r, dev, head)
    <3>1. Sends(Handled(1, head), dev, head)
      BY <1>6, <1>7, <1>10, HandledSends
    <3> QED BY <1>10, <3>1
  <2>2. /\ dev' = r.s /\ got' = got \o (IF r.len = 0 THEN <<>> ELSE Found(1, head, r))
        /\ used' = Append(used, [q |-> 1, head |-> head, len |-> r.len])
    BY SMTT(30), <1>4, <1>10 DEF Fed
  <2> HIDE DEF r, q
  <2>3. InOrder(r.s, given, got \o (IF r.len = 0 THEN <<>> ELSE Found(1, head, r)))
    BY <1>6, <1>7, <1>10, <2>1, SendInOrder
  <2>4. r.s \in DevStates
    BY <2>1 DEF Sends
  <2> DEFINE u == [q |-> 1, head |-> head, len |-> r.len]
  <2>5. UsedOK(Append(used, u)) /\ SentOK(r.s, Append(used, u))
    BY <1>6, <1>7, <1>10, <2>1, SendReported
  <2> HIDE DEF u
  <2>6. used' = Append(used, u)
    BY <2>2 DEF u
  <2> QED BY <1>2, <1>5, <1>6, <2>2, <2>3, <2>4, <2>5, <2>6 DEF Flows
<1> QED BY <1>8, <1>9, <1>10

LEMMA DoneFlows ==
    ASSUME Flows(dev, posted, visiting, used, given, got), Done
    PROVE  Flows(dev', posted', visiting', used', given', got')
<1>1. /\ dev' = dev /\ posted' = posted /\ used' = used /\ given' = given /\ got' = got
      /\ visiting # <<>> /\ visiting' = Tail(visiting)
  BY DEF Done
<1>2. visiting \in Seq(Queues)
  BY DEF Flows
<1>3. visiting' \in Seq(Queues)
  BY <1>1, <1>2, TailOfVisits
<1> QED BY <1>1, <1>3 DEF Flows
LEMMA PostFlows ==
    ASSUME StreamMachine, Flows(dev, posted, visiting, used, given, got),
           NEW q, NEW head, <<q, head>> \in sc.heads, Post(q, head)
    PROVE  Flows(dev', posted', visiting', used', given', got')
<1>1. /\ dev' = dev /\ visiting' = visiting /\ used' = used /\ given' = given /\ got' = got
      /\ posted' = [posted EXCEPT ![q] = Append(@, head)]
  BY DEF Post
<1>2. q \in Queues /\ head \in Nat
  BY LentBy
<1>3. PostedOK(posted)
  BY DEF Flows
<1> DEFINE ps == posted[q]
           z == Append(ps, head)
<1>4. /\ ps \in Seq(Nat) /\ Len(ps) \in Nat /\ DOMAIN ps = 1 .. Len(ps)
      /\ \A i \in 1 .. Len(ps) : <<q, ps[i]>> \in sc.heads
  <2>1. ps \in Seq(Nat) /\ \A i \in DOMAIN ps : <<q, ps[i]>> \in sc.heads
    BY <1>2, <1>3 DEF PostedOK
  <2> HIDE DEF ps
  <2> QED BY <2>1, LenProperties
<1> HIDE DEF ps
<1>5. /\ z \in Seq(Nat) /\ Len(z) = Len(ps) + 1 /\ z[Len(ps) + 1] = head
      /\ \A i \in 1 .. Len(ps) : z[i] = ps[i]
  BY <1>2, <1>4, AppendProperties
<1>6. DOMAIN z = 1 .. Len(ps) + 1
  BY <1>5, LenProperties
<1> HIDE DEF z
<1>7. ASSUME NEW i \in DOMAIN z  PROVE <<q, z[i]>> \in sc.heads
  <2>1. i \in 1 .. Len(ps) \/ i = Len(ps) + 1
    BY <1>4, <1>6
  <2> QED BY <1>4, <1>5, <2>1
<1>8. posted' = [posted EXCEPT ![q] = z]
  BY <1>1 DEF ps, z
<1>9. PostedOK(posted')
  <2>1. posted \in [Queues -> Seq(Nat)]
    BY <1>3 DEF PostedOK
  <2>2. posted' \in [Queues -> Seq(Nat)]
    BY <1>5, <1>8, <2>1
  <2>3. ASSUME NEW p \in Queues, NEW i \in DOMAIN posted'[p]  PROVE <<p, posted'[p][i]>> \in sc.heads
    <3>1. CASE p = q
      BY <1>2, <1>7, <1>8, <2>1, <3>1
    <3>2. CASE p # q
      <4>1. posted'[p] = posted[p]
        BY <1>8, <2>1, <3>2
      <4> QED BY <1>3, <2>3, <4>1 DEF PostedOK
    <3> QED BY <3>1, <3>2
  <2> QED BY <2>2, <2>3 DEF PostedOK
<1> QED BY <1>1, <1>9 DEF Flows
LEMMA EventsLength ==
    ASSUME NEW a \in Seq(Nat)
    PROVE  EventsOf(a) \in Seq(Cell) /\ Len(EventsOf(a)) = Event * Len(a)
<1> DEFINE x == [i \in DOMAIN a |-> EventCells(a[i])]
           n == Len(a)
<1>1. x \in Seq(Seq(Cell)) /\ Len(x) = n /\ \A i \in 1 .. n : x[i] = EventCells(a[i])
  BY EachEvent
<1>2. n \in Nat /\ \A i \in 1 .. n : a[i] \in Nat
  BY LenProperties, ElementOfSeq
<1>3. EventsOf(a) = FlattenSeq(x)
  BY DEF EventsOf
<1> HIDE DEF x, n
<1>4. PICK f \in [0 .. n -> Seq(Cell)] : /\ f[0] = <<>> /\ FlattenSeq(x) = f[n]
                                         /\ \A i \in 1 .. n : f[i] = f[i - 1] \o x[i]
  <2>1. x \in Seq(Seq(Cell)) /\ Len(x) = n
    BY <1>1
  <2>2. \E f \in [0 .. Len(x) -> Seq(Cell)] : /\ f[0] = <<>> /\ FlattenSeq(x) = f[Len(x)]
                                              /\ \A i \in 1 .. Len(x) : f[i] = f[i - 1] \o x[i]
    BY <2>1, FlattenRun
  <2> QED BY <2>1, <2>2
<1> DEFINE J == [i \in 0 .. n |-> {t \in Seq(Cell) : Len(t) = Event * i}]
<1>5. f[0] \in J[0]
  <2>1. 0 \in 0 .. n /\ Len(<<>>) = 0 /\ Event * 0 = 0 /\ <<>> \in Seq(Cell)
    BY <1>2, RequestsAssumption
  <2> QED BY <1>4, <2>1
<1>6. ASSUME NEW i \in 1 .. n, f[i - 1] \in J[i - 1]  PROVE f[i] \in J[i]
  <2> DEFINE y == f[i - 1]
             e == EventCells(a[i])
  <2>1. i \in 0 .. n /\ i - 1 \in 0 .. n
    BY <1>2
  <2>2. y \in Seq(Cell) /\ Len(y) = Event * (i - 1)
    BY <1>6, <2>1
  <2>3. e \in Seq(Cell) /\ Len(e) = Event
    BY <1>2, EventCellsAre
  <2>4. f[i] = y \o e
    BY <1>1, <1>4
  <2> HIDE DEF y, e, J
  <2>5. y \o e \in Seq(Cell) /\ Len(y \o e) = Event * (i - 1) + Event
    BY <2>2, <2>3, ConcatProperties
  <2>6. Event * (i - 1) + Event = Event * i
    <3>1. Event \in Nat /\ i \in Int
      BY <1>2, RequestsAssumption
    <3> QED BY <3>1
  <2> QED BY <2>1, <2>4, <2>5, <2>6 DEF J
<1>7. f[n] \in J[n]
  <2> HIDE DEF J
  <2> QED BY <1>2, <1>5, <1>6, CarriedAlong
<1>8. n \in 0 .. n
  BY <1>2
<1> QED BY <1>3, <1>4, <1>7, <1>8 DEF n

(* What the device is made to forget is forgotten of what was given.       *)
LEMMA Shortened ==
    ASSUME NEW S, NEW x \in Seq(S), NEW y \in Seq(S)
    PROVE  First(Len(x \o y) - Len(y), x \o y) = x
<1> DEFINE z == x \o y
           n == Len(x)
           m == Len(y)
           t == SubSeq(z, 1, n)
<1>1. z \in Seq(S) /\ Len(z) = n + m /\ \A k \in 1 .. n : z[k] = x[k]
  BY Concatenated
<1>2. n \in Nat /\ m \in Nat
  BY LenProperties
<1>3. x \in Seq(S) /\ Len(x) = n
  OBVIOUS
<1> HIDE DEF z, n, m
<1>4. n \in 0 .. Len(z) /\ Len(z) - m = n
  BY <1>1, <1>2
<1>5. t \in Seq(S) /\ Len(t) = n /\ \A k \in 1 .. n : t[k] = z[k]
  BY <1>1, <1>4, Prefix
<1> HIDE DEF t
<1>6. t = x
  <2>1. \A k \in 1 .. Len(t) : t[k] = x[k]
    BY <1>1, <1>5
  <2> QED BY <1>3, <1>5, <2>1, SeqEqual
<1>7. First(Len(z) - m, z) = t
  BY <1>4 DEF First, t
<1> QED BY <1>6, <1>7 DEF z, m
LEMMA EventsForgotten ==
    ASSUME NEW gv \in Seq(Nat), NEW gt \in Seq(Cell), NEW rx \in Seq(Nat),
           gt \o EventsOf(rx) = EventsOf(gv)
    PROVE  First(Len(gv) - Len(rx), gv) \in Seq(Nat) /\ gt = EventsOf(First(Len(gv) - Len(rx), gv))
<1> DEFINE n == Len(gv)
           k == Len(rx)
           l == Len(gt)
           ex == EventsOf(rx)
           ev == EventsOf(gv)
<1>1. n \in Nat /\ k \in Nat /\ l \in Nat
  BY LenProperties
<1>2. ex \in Seq(Cell) /\ Len(ex) = Event * k /\ ev \in Seq(Cell) /\ Len(ev) = Event * n
  BY EventsLength
<1>3. gt \in Seq(Cell) /\ gt \o ex = ev
  OBVIOUS
<1>4. gv \in Seq(Nat) /\ Len(gv) = n
  OBVIOUS
<1> HIDE DEF n, k, ex, ev
<1>5. l + Len(ex) = Len(ev)
  BY <1>2, <1>3, Concatenated
<1>6. Event \in Nat /\ Event >= 1
  BY RequestsAssumption
<1> HIDE DEF l
<1>7. k <= n
  <2>1. l + Event * k = Event * n
    BY <1>2, <1>5
  <2>2. CASE n < k
    <3>1. Event * (k - n) = Event * k - Event * n
      BY <1>1, <1>6
    <3> DEFINE d == k - n
               e == Event
    <3>2. d \in Nat /\ d >= 1 /\ e \in Nat /\ e >= 1
      BY <1>1, <1>6, <2>2
    <3>4. Event * (k - n) >= 1
      <4> HIDE DEF d, e
      <4>1. \A u, v \in Nat : u * v \in Nat
        OBVIOUS
      <4>2. e - 1 \in Nat /\ d - 1 \in Nat
        BY <3>2
      <4>3. (e - 1) * (d - 1) >= 0
        BY <4>1, <4>2
      <4>4. (e - 1) * (d - 1) = e * d - e - d + 1
        BY <3>2
      <4>5. e * d \in Int
        BY <3>2
      <4>6. e * d >= 1
        <5> DEFINE p == e * d
                   r == (e - 1) * (d - 1)
        <5>1. r >= 0 /\ r = p - e - d + 1 /\ p \in Int
          BY <4>3, <4>4, <4>5
        <5> HIDE DEF p, r
        <5>2. p >= 1
          BY <3>2, <5>1
        <5> QED BY <5>2 DEF p
      <4> QED BY <4>6 DEF d, e
    <3>3. Event * k \in Int /\ Event * n \in Int
      BY <1>1, <1>6
    <3> QED BY <1>1, <2>1, <3>1, <3>3, <3>4
  <2> QED BY <1>1, <2>2
<1> DEFINE m == n - k
           a == SubSeq(gv, 1, m)
           b == SubSeq(gv, m + 1, n)
<1>8. m \in 0 .. Len(gv)
  BY <1>1, <1>4, <1>7
<1>9. a \in Seq(Nat) /\ Len(a) = m /\ \A j \in 1 .. m : a[j] = gv[j]
  <2> HIDE DEF m
  <2> QED BY <1>4, <1>8, Prefix
<1>10. b \in Seq(Nat) /\ Len(b) = k
  <2>1. b \in Seq(Nat) /\ Len(b) = n - m
    <3> HIDE DEF m
    <3> QED BY <1>4, <1>8, Rest
  <2> QED BY <1>1, <2>1
<1>11. a \o b = gv
  <2>1. 1 \in 1 .. Len(gv) + 1 /\ m \in 1 - 1 .. Len(gv) /\ n \in m .. Len(gv)
    BY <1>1, <1>4, <1>8
  <2> HIDE DEF m
  <2>2. a \o SubSeq(gv, m + 1, n) = SubSeq(gv, 1, n)
    BY <1>4, <2>1, ConcatAdjacentSubSeq
  <2>3. SubSeq(gv, 1, n) = gv
    BY <1>4, SubSeqFull
  <2> QED BY <2>2, <2>3
<1>12. First(n - k, gv) = a
  BY DEF First
<1> HIDE DEF a, b, m
<1> DEFINE ea == EventsOf(a)
           eb == EventsOf(b)
<1>13. ev = ea \o eb
  BY <1>9, <1>10, <1>11, EventsConcat DEF ev
<1>14. ea \in Seq(Cell) /\ eb \in Seq(Cell) /\ Len(eb) = Event * k
  BY <1>9, <1>10, EventsLength
<1> HIDE DEF ea, eb
<1>15. First(Len(ev) - Len(eb), ev) = ea
  BY <1>13, <1>14, Shortened
<1>16. First(Len(ev) - Len(ex), ev) = gt
  BY <1>2, <1>3, Shortened
<1>17. gt = ea
  BY <1>2, <1>14, <1>15, <1>16
<1> QED BY <1>9, <1>12, <1>17 DEF n, k, ea
LEMMA VisitsAre ==
    ASSUME kind \in Streams, NEW r, NEW off, NEW v
    PROVE  Write(kind, r, off, v).visits \in Seq(Queues)
<1> DEFINE w == Wrote(kind, r, off, v)
           x == Write(kind, r, off, v)
           ok(y) == y.visits \in Seq(Queues)
<1>1. ok(w) /\ DOMAIN w = {"regs", "reset", "visits"}
  BY EmptySeq DEF Wrote
<1>2. 0 \in Queues /\ (kind # "rng" => 1 \in Queues)
  BY DEF Queues, QueueCount, Streams
<1> DEFINE Q == Queues
<1> HIDE DEF w, Q
<1>3. \A qs : Visits(w, qs).visits = qs
  BY <1>1 DEF Visits
<1>4. \A q \in Q : <<q>> \in Seq(Q)
  OBVIOUS
<1>5. ASSUME NEW qs, qs \subseteq Queues  PROVE ok(Notifies(w, off, v, qs))
  <2> DEFINE q == Named(off, v)
  <2>1. Notifies(w, off, v, qs) = w \/ (q \in qs /\ Notifies(w, off, v, qs) = Visits(w, <<q>>))
    BY DEF Notifies
  <2> HIDE DEF q
  <2>2. q \in qs => <<q>> \in Seq(Queues)
    BY <1>4, <1>5 DEF Q
  <2> QED BY <1>1, <1>3, <2>1, <2>2
<1>6. ok(Visits(w, <<0>>)) /\ (kind # "rng" => ok(Visits(w, <<0, 1>>)))
  <2>1. <<0>> \in Seq(Queues)
    BY <1>2, <1>4 DEF Q
  <2>2. ASSUME kind # "rng"  PROVE <<0, 1>> \in Seq(Queues)
    <3>1. 0 \in Q /\ 1 \in Q
      BY <1>2, <2>2 DEF Q
    <3>2. <<0, 1>> \in Seq(Q)
      BY <3>1
    <3> QED BY <3>2 DEF Q
  <2> QED BY <1>3, <2>1, <2>2
<1>7. ok(Notifies(w, off, v, {0})) /\ (kind # "rng" => ok(Notifies(w, off, v, {0, 1})))
  BY <1>2, <1>5
<1>8. CASE kind = "console"
  <2>1. x = Notifies(w, off, v, {0, 1})
    BY <1>8 DEF Write, consoleWrite, w
  <2> QED BY <1>7, <1>8, <2>1
<1>9. CASE kind = "net"
  <2>1. x \in {Notifies(w, off, v, {0, 1}), Visits(w, <<0>>)}
    BY <1>9 DEF Write, netWrite, w
  <2> QED BY <1>6, <1>7, <1>9, <2>1
<1>10. CASE kind = "rng"
  <2>1. x \in {Notifies(w, off, v, {0}), Visits(w, <<0>>)}
    BY <1>10 DEF Write, rngWrite, w
  <2> QED BY <1>6, <1>7, <2>1
<1>11. CASE kind = "input"
  <2> DEFINE y == [w EXCEPT !.regs.config[off - \hff] = v[1], !.regs.gen = (@ + 1) % 256]
  <2>1. x \in {Notifies(w, off, v, {0, 1}), Visits(w, <<0>>), Visits(w, <<0, 1>>), y}
    BY <1>11 DEF Write, inputWrite, w
  <2>2. y.visits = w.visits
    BY <1>1
  <2> HIDE DEF y
  <2> QED BY <1>1, <1>6, <1>7, <1>11, <2>1, <2>2
<1> QED BY <1>8, <1>9, <1>10, <1>11 DEF Streams

(* A reset of the network card drops the frames that wait, and of the input *)
(* device its events.                                                       *)
LEMMA ClearedIs ==
    ASSUME NEW s \in DevStates, kind \in Streams
    PROVE  /\ Cleared(s) \in DevStates /\ Cleared(s).mem = s.mem /\ Cleared(s).rnd = s.rnd
           /\ kind \in {"net", "input"} => Cleared(s).rx = <<>>
           /\ kind \notin {"net", "input"} => Cleared(s) = s
           /\ Passes => Cleared(s).out = s.out
<1> DEFINE A == [InMemory -> Cell]
           X == Seq(Datum(kind))
           O == Seq(Message)
           D == {sc.disk}
           E == {<<>>}
           F == {[w |-> 1024, h |-> 768, id |-> 0]}
           G == {[res |-> 0, at |-> 0]}
           Y == [mem : A, disk : D, rx : X, out : O, res : E, scanout : F, cursor : G,
                 rnd : Nat, failed : BOOLEAN, fault : BOOLEAN]
<1>1. s \in Y /\ DevStates = Y
  BY DEF DevStates
<1>2. <<>> \in X /\ <<>> \in O
  BY EmptySeq
<1>3. kind \notin {"net", "input"} => Cleared(s) = s
  BY DEF Cleared, Streams
<1>4. kind = "net" => Cleared(s) = [s EXCEPT !.rx = <<>>]
  BY DEF Cleared, netReset
<1>5. kind = "input" => Cleared(s) = [s EXCEPT !.rx = <<>>, !.out = <<>>]
  BY DEF Cleared, inputReset
<1> HIDE DEF A, X, O, D, E, F, G
<1>6. LET t == [s EXCEPT !.rx = <<>>]
      IN  t \in Y /\ t.mem = s.mem /\ t.rnd = s.rnd /\ t.rx = <<>> /\ t.out = s.out
  BY <1>1, <1>2
<1>7. LET t == [s EXCEPT !.rx = <<>>, !.out = <<>>]
      IN  t \in Y /\ t.mem = s.mem /\ t.rnd = s.rnd /\ t.rx = <<>>
  BY <1>1, <1>2
<1> QED BY <1>1, <1>3, <1>4, <1>5, <1>6, <1>7 DEF Passes
LEMMA WriteFlows ==
    ASSUME StreamMachine, Flows(dev, posted, visiting, used, given, got),
           NEW off, NEW v, WriteRegister(off, v)
    PROVE  /\ Flows(dev', posted', visiting', used', given', got')
           /\ kind = "console" => given' = given
<1> DEFINE w == Write(kind, regs, off, v)
           gv == First(Len(given) - (Len(dev.rx) - Len(dev'.rx)), given)
<1>1. /\ posted' = posted /\ used' = used /\ got' = got /\ visiting' = w.visits
      /\ dev' = IF w.reset THEN Cleared(dev) ELSE dev
      /\ given' = gv
  BY DEF WriteRegister
<1>2. /\ dev \in DevStates /\ PostedOK(posted) /\ UsedOK(used)
      /\ InOrder(dev, given, got) /\ SentOK(dev, used) /\ kind \in Streams
  BY DEF Flows, StreamMachine
<1>3. visiting' \in Seq(Queues)
  BY <1>1, <1>2, VisitsAre
<1>4. given \in Seq(Datum(kind)) /\ got \in Seq(Message)
  BY <1>2 DEF InOrder
<1>5. dev.rx \in Seq(Datum(kind)) /\ Len(dev.rx) \in Nat
  <2>1. dev.rx \in Seq(Datum(kind))
    BY <1>2 DEF DevStates
  <2> QED BY <2>1, LenProperties
<1>6. dev' = dev => given' = given
  <2>1. ASSUME dev' = dev  PROVE given' = given
    <3>1. Len(dev'.rx) = Len(dev.rx)
      BY <2>1
    <3>2. Len(given) \in Nat
      BY <1>4, LenProperties
    <3>3. Len(given) - (Len(dev.rx) - Len(dev'.rx)) = Len(given)
      BY <1>5, <3>1, <3>2
    <3>4. First(Len(given), given) = given
      BY <1>4, SubSeqFull DEF First
    <3> QED BY <1>1, <3>3, <3>4
  <2> QED BY <2>1
<1> HIDE DEF w, gv
<1>7. CASE dev' = dev
  BY <1>1, <1>2, <1>3, <1>6, <1>7 DEF Flows
<1>8. CASE dev' # dev
  <2> DEFINE s == Cleared(dev)
  <2>1. dev' = s
    BY <1>1, <1>8
  <2>2. /\ s \in DevStates /\ s.mem = dev.mem /\ s.rnd = dev.rnd
        /\ kind \in {"net", "input"} => s.rx = <<>>
        /\ kind \notin {"net", "input"} => s = dev
        /\ Passes => s.out = dev.out
    BY <1>2, ClearedIs
  <2> HIDE DEF s
  <2>3. kind \in {"net", "input"} /\ s.rx = <<>>
    BY <1>8, <2>1, <2>2
  <2>4. SentOK(s, used)
    BY <1>2, <2>2 DEF SentOK
  <2>5. given' = First(Len(given) - Len(dev.rx), given)
    <3>1. Len(dev'.rx) = 0
      BY <2>1, <2>3
    <3>2. Len(dev.rx) - Len(dev'.rx) = Len(dev.rx)
      BY <1>5, <3>1
    <3> QED BY <1>1, <3>2 DEF gv
  <2>6. CASE kind = "net"
    <3>1. Passes /\ kind # "input" /\ kind # "rng" /\ Datum(kind) = Seq(Characters) /\ Message = Seq(Cell)
      BY <2>6 DEF Passes, Datum, Message
    <3>2. got \o dev.rx = given
      BY <1>2, <3>1 DEF InOrder
    <3>3. dev.rx \in Seq(Message)
      BY <1>2, <3>1, Waits
    <3>4. given' = got
      BY <1>4, <2>5, <3>2, <3>3, Shortened
    <3>5. got \o s.rx = got
      BY <1>4, <2>3, ConcatEmptySeq
    <3>6. given' \in Seq(Datum(kind))
      <4> DEFINE n == Len(given)
                 k == Len(dev.rx)
                 l == Len(got)
      <4>1. n \in Nat /\ l \in Nat /\ k \in Nat
        BY <1>4, <1>5, LenProperties
      <4>2. n = l + k
        BY <1>4, <3>2, <3>3, Concatenated
      <4> HIDE DEF n, k, l
      <4>3. n - k \in 0 .. n
        BY <4>1, <4>2
      <4>4. n - k \in 0 .. Len(given)
        BY <4>3 DEF n
      <4>5. SubSeq(given, 1, n - k) \in Seq(Datum(kind))
        BY <1>4, <4>4, Prefix
      <4> QED BY <2>5, <4>5 DEF First, n, k
    <3>7. InOrder(s, given', got)
      BY <1>4, <3>1, <3>4, <3>5, <3>6 DEF InOrder
    <3> QED BY <1>1, <1>2, <1>3, <2>1, <2>2, <2>4, <2>6, <3>7 DEF Flows
  <2>7. CASE kind = "input"
    <3>1. ~Passes /\ kind # "rng" /\ Datum(kind) = Nat /\ Message = Cell
      BY <2>7 DEF Passes, Datum, Message
    <3>2. got \o EventsOf(dev.rx) = EventsOf(given)
      BY <1>2, <2>7 DEF InOrder
    <3>3. given' \in Seq(Nat) /\ got = EventsOf(given')
      <4>1. given \in Seq(Nat) /\ got \in Seq(Cell) /\ dev.rx \in Seq(Nat)
        BY <1>4, <1>5, <3>1
      <4> QED BY <2>5, <3>2, <4>1, EventsForgotten
    <3>4. EventsOf(s.rx) = <<>>
      <4>1. <<>> \in Seq(Nat) /\ Len(<<>>) = 0
        BY EmptySeq
      <4>2. EventsOf(<<>>) \in Seq(Cell) /\ Len(EventsOf(<<>>)) = Event * 0
        BY <4>1, EventsLength
      <4>3. Event * 0 = 0
        BY RequestsAssumption
      <4> DEFINE e == EventsOf(<<>>)
      <4> HIDE DEF e
      <4>4. e \in Seq(Cell) /\ Len(e) = 0
        BY <4>2, <4>3 DEF e
      <4>5. e = <<>>
        BY <4>4, EmptySeq
      <4> QED BY <2>3, <4>5 DEF e
    <3>5. got \o EventsOf(s.rx) = got
      BY <1>4, <3>4, ConcatEmptySeq
    <3>6. InOrder(s, given', got)
      BY <1>4, <3>1, <3>3, <3>5 DEF InOrder
    <3> QED BY <1>1, <1>2, <1>3, <2>1, <2>2, <2>4, <2>7, <3>6 DEF Flows
  <2> QED BY <2>3, <2>6, <2>7
<1>9. kind = "console" => dev' = dev
  BY <1>1, <1>2, ClearedIs
<1> QED BY <1>6, <1>7, <1>8, <1>9
LEMMA InjectFlows ==
    ASSUME StreamMachine, Flows(dev, posted, visiting, used, given, got),
           NEW data \in sc.feeds, Inject(data)
    PROVE  Flows(dev', posted', visiting', used', given', got')
<1> DEFINE rx == dev.rx \o data
           s == [dev EXCEPT !.rx = rx]
           gv == given \o data
           D == Datum(kind)
<1>1. /\ posted' = posted /\ used' = used /\ got' = got /\ visiting' = <<0>>
      /\ dev' = [dev EXCEPT !.rx = @ \o data] /\ given' = gv
  BY DEF Inject
<1>2. /\ dev \in DevStates /\ PostedOK(posted) /\ UsedOK(used)
      /\ InOrder(dev, given, got) /\ SentOK(dev, used)
  BY DEF Flows
<1>3. data \in Seq(D)
  BY DEF StreamMachine, DriverOK, kind
<1>4. given \in Seq(D) /\ got \in Seq(Message) /\ dev.rx \in Seq(D)
  BY <1>2 DEF InOrder, DevStates
<1>5. /\ rx \in Seq(D) /\ gv \in Seq(D)
  BY <1>3, <1>4, ConcatProperties
<1>6. visiting' \in Seq(Queues)
  <2>1. 0 \in Queues
    BY DEF Queues, QueueCount
  <2> DEFINE Q == Queues
  <2> HIDE DEF Q
  <2>2. 0 \in Q /\ visiting' = <<0>>
    BY <1>1, <2>1 DEF Q
  <2>3. visiting' \in Seq(Q)
    BY <2>2
  <2> QED BY <2>3 DEF Q
<1>7. dev' = s
  BY <1>1, <1>2 DEF DevStates
<1> HIDE DEF rx
<1>8. s \in DevStates /\ s.rx = rx /\ s.mem = dev.mem /\ s.rnd = dev.rnd /\ s.out = dev.out
  <2> DEFINE A == [InMemory -> Cell]
             X == Seq(D)
             O == Seq(Message)
             C == {sc.disk}
             E == {<<>>}
             F == {[w |-> 1024, h |-> 768, id |-> 0]}
             G == {[res |-> 0, at |-> 0]}
             Y == [mem : A, disk : C, rx : X, out : O, res : E, scanout : F, cursor : G,
                   rnd : Nat, failed : BOOLEAN, fault : BOOLEAN]
  <2>1. dev \in Y /\ DevStates = Y /\ rx \in X
    BY <1>2, <1>5 DEF DevStates
  <2> HIDE DEF A, X, O, C, E, F, G
  <2>2. s \in Y /\ s.rx = rx /\ s.mem = dev.mem /\ s.rnd = dev.rnd /\ s.out = dev.out
    BY <2>1
  <2> QED BY <2>1, <2>2
<1> HIDE DEF s, gv
<1>9. SentOK(s, used)
  BY <1>2, <1>8 DEF SentOK
<1>10. CASE Passes
  <2>1. /\ dev.rx \in Seq(Message) /\ data \in Seq(Message) /\ got \o dev.rx = given
        /\ kind # "input" /\ kind # "rng"
    <3>1. dev.rx \in Seq(Message) /\ got \o dev.rx = given /\ kind # "input" /\ kind # "rng"
      BY <1>2, <1>10, Waits DEF InOrder, Passes
    <3>2. CASE kind = "console"
      <4>1. D = Characters /\ Message = Cell
        BY <3>2 DEF Datum, Message
      <4> QED BY <1>3, <3>1, <4>1, CharacterSeqs
    <3>3. CASE kind = "net"
      <4>1. D = Seq(Characters) /\ Message = Seq(Cell)
        BY <3>3 DEF Datum, Message
      <4> QED BY <1>3, <3>1, <4>1, FrameSeqs
    <3> QED BY <1>10, <3>2, <3>3 DEF Passes
  <2>2. got \o rx = gv
    <3> DEFINE b == dev.rx
    <3>1. got \in Seq(Message) /\ b \in Seq(Message) /\ data \in Seq(Message)
      BY <1>4, <2>1
    <3>2. got \o b = given /\ rx = b \o data /\ gv = given \o data
      BY <2>1 DEF rx, gv
    <3> HIDE DEF b
    <3>3. (got \o b) \o data = got \o (b \o data)
      BY <3>1, GoesOn
    <3> QED BY <3>2, <3>3
  <2>3. InOrder(s, gv, got)
    BY <1>4, <1>5, <1>8, <2>1, <2>2 DEF InOrder
  <2> QED BY <1>1, <1>2, <1>6, <1>7, <1>8, <1>9, <2>3 DEF Flows
<1>11. CASE kind = "input"
  <2>1. D = Nat /\ Message = Cell /\ ~Passes /\ kind # "rng"
    BY <1>11 DEF Datum, Message, Passes
  <2> DEFINE a == EventsOf(dev.rx)
             b == EventsOf(data)
             c == EventsOf(given)
  <2>2. a \in Seq(Cell) /\ b \in Seq(Cell) /\ c \in Seq(Cell) /\ got \in Seq(Cell)
    BY <1>3, <1>4, <2>1, EventsLength
  <2>3. got \o a = c
    BY <1>2, <1>11 DEF InOrder
  <2>4. EventsOf(rx) = a \o b /\ EventsOf(gv) = c \o b
    BY <1>3, <1>4, <2>1, EventsConcat DEF rx, gv
  <2> HIDE DEF a, b, c
  <2>5. (got \o a) \o b = got \o (a \o b)
    BY <2>2, GoesOn
  <2>6. got \o EventsOf(s.rx) = EventsOf(gv)
    BY <1>8, <2>3, <2>4, <2>5
  <2>7. InOrder(s, gv, got)
    BY <1>4, <1>5, <2>1, <2>6 DEF InOrder
  <2> QED BY <1>1, <1>2, <1>6, <1>7, <1>8, <1>9, <2>7 DEF Flows
<1>12. CASE kind = "rng"
  <2>1. ~Passes /\ kind # "input"
    BY <1>12 DEF Passes
  <2>2. InOrder(s, gv, got)
    BY <1>2, <1>4, <1>5, <1>8, <2>1 DEF InOrder
  <2> QED BY <1>1, <1>2, <1>6, <1>7, <1>8, <1>9, <2>2 DEF Flows
<1> QED BY <1>10, <1>11, <1>12 DEF StreamMachine, Streams, Passes
LEMMA InjectPort ==
    ASSUME kind = "console" => StreamMachine, PortOK(uart, typed, given, handling),
           NEW data \in sc.feeds, Inject(data)
    PROVE  PortOK(uart', typed', given', handling')
<1>1. /\ given' = given \o data /\ typed' = typed /\ handling' = handling
      /\ uart' = IF kind = "console" THEN uartInject(uart, data) ELSE uart
  BY DEF Inject
<1>2. /\ uart \in UartStates /\ typed \in Seq(Characters) /\ Announced(uart, handling)
      /\ (kind = "console" => typed \o uart.rx = given)
  BY DEF PortOK
<1>3. CASE kind # "console"
  BY <1>1, <1>2, <1>3 DEF PortOK
<1>4. CASE kind = "console"
  <2> DEFINE z == uart.rx
             y == uart.rx \o data
             u == [uart EXCEPT !.rx = y]
             w == uartUpdateIRQ(u)
  <2>1. data \in Seq(Characters)
    BY <1>4 DEF StreamMachine, DriverOK, kind, Datum
  <2>2. z \in Seq(Characters)
    BY <1>2 DEF UartStates
  <2>3. y \in Seq(Characters)
    BY <2>1, <2>2, ConcatProperties
  <2>4. (typed \o z) \o data = typed \o (z \o data)
    <3> HIDE DEF z
    <3> QED BY <1>2, <2>1, <2>2, GoesOn
  <2>5. uartInject(uart, data) = w
    <3>1. [uart EXCEPT !.rx = @ \o data] = u
      BY <1>2 DEF UartStates
    <3> HIDE DEF u
    <3> QED BY <3>1 DEF uartInject
  <2>6. typed \o y = given'
    BY <1>1, <1>2, <1>4, <2>4
  <2> HIDE DEF y
  <2>7. u \in UartStates /\ u.rx = y
    BY <1>2, <2>3, Received
  <2> HIDE DEF u
  <2>8. w \in UartStates /\ w.rx = u.rx /\ \A h : Announced(w, h)
    BY <2>7, UpdateIs
  <2> HIDE DEF w
  <2>9. uart' = w
    BY <1>1, <1>4, <2>5
  <2> QED BY <1>1, <1>2, <2>6, <2>7, <2>8, <2>9 DEF PortOK
<1> QED BY <1>3, <1>4
-----------------------------------------------------------------------------
(* The invariant.                                                          *)
StreamInv == /\ RegsInv
             /\ kind \in Streams => StreamMachine /\ Flows(dev, posted, visiting, used, given, got)
             /\ PortOK(uart, typed, given, handling)
LEMMA NothingYet ==
    /\ EventsOf(<<>>) = <<>>
    /\ \A mem : Pieces(<<>>, mem) = <<>>
<1> DEFINE f == [i \in {0} |-> <<>>]
           none == [i \in {} |-> <<>>]
<1>1. none = <<>> /\ DOMAIN <<>> = {}
  <2>1. 1 .. 0 = {}
    OBVIOUS
  <2>2. none \in [1 .. 0 -> Message]
    BY <2>1
  <2>3. none \in Seq(Message)
    BY <2>2, SeqDef
  <2>4. DOMAIN none = 1 .. Len(none) /\ DOMAIN none = {} /\ Len(none) \in Nat
    BY <2>3, LenProperties
  <2> HIDE DEF none
  <2>5. Len(none) = 0
    BY <2>4
  <2>6. none = <<>>
    BY <2>3, <2>5, EmptySeq
  <2> QED BY <2>4, <2>6
<1>2. FlattenSeq(<<>>) = <<>>
  <2>1. <<>> \in Seq(Seq(Cell)) /\ Len(<<>>) = 0
    BY EmptySeq
  <2>2. f[0] = <<>> /\ \A i \in 1 .. Len(<<>>) : f[i] = f[i - 1] \o <<>>[i]
    BY <2>1
  <2>3. FlattenSeq(<<>>) = f[Len(<<>>)]
    <3> HIDE DEF f
    <3> QED BY <2>1, <2>2, FlattenUnrolled
  <2> QED BY <2>1, <2>2, <2>3
<1>3. EventsOf(<<>>) = <<>>
  <2>1. [i \in DOMAIN <<>> |-> EventCells(<<>>[i])] = none
    BY <1>1
  <2> HIDE DEF none
  <2> QED BY <1>1, <1>2, <2>1 DEF EventsOf
<1>4. ASSUME NEW mem  PROVE Pieces(<<>>, mem) = <<>>
  <2>1. [i \in DOMAIN <<>> |-> Piece(<<>>[i], mem)] = none
    BY <1>1
  <2> HIDE DEF none
  <2> QED BY <1>1, <1>2, <2>1 DEF Pieces
<1> QED BY <1>3, <1>4

LEMMA StreamInit == Init => StreamInv
<1> SUFFICES ASSUME Init  PROVE StreamInv
  OBVIOUS
<1>1. RegsInv
  BY RegsInit
<1>2. PICK i \in DOMAIN Scenarios : sc = Scenarios[i]
  BY DEF Init
<1>3. /\ dev = NewDevice(sc) /\ posted = [q \in Queues |-> <<>>] /\ visiting = <<>> /\ used = <<>>
      /\ uart = NewUart /\ handling = "none" /\ given = <<>> /\ got = <<>> /\ typed = <<>>
  BY DEF Init
<1>4. \A S : <<>> \in Seq(S)
  BY EmptySeq
<1>5. <<>> \o <<>> = <<>>
  BY <1>4, ConcatEmptySeq
<1>6. PortOK(uart, typed, given, handling)
  <2>1. NewUart \in UartStates /\ NewUart.rx = <<>> /\ ~DataReady(NewUart)
    <3>1. <<>> \in Seq(Characters) /\ <<>> \in Seq(Nat)
      BY <1>4
    <3> QED BY <3>1 DEF NewUart, UartStates, DataReady
  <2> QED BY <1>3, <1>4, <1>5, <2>1 DEF PortOK, Announced
<1>7. ASSUME kind \in Streams
      PROVE  StreamMachine /\ Flows(dev, posted, visiting, used, given, got)
  <2>1. DriverOK(sc)
    <3>1. kind = Scenarios[i].kind
      BY <1>2 DEF kind
    <3>2. DriverOK(Scenarios[i])
      BY <1>7, <3>1, DriverAssumption
    <3> QED BY <1>2, <3>2
  <2>2. TablesOK
    <3>1. /\ sc.num \in 0 .. 255 /\ 0 \in DOMAIN sc.tables
          /\ \A a \in DOMAIN sc.tables : \A x \in DOMAIN sc.tables[a] : sc.tables[a][x] \in Descriptors
      BY <1>2, DevicesAssumption
    <3> QED BY <3>1 DEF TablesOK
  <2>3. dev \in DevStates /\ dev.rx = <<>> /\ dev.out = <<>> /\ dev.rnd = 0
    <3>1. sc.mem \in [InMemory -> Cell]
      BY <2>1 DEF DriverOK, InMemory
    <3> DEFINE A == [InMemory -> Cell]
               X == Seq(Datum(kind))
               O == Seq(Message)
               m == sc.mem
    <3>2. m \in A /\ <<>> \in X /\ <<>> \in O
      BY <1>4, <3>1
    <3>3. DevStates = [mem : A, disk : {sc.disk}, rx : X, out : O, res : {<<>>},
                       scanout : {[w |-> 1024, h |-> 768, id |-> 0]},
                       cursor : {[res |-> 0, at |-> 0]}, rnd : Nat, failed : BOOLEAN, fault : BOOLEAN]
      BY DEF DevStates
    <3>4. dev = [mem |-> m, disk |-> sc.disk, rx |-> <<>>, out |-> <<>>, res |-> <<>>,
                 scanout |-> [w |-> 1024, h |-> 768, id |-> 0], cursor |-> [res |-> 0, at |-> 0],
                 rnd |-> 0, failed |-> FALSE, fault |-> FALSE]
      BY <1>3 DEF NewDevice
    <3> HIDE DEF A, X, O, m
    <3> QED BY <3>2, <3>3, <3>4
  <2>4. PostedOK(posted)
    <3>1. posted = [q \in Queues |-> <<>>]
      BY <1>3
    <3>2. <<>> \in Seq(Nat) /\ DOMAIN <<>> = {}
      BY <1>4
    <3> QED BY <3>1, <3>2 DEF PostedOK
  <2>5. UsedOK(used) /\ visiting \in Seq(Queues)
    <3>1. <<>> \in Seq(UsedRec) /\ <<>> \in Seq(Queues) /\ DOMAIN <<>> = {}
      BY <1>4
    <3> QED BY <1>3, <3>1 DEF UsedOK
  <2>6. InOrder(dev, given, got)
    <3>1. given \in Seq(Datum(kind)) /\ got \in Seq(Message)
      BY <1>3, <1>4
    <3>2. got \o dev.rx = given /\ got \o EventsOf(dev.rx) = EventsOf(given)
      BY <1>3, <1>5, <2>3, NothingYet
    <3>3. Increasing(dev.rnd, got)
      <4>1. DOMAIN got = {}
        BY <1>3
      <4> QED BY <4>1 DEF Increasing
    <3> QED BY <3>1, <3>2, <3>3 DEF InOrder
  <2>7. SentOK(dev, used)
    BY <1>3, <2>3, NothingYet DEF SentOK
  <2> QED BY <1>7, <2>1, <2>2, <2>3, <2>4, <2>5, <2>6, <2>7 DEF StreamMachine, Flows
<1> QED BY <1>1, <1>6, <1>7 DEF StreamInv
(* The machine stays, so what is said of it does.                          *)
LEMMA SameMachine ==
    ASSUME sc' = sc, StreamMachine, Flows(dev', posted', visiting', used', given', got')
    PROVE  StreamMachine' /\ Flows(dev, posted, visiting, used, given, got)'
<1>1. kind' = kind /\ Queues' = Queues /\ InMemory' = InMemory /\ TablesOK' = TablesOK
  BY DEF kind, Queues, QueueCount, InMemory, TablesOK
<1>2. StreamMachine'
  BY <1>1 DEF StreamMachine
<1>3. Message' = Message /\ Passes' = Passes /\ UsedRec' = UsedRec
  BY <1>1 DEF Message, Passes, UsedRec
<1>4. /\ dev' \in DevStates /\ PostedOK(posted') /\ visiting' \in Seq(Queues) /\ UsedOK(used')
      /\ InOrder(dev', given', got') /\ SentOK(dev', used')
  BY DEF Flows
<1>5. (dev \in DevStates)'
  <2>1. DevStates' = DevStates
    BY <1>1, <1>3 DEF DevStates
  <2> QED BY <1>4, <2>1
<1>6. PostedOK(posted)'
  BY <1>1, <1>4 DEF PostedOK
<1>7. (visiting \in Seq(Queues))'
  BY <1>1, <1>4
<1>8. \A head : Chain(head)' = Chain(head)
  BY DEF Chain
<1>9. UsedOK(used)'
  <2>1. used' \in Seq(UsedRec) /\ \A i \in DOMAIN used' : Reported(used'[i])
    BY <1>4 DEF UsedOK
  <2>2. \A i \in DOMAIN used' : Reported(used[i])'
    <3> SUFFICES ASSUME NEW i \in DOMAIN used'  PROVE Reported(used[i])'
      OBVIOUS
    <3>1. Reported(used'[i])
      BY <2>1
    <3> QED BY <1>1, <1>3, <3>1 DEF Reported, Chain
  <2> QED BY <1>3, <2>1, <2>2 DEF UsedOK
<1>10. InOrder(dev, given, got)'
  BY <1>1, <1>3, <1>4 DEF InOrder
<1>11. SentOK(dev, used)'
  <2>1. Pieces(used, dev.mem)' = Pieces(used', dev'.mem)
    BY <1>1 DEF Pieces, Piece, PieceOf, Data, Chain
  <2>2. Passes => dev'.out = Pieces(used', dev'.mem)
    BY <1>4 DEF SentOK
  <2> QED BY <1>3, <2>1, <2>2 DEF SentOK
<1> QED BY <1>2, <1>5, <1>6, <1>7, <1>9, <1>10, <1>11 DEF Flows

LEMMA StreamStep == StreamInv /\ [Next]_vars => StreamInv'
<1> SUFFICES ASSUME StreamInv, [Next]_vars  PROVE StreamInv'
  OBVIOUS
<1>1. sc' = sc /\ kind' = kind
  BY DEF Next, vars, Serve, Done, Port, UartRead, UartWrite, Claim, Complete, WriteRegister, Post, Inject, kind
<1>2. RegsInv /\ PortOK(uart, typed, given, handling)
      /\ (kind \in Streams => StreamMachine /\ Flows(dev, posted, visiting, used, given, got))
  BY DEF StreamInv
<1>3. RegsInv'
  BY <1>2, RegsStep
<1>4. RegsOK(regs)
  BY <1>2 DEF RegsInv, Agree
<1>5. /\ kind \in Streams => Flows(dev', posted', visiting', used', given', got')
      /\ PortOK(uart', typed', given', handling')
  <2>1. CASE UNCHANGED <<device, port, given>>
    BY <1>2, <2>1 DEF device, port
  <2>2. CASE Serve
    <3>1. UNCHANGED <<uart, typed, given, handling>>
      BY <2>2 DEF Serve, port
    <3> QED BY <1>2, <1>4, <2>2, <3>1, ServeFlows
  <2>3. CASE Done
    <3>1. UNCHANGED <<uart, typed, given, handling>>
      BY <2>3 DEF Done, port
    <3> QED BY <1>2, <2>3, <3>1, DoneFlows
  <2>4. CASE Port
    <3>1. UNCHANGED <<device, given>>
      BY <2>4 DEF Port, UartRead, UartWrite, Claim, Complete
    <3>2. PortOK(uart', typed', given', handling')
      BY <1>2, <2>4, <3>1, PortStep
    <3> QED BY <1>2, <3>1, <3>2 DEF device
  <2>5. CASE \E w \in sc.writes : WriteRegister(w[1], w[2])
    <3>1. PICK w \in sc.writes : WriteRegister(w[1], w[2])
      BY <2>5
    <3>2. UNCHANGED <<uart, typed, handling>>
      BY <3>1 DEF WriteRegister, port
    <3>3. /\ kind \in Streams => Flows(dev', posted', visiting', used', given', got')
          /\ kind = "console" => given' = given
      BY <1>2, <3>1, WriteFlows DEF Streams
    <3> QED BY <1>2, <3>2, <3>3 DEF PortOK
  <2>6. CASE \E h \in sc.heads : Post(h[1], h[2])
    <3>1. PICK h \in sc.heads : Post(h[1], h[2])
      BY <2>6
    <3>2. UNCHANGED <<uart, typed, given, handling>>
      BY <3>1 DEF Post, port
    <3>3. ASSUME kind \in Streams  PROVE <<h[1], h[2]>> \in sc.heads
      <4>1. h \in (0 .. QueueCount(sc.kind) - 1) \X Nat
        BY <1>2, <3>3 DEF StreamMachine, DriverOK
      <4>2. h = <<h[1], h[2]>>
        BY <4>1
      <4> QED BY <4>2
    <3> QED BY <1>2, <3>1, <3>2, <3>3, PostFlows
  <2>7. CASE \E data \in sc.feeds : Inject(data)
    <3>1. PICK data \in sc.feeds : Inject(data)
      BY <2>7
    <3>2. kind \in Streams => Flows(dev', posted', visiting', used', given', got')
      BY <1>2, <3>1, InjectFlows
    <3>3. kind = "console" => StreamMachine
      BY <1>2 DEF Streams
    <3> QED BY <1>2, <3>1, <3>2, <3>3, InjectPort
  <2> QED
    BY <2>1, <2>2, <2>3, <2>4, <2>5, <2>6, <2>7 DEF Next, vars
<1>6. PortOK(uart, typed, given, handling)'
  BY <1>1, <1>5 DEF PortOK
<1>7. (kind \in Streams => StreamMachine /\ Flows(dev, posted, visiting, used, given, got))'
  <2> SUFFICES ASSUME kind \in Streams
               PROVE  StreamMachine' /\ Flows(dev, posted, visiting, used, given, got)'
    BY <1>1
  <2> QED BY <1>1, <1>2, <1>5, SameMachine
<1> QED BY <1>3, <1>6, <1>7 DEF StreamInv

LEMMA StreamsFromInv == StreamInv => StreamsInOrder
<1> SUFFICES ASSUME StreamInv  PROVE StreamsInOrder
  OBVIOUS
<1>1. PortOK(uart, typed, given, handling)
  BY DEF StreamInv
<1>2. kind \in Streams => InOrder(dev, given, got) /\ SentOK(dev, used)
  BY DEF StreamInv, Flows
<1>3. kind \in {"console", "net"} => got \o dev.rx = given
  BY <1>2 DEF InOrder, Passes, Streams
<1>4. kind = "input" => got \o FlattenSeq([i \in DOMAIN dev.rx |-> EventCells(dev.rx[i])])
                        = FlattenSeq([i \in DOMAIN given |-> EventCells(given[i])])
  <2>1. kind = "input" => got \o EventsOf(dev.rx) = EventsOf(given)
    BY <1>2 DEF InOrder, Streams
  <2> QED BY <2>1, Zenon DEF EventsOf
<1>5. kind = "rng" => \A i, j \in DOMAIN got : i < j => got[i][2] < got[j][2]
  BY <1>2 DEF InOrder, Increasing, Streams
<1>6. Passes => dev.out = Pieces(used, dev.mem)
  BY <1>2 DEF SentOK, Passes, Streams
<1>7. kind = "console" => dev.out = Transmitted(Sent)
  <2>1. ASSUME kind = "console"  PROVE Pieces(used, dev.mem) = Transmitted(Sent)
    <3>1. ASSUME NEW i \in DOMAIN used
          PROVE  Piece(used[i], dev.mem) = IF used[i].q = 1 THEN Sent(used[i]) ELSE <<>>
      BY <2>1 DEF Piece, PieceOf, Sent
    <3>2. [i \in DOMAIN used |-> Piece(used[i], dev.mem)]
          = [i \in DOMAIN used |-> IF used[i].q = 1 THEN Sent(used[i]) ELSE <<>>]
      BY <3>1
    <3> QED BY <3>2, Zenon DEF Pieces, Transmitted
  <2> QED BY <1>6, <2>1 DEF Passes
<1>8. kind = "net" => dev.out = Transmitted(Framed)
  <2>1. ASSUME kind = "net"  PROVE Pieces(used, dev.mem) = Transmitted(Framed)
    <3>1. ASSUME NEW i \in DOMAIN used
          PROVE  Piece(used[i], dev.mem) = IF used[i].q = 1 THEN Framed(used[i]) ELSE <<>>
      BY <2>1 DEF Piece, PieceOf, FrameSent, Sent, Framed, First
    <3>2. [i \in DOMAIN used |-> Piece(used[i], dev.mem)]
          = [i \in DOMAIN used |-> IF used[i].q = 1 THEN Framed(used[i]) ELSE <<>>]
      BY <3>1
    <3> QED BY <3>2, Zenon DEF Pieces, Transmitted
  <2> QED BY <1>6, <2>1 DEF Passes
<1>9. kind = "console" => typed \o uart.rx = given
  BY <1>1 DEF PortOK
<1>10. DataReady(uart) => uart.irq \/ handling # "none"
  BY <1>1 DEF PortOK, Announced
<1> QED BY <1>3, <1>4, <1>5, <1>7, <1>8, <1>9, <1>10 DEF StreamsInOrder

(* Every character, frame or event that the host feeds to a device reaches *)
(* the guest once, whole and in order, what the guest sends goes out so,   *)
(* no byte of entropy is served twice, and what waits in the serial port   *)
(* is announced: fillRx and consumeTx of virtio_console.go and             *)
(* virtio_net.go, fillEvent of virtio_input.go, fillRequest of             *)
(* virtio_rng.go, updateIRQ of uart.go.  It rests on what a driver does to *)
(* its buffers, DriverAssumption.                                          *)
THEOREM StreamsKept == Spec => []StreamsInOrder
<1>1. Init => StreamInv
  BY StreamInit
<1>2. StreamInv /\ [Next]_vars => StreamInv'
  BY StreamStep
<1>3. StreamInv => StreamsInOrder
  BY StreamsFromInv
<1> QED BY <1>1, <1>2, <1>3, PTL DEF Spec
=============================================================================
