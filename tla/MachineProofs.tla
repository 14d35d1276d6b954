--------------------------- MODULE MachineProofs ---------------------------
(***************************************************************************)
(* Proofs about Machine, for every memory, image and number of harts.      *)
(*                                                                         *)
(* Every call of the page ends in installDTB or installDynamicInfo when it *)
(* changes what the guest is told, so the tree and the record in memory    *)
(* are the configuration's unless something else wrote there; what a       *)
(* loader may write, even one that fails half way, is bounded by Overlaid. *)
(* That an initrd stays whole needs its place below the tree and the       *)
(* record, which LoadInitrd checks.                                        *)
(***************************************************************************)
EXTENDS Machine, FiniteSetTheorems, WellFoundedInduction, TLAPS

-----------------------------------------------------------------------------
(* Numbers and recursion.                                                  *)

(* A non-empty set of naturals has a least element.                        *)
LEMMA LeastNatural ==
    ASSUME NEW T \in SUBSET Nat, T # {}
    PROVE  \E m \in T : \A n \in T : m <= n
<1>1. PICK m \in T : \A n \in T : <<n, m>> \notin OpToRel(<, Nat)
  BY NatLessThanWellFounded, WFMin, Zenon
<1>2. ASSUME NEW n \in T, n < m  PROVE <<n, m>> \in OpToRel(<, Nat)
  <2>1. <<n, m>> \in Nat \X Nat /\ <<n, m>>[1] < <<n, m>>[2]
    BY <1>2
  <2> QED BY <2>1, Zenon DEF OpToRel
<1>3. \A n \in T : ~(n < m)
  BY <1>1, <1>2, Zenon
<1> QED BY <1>3

(* What holds at 0 and is carried on by each step holds at the end.        *)
LEMMA Carried ==
    ASSUME NEW n \in Nat, NEW S, NEW f,
           f[0] \in S, \A i \in 1 .. n : f[i - 1] \in S => f[i] \in S
    PROVE  f[n] \in S
<1> SUFFICES ASSUME f[n] \notin S  PROVE FALSE
  OBVIOUS
<1> DEFINE Bad == {i \in 0 .. n : f[i] \notin S}
<1>1. Bad \in SUBSET Nat /\ n \in Bad
  OBVIOUS
<1>2. PICK m \in Bad : \A i \in Bad : m <= i
  <2>1. \E m \in Bad : \A i \in Bad : m <= i
    BY <1>1, LeastNatural, Zenon
  <2> QED BY <2>1
<1>3. m \in 1 .. n
  BY <1>2
<1>4. m - 1 \in 0 .. n /\ m - 1 \notin Bad
  BY <1>2, <1>3
<1> QED BY <1>2, <1>3, <1>4

(* A function of 0 .. n is defined by its value at 0 and a step.           *)
Unrolls(f, n, s, g) ==
    f = [i \in 0 .. n |-> IF i = 0 THEN s ELSE g[<<f[i - 1], i>>]]
LEMMA Recursion ==
    ASSUME NEW n \in Nat, NEW S, NEW s \in S, NEW g \in [S \X (1 .. n) -> S]
    PROVE  \E f \in [0 .. n -> S] : Unrolls(f, n, s, g)
<1> DEFINE Upto(m) == \E f \in [0 .. m -> S] : Unrolls(f, m, s, g)
           Bad == {m \in 0 .. n : ~Upto(m)}
<1> SUFFICES ASSUME Bad # {}  PROVE FALSE
  OBVIOUS
<1>1. PICK m \in Bad : \A i \in Bad : m <= i
  <2>1. Bad \in SUBSET Nat
    OBVIOUS
  <2>2. \E m \in Bad : \A i \in Bad : m <= i
    BY <2>1, LeastNatural, Zenon
  <2> QED BY <2>2
<1>2. CASE m = 0
  <2>1. [i \in 0 .. 0 |-> s] \in [0 .. 0 -> S] /\ Unrolls([i \in 0 .. 0 |-> s], 0, s, g)
    BY DEF Unrolls
  <2> QED BY <1>1, <1>2, <2>1
<1>3. CASE m # 0
  <2>1. m \in 1 .. n /\ m - 1 \in 0 .. n /\ m - 1 \notin Bad
    BY <1>1, <1>3
  <2>2. PICK f \in [0 .. m - 1 -> S] : Unrolls(f, m - 1, s, g)
    BY <2>1
  <2> DEFINE h == [i \in 0 .. m |-> IF i = m THEN g[<<f[m - 1], m>>] ELSE f[i]]
  <2>3. h \in [0 .. m -> S]
    BY <2>1, <2>2
  <2>4. \A i \in 0 .. m - 1 : f[i] = IF i = 0 THEN s ELSE g[<<f[i - 1], i>>]
    BY <2>1, <2>2 DEF Unrolls
  <2>5. ASSUME NEW i \in 0 .. m  PROVE h[i] = IF i = 0 THEN s ELSE g[<<h[i - 1], i>>]
    <3>1. CASE i = m
      <4>1. h[m] = g[<<f[m - 1], m>>] /\ h[m - 1] = f[m - 1]
        BY <2>1
      <4> QED BY <1>3, <3>1, <4>1
    <3>2. CASE i # m
      <4>1. i \in 0 .. m - 1 /\ h[i] = f[i] /\ (i # 0 => h[i - 1] = f[i - 1])
        BY <2>1, <3>2
      <4> QED BY <2>4, <4>1
    <3> QED BY <3>1, <3>2
  <2>6. Unrolls(h, m, s, g)
    BY <2>3, <2>5 DEF Unrolls
  <2> QED BY <1>1, <2>3, <2>6
<1> QED BY <1>2, <1>3

-----------------------------------------------------------------------------
(* What loading an image does to memory.                                   *)

(* The cells that an image leaves where it was written.                    *)
Laid(id) == {<<"image", id, k>> : k \in Nat} \cup {<<"bss", id, 0>>}

(* Memory m, or what became of it as image id was written over it.         *)
Overlaid(m, id) ==
    {f \in [Dram -> {m[u] : u \in Dram} \cup Laid(id)] :
        \A u \in Dram : f[u] = m[u] \/ f[u] \in Laid(id)}
Loading(m, id) == [ok : BOOLEAN, mem : Overlaid(m, id)]

(* Bus.Load of cells of the image.                                         *)
LEMMA LoadOverlays ==
    ASSUME NEW m, NEW id, NEW s \in Loading(m, id), NEW addr \in Nat, NEW cells,
           Len(cells) \in Nat, \A i \in 1 .. Len(cells) : cells[i] \in Laid(id)
    PROVE  Load(s, addr, cells) \in Loading(m, id)
<1> DEFINE w == Written(s.mem, addr, cells)
<1>1. s.mem \in Overlaid(m, id) /\ s \in [ok : BOOLEAN, mem : Overlaid(m, id)]
  BY DEF Loading
<1>2. ASSUME NEW u \in Dram  PROVE w[u] = s.mem[u] \/ w[u] \in Laid(id)
  <2>1. u \in Int
    BY MachineAssumption DEF Dram
  <2>2. CASE u >= addr /\ u < addr + Len(cells)
    <3>1. u - addr + 1 \in 1 .. Len(cells) /\ w[u] = cells[u - addr + 1]
      BY <2>1, <2>2 DEF Written
    <3> QED BY <3>1
  <2>3. CASE ~(u >= addr /\ u < addr + Len(cells))
    BY <2>3 DEF Written
  <2> QED BY <2>2, <2>3
<1>3. w = [u \in Dram |-> w[u]]
  BY DEF Written
<1> HIDE DEF w
<1>4. w \in Overlaid(m, id)
  <2>1. \A u \in Dram : s.mem[u] = m[u] \/ s.mem[u] \in Laid(id)
    BY <1>1 DEF Overlaid
  <2>2. \A u \in Dram : w[u] = m[u] \/ w[u] \in Laid(id)
    BY <1>2, <2>1
  <2>3. \A u \in Dram : w[u] \in {m[v] : v \in Dram} \cup Laid(id)
    BY <2>2
  <2>4. w \in [Dram -> {m[v] : v \in Dram} \cup Laid(id)]
    BY <1>3, <2>3
  <2> QED BY <2>2, <2>4 DEF Overlaid
<1>5. [s EXCEPT !.mem = w] \in [ok : BOOLEAN, mem : Overlaid(m, id)]
  BY <1>1, <1>4
<1>6. [s EXCEPT !.ok = FALSE] \in [ok : BOOLEAN, mem : Overlaid(m, id)]
  BY <1>1
<1>7. Load(s, addr, cells) \in {s, [s EXCEPT !.mem = w], [s EXCEPT !.ok = FALSE]}
  BY DEF Load, w
<1> QED BY <1>1, <1>5, <1>6, <1>7 DEF Loading

LEMMA SegmentOverlays ==
    ASSUME NEW m, NEW id, NEW s \in Loading(m, id), NEW seg,
           seg.at \in Nat, seg.file \in Nat, seg.size \in Nat
    PROVE  LoadSegment(id, s, seg) \in Loading(m, id)
<1> DEFINE data == [i \in 1 .. seg.file |-> <<"image", id, i>>]
           zeros == [i \in 1 .. seg.size - seg.file |-> <<"bss", id, 0>>]
           filled == IF seg.short THEN [s EXCEPT !.ok = FALSE]
                     ELSE IF seg.file > 0 THEN Load(s, seg.at, data) ELSE s
<1>1. Len(data) = seg.file /\ \A i \in 1 .. seg.file : data[i] \in Laid(id)
  BY DEF Laid
<1>2. filled \in Loading(m, id)
  <2> HIDE DEF data
  <2>1. Load(s, seg.at, data) \in Loading(m, id)
    BY <1>1, LoadOverlays
  <2>2. [s EXCEPT !.ok = FALSE] \in Loading(m, id)
    BY DEF Loading
  <2> QED BY <2>1, <2>2
<1>3. LoadSegment(id, s, seg) =
        IF ~s.ok \/ seg.size = 0 THEN s
        ELSE IF seg.size > seg.file
             THEN Load(filled, (seg.at + seg.file) % AddrMod, zeros) ELSE filled
  BY DEF LoadSegment
<1>4. seg.size > seg.file => Load(filled, (seg.at + seg.file) % AddrMod, zeros) \in Loading(m, id)
  <2> SUFFICES ASSUME seg.size > seg.file
               PROVE  Load(filled, (seg.at + seg.file) % AddrMod, zeros) \in Loading(m, id)
    OBVIOUS
  <2>1. seg.size - seg.file \in Nat /\ (seg.at + seg.file) % AddrMod \in Nat
    BY MachineAssumption
  <2>2. Len(zeros) = seg.size - seg.file /\ \A i \in 1 .. Len(zeros) : zeros[i] \in Laid(id)
    BY <2>1 DEF Laid
  <2> HIDE DEF filled, zeros
  <2> QED BY <1>2, <2>1, <2>2, LoadOverlays
<1> HIDE DEF filled, zeros, data
<1> QED BY <1>2, <1>3, <1>4

(* Whether it succeeds or fails, LoadELFOrRaw leaves memory as it was, but *)
(* for cells of the image.                                                 *)
LEMMA ImageOverlays ==
    ASSUME NEW m, m = [u \in Dram |-> m[u]], NEW base \in Nat, NEW img, IsImage(img)
    PROVE  LoadELFOrRaw(m, base, img).mem \in Overlaid(m, img.id)
<1> DEFINE S == Loading(m, img.id)
<1>1. \A b \in BOOLEAN : [ok |-> b, mem |-> m] \in S
  BY DEF Loading, Overlaid
<1>2. CASE ~img.elf
  <2> DEFINE s == Load([ok |-> TRUE, mem |-> m], base, Cells(img))
  <2>1. img.len \in Nat
    BY <1>2 DEF IsImage
  <2>2. Len(Cells(img)) = img.len /\ \A i \in 1 .. img.len : Cells(img)[i] \in Laid(img.id)
    BY <2>1 DEF Cells, Laid
  <2>3. s \in S
    <3>1. [ok |-> TRUE, mem |-> m] \in S
      BY <1>1
    <3> HIDE DEF S
    <3> QED BY <2>1, <2>2, <3>1, LoadOverlays DEF S
  <2>4. LoadELFOrRaw(m, base, img).mem = s.mem
    BY <1>2 DEF LoadELFOrRaw
  <2> HIDE DEF s
  <2> QED BY <2>3, <2>4 DEF Loading
<1>3. CASE img.elf
  <2> DEFINE n == IF img.sound THEN Len(img.segs) ELSE 0
             first == [ok |-> img.sound, mem |-> m]
             Next1(x, i) == LoadSegment(img.id, x, img.segs[i])
             g == [z \in S \X (1 .. n) |-> Next1(z[1], z[2])]
             Is(f) == f = [i \in 0 .. n |-> IF i = 0 THEN first ELSE Next1(f[i - 1], i)]
  <2>1. /\ n \in Nat /\ first \in S
        /\ \A i \in 1 .. n : /\ img.segs[i].at \in Nat /\ img.segs[i].file \in Nat
                             /\ img.segs[i].size \in Nat
    BY <1>1, <1>3 DEF IsImage
  <2>2. ASSUME NEW x \in S, NEW i \in 1 .. n  PROVE Next1(x, i) \in S
    <3> HIDE DEF n
    <3> QED BY <2>1, SegmentOverlays
  <2> HIDE DEF Next1
  <2>3. g \in [S \X (1 .. n) -> S]
    BY <2>2
  <2>4. PICK f \in [0 .. n -> S] : Unrolls(f, n, first, g)
    <3> HIDE DEF n, g, S, first
    <3> QED BY <2>1, <2>3, Recursion
  <2>5. Is(f)
    <3> HIDE DEF n, first
    <3>1. \A i \in 1 .. n : g[<<f[i - 1], i>>] = Next1(f[i - 1], i)
      BY <2>1, <2>4
    <3>2. f = [i \in 0 .. n |-> IF i = 0 THEN first ELSE g[<<f[i - 1], i>>]]
      BY <2>4 DEF Unrolls
    <3> HIDE DEF g
    <3>3. \A i \in 0 .. n : (IF i = 0 THEN first ELSE g[<<f[i - 1], i>>])
                            = (IF i = 0 THEN first ELSE Next1(f[i - 1], i))
      BY <2>1, <3>1
    <3> QED BY <3>2, <3>3
  <2> DEFINE r == CHOOSE h : Is(h)
  <2>6. Is(r)
    BY <2>5, Zenon
  <2>7. LoadELFOrRaw(m, base, img).mem = r[n].mem
    BY <1>3 DEF LoadELFOrRaw, Next1
  <2> HIDE DEF r
  <2>8. r[0] \in S /\ \A i \in 1 .. n : r[i - 1] \in S => r[i] \in S
    <3> HIDE DEF n, first
    <3>0. n \in Nat
      BY <2>1
    <3>1. r[0] = first /\ \A i \in 1 .. n : r[i] = Next1(r[i - 1], i)
      BY <2>6, <3>0
    <3> QED BY <2>1, <2>2, <3>1
  <2>9. r[n] \in S
    <3> HIDE DEF n, S
    <3> QED BY <2>1, <2>8, Carried
  <2> HIDE DEF n
  <2> QED BY <2>7, <2>9 DEF Loading
<1>4. img.elf \in BOOLEAN
  BY DEF IsImage
<1> QED BY <1>2, <1>3, <1>4

-----------------------------------------------------------------------------
(* What the loaders leave in memory for the guest.                         *)

CustomOK(custom) ==
    Len(custom) \in Nat /\ \A i \in 1 .. Len(custom) : custom[i][1] = "image"
InitrdOK(initrd) ==
    /\ initrd \in Nat \X Nat
    /\ initrd = <<0, 0>> \/ (DramBase <= initrd[1] /\ initrd[2] <= DtbAddr - HighArea)
ConfigOK(c) ==
    /\ c = [entry |-> c.entry, next |-> c.next, initrd |-> c.initrd, args |-> c.args,
            custom |-> c.custom]
    /\ c.entry \in Nat /\ c.next \in Nat
    /\ InitrdOK(c.initrd) /\ CustomOK(c.custom)

(* One cell always fits at its place.                                      *)
LEMMA InfoInstalled ==
    ASSUME NEW m, NEW c
    PROVE  installDynamicInfo(m, c)
             = [u \in Dram |-> IF u = DynamicAddr THEN InfoCell(c) ELSE m[u]]
<1> DEFINE cells == <<InfoCell(c)>>
           s == [ok |-> TRUE, mem |-> m]
<1>1. Len(cells) = 1 /\ cells[1] = InfoCell(c)
  OBVIOUS
<1> HIDE DEF cells
<1>2. InDRAM(DynamicAddr, Len(cells))
  BY <1>1, MachineAssumption DEF InDRAM
<1>3. installDynamicInfo(m, c) = Written(m, DynamicAddr, cells)
  <2>1. Load(s, DynamicAddr, cells) = [s EXCEPT !.mem = Written(@, DynamicAddr, cells)]
    BY <1>2 DEF Load
  <2> QED BY <2>1 DEF installDynamicInfo, cells
<1>4. ASSUME NEW u \in Dram
      PROVE  (IF u >= DynamicAddr /\ u < DynamicAddr + Len(cells)
              THEN cells[u - DynamicAddr + 1] ELSE m[u])
             = IF u = DynamicAddr THEN InfoCell(c) ELSE m[u]
  <2>1. u \in Int /\ DynamicAddr \in Int
    BY MachineAssumption DEF Dram
  <2>2. CASE u = DynamicAddr
    <3>1. u - DynamicAddr + 1 = 1 /\ u >= DynamicAddr /\ u < DynamicAddr + Len(cells)
      BY <1>1, <2>1, <2>2
    <3> QED BY <1>1, <2>2, <3>1
  <2>3. CASE u # DynamicAddr
    <3>1. ~(u >= DynamicAddr /\ u < DynamicAddr + Len(cells))
      BY <1>1, <2>1, <2>3
    <3> QED BY <2>3, <3>1
  <2> QED BY <2>2, <2>3
<1> QED BY <1>3, <1>4 DEF Written

(* The tree of the configuration is at its place unless it is an uploaded  *)
(* one that does not fit; below it only the record's cell is written.      *)
LEMMA TreeInstalled ==
    ASSUME NEW m, NEW c, NEW n, Len(c.custom) \in Nat
    PROVE  /\ installDTB(m, c, n) = [u \in Dram |-> installDTB(m, c, n)[u]]
           /\ installDTB(m, c, n)[DynamicAddr] = InfoCell(c)
           /\ Len(c.custom) = 0 => installDTB(m, c, n)[DtbAddr] = GeneratedTree(c, n)
           /\ Len(c.custom) > 0 /\ ~(Len(c.custom) > DramBase + DramSize - DtbAddr)
                => installDTB(m, c, n)[DtbAddr] = c.custom[1]
           /\ Len(c.custom) > 0 /\ Len(c.custom) > DramBase + DramSize - DtbAddr
                => installDTB(m, c, n)[DtbAddr] = m[DtbAddr]
           /\ \A u \in Dram : u < DtbAddr /\ u # DynamicAddr => installDTB(m, c, n)[u] = m[u]
<1> DEFINE cells == currentDTBBytes(c, n)
           s == [ok |-> TRUE, mem |-> m]
           w == Load(s, DtbAddr, cells).mem
           d == installDTB(m, c, n)
<1>1. /\ DtbAddr \in Dram /\ DynamicAddr \in Dram /\ DynamicAddr < DtbAddr
      /\ DtbAddr \in Int /\ DynamicAddr \in Int
  BY MachineAssumption DEF Dram
<1>2. d = [u \in Dram |-> IF u = DynamicAddr THEN InfoCell(c) ELSE w[u]]
  <2>1. d = installDynamicInfo(w, c)
    BY DEF installDTB
  <2> HIDE DEF d, w
  <2> QED BY <2>1, InfoInstalled
<1>3. w = IF InDRAM(DtbAddr, Len(cells)) THEN Written(m, DtbAddr, cells) ELSE m
  <2>1. CASE InDRAM(DtbAddr, Len(cells))
    <3>1. Load(s, DtbAddr, cells) = [s EXCEPT !.mem = Written(@, DtbAddr, cells)]
      BY <2>1 DEF Load
    <3> QED BY <2>1, <3>1
  <2>2. CASE ~InDRAM(DtbAddr, Len(cells))
    <3>1. Load(s, DtbAddr, cells) = [s EXCEPT !.ok = FALSE]
      BY <2>2 DEF Load
    <3> QED BY <2>2, <3>1
  <2> QED BY <2>1, <2>2
<1>4. /\ Len(c.custom) = 0 => Len(cells) = 1 /\ cells[1] = GeneratedTree(c, n)
      /\ Len(c.custom) > 0 => Len(cells) = Len(c.custom) /\ cells[1] = c.custom[1]
  BY DEF currentDTBBytes
<1> HIDE DEF cells
<1>5. Len(cells) \in Nat \ {0}
  <2>1. CASE Len(c.custom) = 0
    BY <1>4, <2>1
  <2>2. CASE Len(c.custom) > 0
    BY <1>4, <2>2
  <2> QED BY <2>1, <2>2
<1>6. InDRAM(DtbAddr, Len(cells)) <=> ~(Len(cells) > DramBase + DramSize - DtbAddr)
  BY <1>5, MachineAssumption DEF InDRAM
<1>7. InDRAM(DtbAddr, Len(cells)) => w[DtbAddr] = cells[1]
  <2>1. DtbAddr - DtbAddr + 1 = 1 /\ DtbAddr >= DtbAddr /\ DtbAddr < DtbAddr + Len(cells)
    BY <1>1, <1>5
  <2>2. Written(m, DtbAddr, cells)[DtbAddr] = cells[1]
    BY <1>1, <2>1 DEF Written
  <2> QED BY <1>3, <2>2
<1>8. ASSUME NEW u \in Dram, u < DtbAddr  PROVE w[u] = m[u]
  <2>1. ~(u >= DtbAddr)
    BY <1>8, MachineAssumption DEF Dram
  <2>2. Written(m, DtbAddr, cells)[u] = m[u]
    BY <2>1 DEF Written
  <2> QED BY <1>3, <2>2
<1>9. d[DynamicAddr] = InfoCell(c) /\ d[DtbAddr] = w[DtbAddr]
  <2> HIDE DEF w
  <2> QED BY <1>1, <1>2
<1>10. d = [u \in Dram |-> d[u]]
  <2> HIDE DEF w
  <2> QED BY <1>2
<1>11. \A u \in Dram : u < DtbAddr /\ u # DynamicAddr => d[u] = m[u]
  <2> HIDE DEF w
  <2> QED BY <1>2, <1>8
<1>12. Len(c.custom) = 0 => d[DtbAddr] = GeneratedTree(c, n)
  <2> SUFFICES ASSUME Len(c.custom) = 0  PROVE d[DtbAddr] = GeneratedTree(c, n)
    OBVIOUS
  <2>1. ~(1 > DramBase + DramSize - DtbAddr)
    BY MachineAssumption
  <2> QED BY <1>4, <1>6, <1>7, <1>9, <2>1
<1>13. Len(c.custom) > 0 /\ ~(Len(c.custom) > DramBase + DramSize - DtbAddr)
         => d[DtbAddr] = c.custom[1]
  BY <1>4, <1>6, <1>7, <1>9
<1>14. Len(c.custom) > 0 /\ Len(c.custom) > DramBase + DramSize - DtbAddr
         => d[DtbAddr] = m[DtbAddr]
  <2> HIDE DEF d
  <2>1. ~InDRAM(DtbAddr, Len(cells)) => w = m
    BY <1>3
  <2> HIDE DEF w
  <2> QED BY <1>4, <1>6, <1>9, <2>1
<1> QED BY <1>9, <1>10, <1>11, <1>12, <1>13, <1>14

-----------------------------------------------------------------------------
(* Types.                                                                  *)

HartsOK(hs, n) ==
    hs \in [0 .. n - 1 -> [pc : Nat, boot : BOOLEAN, fresh : BOOLEAN, halted : BOOLEAN]]

Typed ==
    /\ board \in 1 .. 8
    /\ mem = [u \in Dram |-> mem[u]]
    /\ ConfigOK(config)
    /\ HartsOK(harts, board)

(* Resets and refreshes leave the harts well typed.                        *)
LEMMA HartsKept ==
    ASSUME NEW n \in Nat, NEW c, c.entry \in Nat
    PROVE  /\ HartsOK(resetHarts(c, n), n)
           /\ \A hs : HartsOK(hs, n) =>
                 HartsOK(refreshBootRegs(hs), n) /\ HartsOK(haltAllHarts(hs), n)
BY DEF HartsOK, resetHarts, ResetHart, refreshBootRegs, haltAllHarts

(* An initrd that is accepted lies whole below the reserved area: the sum  *)
(* of its address and length, which the code takes modulo 2^64, does not   *)
(* wrap when the image lies in DRAM.                                       *)
LEMMA InitrdAccepted ==
    ASSUME NEW m, NEW addr \in Nat, NEW img, img.len \in Nat, InitrdFits(addr, img.len),
           Load([ok |-> TRUE, mem |-> m], addr, Cells(img)).ok
    PROVE  /\ DramBase <= addr /\ addr + img.len <= DtbAddr - HighArea
           /\ Load([ok |-> TRUE, mem |-> m], addr, Cells(img)).mem
                = [u \in Dram |-> IF u >= addr /\ u < addr + img.len
                                  THEN <<"image", img.id, u - addr + 1>> ELSE m[u]]
<1> DEFINE s == [ok |-> TRUE, mem |-> m]
           cells == Cells(img)
<1>1. Len(cells) = img.len /\ \A i \in 1 .. img.len : cells[i] = <<"image", img.id, i>>
  BY DEF Cells
<1>2. Load(s, addr, cells).ok
  OBVIOUS
<1> HIDE DEF cells
<1>3. InDRAM(addr, img.len)
  <2> SUFFICES ASSUME ~InDRAM(addr, img.len)  PROVE FALSE
    OBVIOUS
  <2>1. Load(s, addr, cells) = [s EXCEPT !.ok = FALSE]
    BY <1>1 DEF Load
  <2> QED BY <1>2, <2>1
<1>4. addr + img.len < AddrMod /\ addr + img.len \in Nat
  BY <1>3, MachineAssumption DEF InDRAM
<1>5. (addr + img.len) % AddrMod = addr + img.len
  BY <1>4, MachineAssumption
<1>6. DramBase <= addr /\ addr + img.len <= DtbAddr - HighArea
  BY <1>5 DEF InitrdFits
<1>7. Load(s, addr, cells).mem = Written(m, addr, cells)
  <2>1. Load(s, addr, cells) = [s EXCEPT !.mem = Written(@, addr, cells)]
    BY <1>1, <1>3 DEF Load
  <2> QED BY <2>1
<1>8. ASSUME NEW u \in Dram
      PROVE  (IF u >= addr /\ u < addr + Len(cells) THEN cells[u - addr + 1] ELSE m[u])
             = IF u >= addr /\ u < addr + img.len
               THEN <<"image", img.id, u - addr + 1>> ELSE m[u]
  <2>1. CASE u >= addr /\ u < addr + img.len
    <3>1. u - addr + 1 \in 1 .. img.len
      BY <2>1, MachineAssumption DEF Dram
    <3> QED BY <1>1, <2>1, <3>1
  <2>2. CASE ~(u >= addr /\ u < addr + img.len)
    BY <1>1, <2>2
  <2> QED BY <2>1, <2>2
<1>9. Written(m, addr, cells)
        = [u \in Dram |-> IF u >= addr /\ u < addr + img.len
                          THEN <<"image", img.id, u - addr + 1>> ELSE m[u]]
  BY <1>8 DEF Written
<1> QED BY <1>6, <1>7, <1>9 DEF cells

LEMMA ImageEntry ==
    ASSUME NEW m, NEW base \in Nat, NEW img, IsImage(img)
    PROVE  LoadELFOrRaw(m, base, img).entry \in Nat
<1>1. CASE ~img.elf
  BY <1>1 DEF LoadELFOrRaw
<1>2. CASE img.elf
  BY <1>2 DEF LoadELFOrRaw, IsImage
<1> QED BY <1>1, <1>2

LEMMA ConfigChanges ==
    ASSUME NEW c, ConfigOK(c)
    PROVE  /\ \A e \in Nat : ConfigOK([c EXCEPT !.entry = e]) /\ ConfigOK([c EXCEPT !.next = e])
           /\ \A i : InitrdOK(i) => ConfigOK([c EXCEPT !.initrd = i])
           /\ \A a : ConfigOK([c EXCEPT !.args = a])
           /\ \A t : CustomOK(t) => ConfigOK([c EXCEPT !.custom = t])
<1>1. PICK e0, n0, i0, a0, t0 :
         /\ c = [entry |-> e0, next |-> n0, initrd |-> i0, args |-> a0, custom |-> t0]
         /\ e0 \in Nat /\ n0 \in Nat /\ InitrdOK(i0) /\ CustomOK(t0)
  BY DEF ConfigOK
<1> QED BY <1>1 DEF ConfigOK


LEMMA TypedStep == Typed /\ [Next]_vars => Typed'
<1> SUFFICES ASSUME Typed, [Next]_vars  PROVE Typed'
  OBVIOUS
<1>0. /\ board \in 1 .. 8 /\ mem = [u \in Dram |-> mem[u]] /\ ConfigOK(config)
      /\ HartsOK(harts, board) /\ board \in Nat
      /\ config.entry \in Nat /\ config.next \in Nat /\ Len(config.custom) \in Nat
  BY DEF Typed, HartsOK, ConfigOK, CustomOK
<1>a. (/\ board' \in 1 .. 8 /\ mem' = [u \in Dram |-> mem'[u]] /\ ConfigOK(config')
       /\ HartsOK(harts', board')) => Typed'
  BY DEF Typed, HartsOK, ConfigOK, CustomOK, InitrdOK
<1>b. ASSUME NEW m, NEW id, NEW f \in Overlaid(m, id)  PROVE f = [u \in Dram |-> f[u]]
  BY DEF Overlaid
<1>c. ASSUME NEW m, NEW c  PROVE installDynamicInfo(m, c) = [u \in Dram |-> installDynamicInfo(m, c)[u]]
  BY InfoInstalled
<1>d. ASSUME NEW m, NEW c, NEW n, ConfigOK(c)
      PROVE  installDTB(m, c, n) = [u \in Dram |-> installDTB(m, c, n)[u]]
  BY TreeInstalled DEF ConfigOK, CustomOK
<1>e. ASSUME NEW c, ConfigOK(c)  PROVE HartsOK(resetHarts(c, board), board)
  <2>1. c.entry \in Nat
    BY <1>e DEF ConfigOK
  <2> QED BY <1>0, <2>1, HartsKept
<1>f. HartsOK(refreshBootRegs(harts), board) /\ HartsOK(haltAllHarts(harts), board)
  BY <1>0, HartsKept
<1>1. ASSUME NEW img \in Firmware, NEW a \in LoadAddrs \cup {FwBase}, LoadFirmware(img, a)
      PROVE  Typed'
  <2> DEFINE r == LoadELFOrRaw(mem, a, img)
             c == [config EXCEPT !.entry = r.entry]
  <2>1. a \in Nat /\ IsImage(img)
    BY MachineAssumption
  <2>2. r.mem = [u \in Dram |-> r.mem[u]] /\ r.entry \in Nat
    BY <1>0, <1>b, <2>1, ImageOverlays, ImageEntry
  <2>3. /\ board' = board
        /\ \/ config' = c /\ mem' = installDTB(r.mem, c, board) /\ harts' = resetHarts(c, board)
           \/ mem' = r.mem /\ config' = config /\ harts' = harts
    BY <1>1 DEF LoadFirmware
  <2>4. ConfigOK(c)
    BY <1>0, <2>2, ConfigChanges
  <2> HIDE DEF c, r
  <2> QED BY <1>0, <1>a, <1>d, <1>e, <2>2, <2>3, <2>4
<1>2. ASSUME NEW img \in Payloads, NEW a \in LoadAddrs \cup {config.next}, LoadPayload(img, a)
      PROVE  Typed'
  <2> DEFINE r == LoadELFOrRaw(mem, a, img)
             c == [config EXCEPT !.next = r.entry]
  <2>1. a \in Nat /\ IsImage(img)
    BY <1>0, MachineAssumption
  <2>2. r.mem = [u \in Dram |-> r.mem[u]] /\ r.entry \in Nat
    BY <1>0, <1>b, <2>1, ImageOverlays, ImageEntry
  <2>3. /\ board' = board
        /\ \/ config' = c /\ mem' = installDynamicInfo(r.mem, c) /\ harts' = refreshBootRegs(harts)
           \/ mem' = r.mem /\ config' = config /\ harts' = harts
    BY <1>2 DEF LoadPayload
  <2>4. ConfigOK(c)
    BY <1>0, <2>2, ConfigChanges
  <2> HIDE DEF c, r
  <2> QED BY <1>0, <1>a, <1>c, <1>f, <2>2, <2>3, <2>4
<1>3. ASSUME NEW img \in Initrds, NEW a \in LoadAddrs \cup {InitrdAddr}, LoadInitrd(img, a)
      PROVE  Typed'
  <2> DEFINE s == Load([ok |-> TRUE, mem |-> mem], a, Cells(img))
             c == [config EXCEPT !.initrd = <<a, a + img.len>>]
  <2>1. a \in Nat /\ img.len \in Nat
    BY MachineAssumption
  <2>2. /\ board' = board /\ InitrdFits(a, img.len) /\ s.ok
        /\ config' = c /\ mem' = installDTB(s.mem, c, board) /\ harts' = refreshBootRegs(harts)
    BY <1>3 DEF LoadInitrd
  <2>3. InitrdOK(<<a, a + img.len>>)
    <3>1. DramBase <= a /\ a + img.len <= DtbAddr - HighArea
      BY <2>1, <2>2, InitrdAccepted
    <3> QED BY <2>1, <3>1 DEF InitrdOK
  <2>4. ConfigOK(c)
    BY <1>0, <2>3, ConfigChanges
  <2> HIDE DEF c, s
  <2> QED BY <1>0, <1>a, <1>d, <1>f, <2>2, <2>4
<1>4. ASSUME NEW img \in Trees, LoadDTB(img)  PROVE Typed'
  <2> DEFINE c == [config EXCEPT !.custom = Cells(img)]
  <2>1. /\ board' = board
        /\ config' = c /\ mem' = installDTB(mem, c, board) /\ harts' = refreshBootRegs(harts)
    BY <1>4 DEF LoadDTB
  <2>2. CustomOK(Cells(img))
    BY MachineAssumption DEF CustomOK, Cells
  <2>3. ConfigOK(c)
    BY <1>0, <2>2, ConfigChanges
  <2> HIDE DEF c
  <2> QED BY <1>0, <1>a, <1>d, <1>f, <2>1, <2>3
<1>5. ASSUME NEW d, LoadDisk(d)  PROVE Typed'
  <2>1. UNCHANGED <<board, harts, mem, config>>
    BY <1>5 DEF LoadDisk
  <2> QED BY <1>0, <1>a, <2>1
<1>6. ASSUME NEW a, SetBootArgs(a)  PROVE Typed'
  <2> DEFINE c == [config EXCEPT !.args = a]
  <2>1. /\ board' = board
        /\ config' = c /\ mem' = installDTB(mem, c, board) /\ harts' = refreshBootRegs(harts)
    BY <1>6 DEF SetBootArgs
  <2>2. ConfigOK(c)
    BY <1>0, ConfigChanges
  <2> HIDE DEF c
  <2> QED BY <1>0, <1>a, <1>d, <1>f, <2>1, <2>2
<1>7. ASSUME NEW n \in Boards, SetHartCount(n)  PROVE Typed'
  <2>1. /\ board' = n /\ config' = config
        /\ mem' = installDTB([u \in Dram |-> Zero], config, n) /\ harts' = resetHarts(config, n)
    BY <1>7 DEF SetHartCount
  <2>2. n \in 1 .. 8 /\ n \in Nat
    BY MachineAssumption
  <2>3. HartsOK(resetHarts(config, n), n)
    BY <1>0, <2>2, HartsKept
  <2> QED BY <1>0, <1>a, <1>d, <2>1, <2>2, <2>3
<1>8. ASSUME NEW p, SmokePreset(p)  PROVE Typed'
  <2> DEFINE c == IF PresetArgs[p] = "" THEN config ELSE [config EXCEPT !.args = PresetArgs[p]]
  <2>1. /\ board' = board
        /\ config' = c /\ mem' = installDTB(mem, c, board) /\ harts' = resetHarts(c, board)
    BY <1>8 DEF SmokePreset
  <2>2. ConfigOK(c)
    BY <1>0, ConfigChanges
  <2> HIDE DEF c
  <2> QED BY <1>0, <1>a, <1>d, <1>e, <2>1, <2>2
<1>9. CASE Reset
  <2>1. UNCHANGED <<board, config>> /\ mem' = installDTB(mem, config, board)
        /\ harts' = resetHarts(config, board)
    BY <1>9 DEF Reset
  <2> QED BY <1>0, <1>a, <1>d, <1>e, <2>1
<1>10. ASSUME NEW units, NEW by, Overwrite(units, by)  PROVE Typed'
  <2>1. UNCHANGED <<board, config, harts>> /\ mem' = [u \in Dram |-> mem'[u]]
    BY <1>10 DEF Overwrite
  <2> QED BY <1>0, <1>a, <2>1
<1>11. ASSUME NEW h, Guest(h)  PROVE Typed'
  <2>1. UNCHANGED <<board, config>>
    BY <1>11 DEF Guest, Execute, Store, HartStart, HartStop, SysconWrite, GuestOnly
  <2>2. mem' = [u \in Dram |-> mem'[u]]
    <3>1. mem' = mem \/ \E u : mem' = [mem EXCEPT ![u] = <<"guest", 0, 0>>]
      BY <1>11 DEF Guest, Execute, Store, HartStart, HartStop, SysconWrite
    <3> QED BY <1>0, <3>1
  <2>3. HartsOK(harts', board)
    <3>1. CASE Execute(h)
      BY <1>0, <3>1, MachineAssumption DEF Execute, HartsOK, Alive, Gone, Elsewhere
    <3>2. CASE HartStop(h)
      BY <1>0, <3>2 DEF HartStop, HartsOK, Alive
    <3>3. ASSUME NEW u, Store(h, u)  PROVE HartsOK(harts', board)
      BY <1>0, <3>3 DEF Store
    <3>4. ASSUME NEW t, HartStart(h, t)  PROVE HartsOK(harts', board)
      BY <1>0, <3>4, MachineAssumption DEF HartStart, HartsOK, Gone, Elsewhere
    <3>5. ASSUME NEW value, SysconWrite(h, value)  PROVE HartsOK(harts', board)
      BY <1>0, <1>e, <1>f, <3>5 DEF SysconWrite
    <3> QED BY <1>11, <3>1, <3>2, <3>3, <3>4, <3>5 DEF Guest
  <2> QED BY <1>0, <1>a, <2>1, <2>2, <2>3
<1>12. CASE UNCHANGED vars
  BY <1>12 DEF vars, Typed, ConfigOK, CustomOK, InitrdOK
<1>13. CASE Page
  BY <1>1, <1>2, <1>3, <1>4, <1>5, <1>6, <1>7, <1>8, <1>9, <1>10, <1>13
     DEF Page, Poke, ClearFramebuffer
<1> QED BY <1>11, <1>12, <1>13 DEF Next

-----------------------------------------------------------------------------
(* What the guest is told.                                                 *)

(* A tree in memory m was built for a board of n harts.                    *)
BuiltFor(m, n) == m[DtbAddr][1] = "tree" => \E c : m[DtbAddr] = GeneratedTree(c, n)

(* The tree and the record in memory m, where there are such, are those of *)
(* configuration c and of a board of n harts; a tree left by an upload     *)
(* that was too large is at least of such a board.                         *)
TellsTruth(m, c, n) ==
    /\ BuiltFor(m, n)
    /\ m[DtbAddr][1] = "tree" =>
          \/ Len(c.custom) > DramBase + DramSize - DtbAddr
          \/ Len(c.custom) = 0 /\ m[DtbAddr] = GeneratedTree(c, n)
    /\ m[DynamicAddr][1] = "info" => m[DynamicAddr] = InfoCell(c)
TreeSound == TellsTruth(mem, config, board)

LEMMA InstalledTellsTruth ==
    ASSUME NEW m, NEW c, NEW n, ConfigOK(c), BuiltFor(m, n)
    PROVE  TellsTruth(installDTB(m, c, n), c, n)
<1> DEFINE d == installDTB(m, c, n)
<1>1. Len(c.custom) \in Nat /\ \A i \in 1 .. Len(c.custom) : c.custom[i][1] = "image"
  BY DEF ConfigOK, CustomOK
<1>2. /\ d[DynamicAddr] = InfoCell(c)
      /\ Len(c.custom) = 0 => d[DtbAddr] = GeneratedTree(c, n)
      /\ Len(c.custom) > 0 /\ ~(Len(c.custom) > DramBase + DramSize - DtbAddr)
           => d[DtbAddr] = c.custom[1]
      /\ Len(c.custom) > 0 /\ Len(c.custom) > DramBase + DramSize - DtbAddr
           => d[DtbAddr] = m[DtbAddr]
  BY <1>1, TreeInstalled
<1> HIDE DEF d
<1>3. Len(c.custom) > 0 => c.custom[1][1] # "tree"
  <2> SUFFICES ASSUME Len(c.custom) > 0  PROVE c.custom[1][1] # "tree"
    OBVIOUS
  <2>1. 1 \in 1 .. Len(c.custom)
    BY <1>1
  <2>2. c.custom[1][1] = "image"
    BY <1>1, <2>1
  <2> QED BY <2>2
<1>4. Len(c.custom) = 0 \/ Len(c.custom) > 0
  BY <1>1
<1>5. BuiltFor(d, n)
  <2>1. CASE d[DtbAddr] = m[DtbAddr]
    BY <2>1 DEF BuiltFor
  <2>2. CASE d[DtbAddr] = GeneratedTree(c, n)
    BY <2>2 DEF BuiltFor
  <2>3. CASE d[DtbAddr][1] # "tree"
    BY <2>3 DEF BuiltFor
  <2> QED BY <1>2, <1>3, <1>4, <2>1, <2>2, <2>3
<1>6. TellsTruth(d, c, n)
  BY <1>2, <1>3, <1>4, <1>5 DEF TellsTruth
<1> QED BY <1>6 DEF d

(* A write of anything else over the tree or the record.                   *)
LEMMA OverwrittenTellsTruth ==
    ASSUME NEW m, NEW f, NEW c, NEW n, TellsTruth(m, c, n),
           \A u \in {DtbAddr, DynamicAddr} : f[u] = m[u] \/ f[u][1] \notin {"tree", "info"}
    PROVE  TellsTruth(f, c, n)
<1>1. f[DtbAddr] = m[DtbAddr] \/ f[DtbAddr][1] # "tree"
  OBVIOUS
<1>2. f[DynamicAddr] = m[DynamicAddr] \/ f[DynamicAddr][1] # "info"
  OBVIOUS
<1> QED BY <1>1, <1>2 DEF TellsTruth, BuiltFor

LEMMA BothInDram == DtbAddr \in Dram /\ DynamicAddr \in Dram /\ DynamicAddr # DtbAddr
BY MachineAssumption DEF Dram

LEMMA OverlaidTellsTruth ==
    ASSUME NEW m, NEW id, NEW f \in Overlaid(m, id), NEW c, NEW n, TellsTruth(m, c, n)
    PROVE  TellsTruth(f, c, n)
<1>1. ASSUME NEW u \in Dram  PROVE f[u] = m[u] \/ f[u][1] \notin {"tree", "info"}
  <2>1. f[u] = m[u] \/ f[u] \in Laid(id)
    BY DEF Overlaid
  <2>2. f[u] \in Laid(id) => f[u][1] \notin {"tree", "info"}
    BY DEF Laid
  <2> QED BY <2>1, <2>2
<1> QED BY <1>1, BothInDram, OverwrittenTellsTruth

(* A payload's address changes the record only, which is written anew.     *)
LEMMA InfoTellsTruth ==
    ASSUME NEW m, NEW c, NEW n, NEW e, ConfigOK(c), TellsTruth(m, c, n)
    PROVE  TellsTruth(installDynamicInfo(m, [c EXCEPT !.next = e]), [c EXCEPT !.next = e], n)
<1> DEFINE d == [c EXCEPT !.next = e]
           f == installDynamicInfo(m, d)
<1>1. d.args = c.args /\ d.initrd = c.initrd /\ d.custom = c.custom
  BY DEF ConfigOK
<1>2. GeneratedTree(d, n) = GeneratedTree(c, n)
  <2>1. TreeConfig(d, n) = TreeConfig(c, n)
    BY <1>1 DEF TreeConfig
  <2> QED BY <2>1 DEF GeneratedTree
<1> HIDE DEF d
<1>3. f[DynamicAddr] = InfoCell(d) /\ f[DtbAddr] = m[DtbAddr]
  BY InfoInstalled, BothInDram
<1> HIDE DEF f
<1>4. TellsTruth(f, d, n)
  BY <1>1, <1>2, <1>3 DEF TellsTruth, BuiltFor
<1> QED BY <1>4 DEF f, d

LEMMA TreeSoundStep == Typed /\ TreeSound /\ [Next]_vars => TreeSound'
<1> SUFFICES ASSUME Typed, TreeSound, [Next]_vars  PROVE TreeSound'
  OBVIOUS
<1>0. /\ mem = [u \in Dram |-> mem[u]] /\ ConfigOK(config) /\ TellsTruth(mem, config, board)
      /\ config.next \in Nat
  BY DEF Typed, TreeSound, ConfigOK
<1>00. ConfigOK(config)'
  <2>1. Typed'
    BY TypedStep
  <2> QED BY <2>1 DEF Typed
<1>a. ASSUME NEW m, BuiltFor(m, board'), mem' = installDTB(m, config', board')
      PROVE  TreeSound'
  <2> DEFINE c == config'
             n == board'
  <2>1. ConfigOK(c)
    BY <1>00 DEF ConfigOK, CustomOK, InitrdOK
  <2> HIDE DEF c, n
  <2>2. BuiltFor(m, n) => TellsTruth(installDTB(m, c, n), c, n)
    BY <2>1, InstalledTellsTruth
  <2> QED BY <1>a, <2>2 DEF TreeSound, TellsTruth, BuiltFor, c, n
<1>b. ASSUME UNCHANGED <<config, board>>, TellsTruth(mem', config, board)  PROVE TreeSound'
  BY <1>b DEF TreeSound, TellsTruth, BuiltFor
<1>c. ASSUME UNCHANGED <<config, board>>,
             \A u \in Dram : mem'[u] = mem[u] \/ mem'[u][1] \notin {"tree", "info"}
      PROVE  TreeSound'
  <2> DEFINE f == mem'
  <2>1. \A u \in {DtbAddr, DynamicAddr} : f[u] = mem[u] \/ f[u][1] \notin {"tree", "info"}
    BY <1>c, BothInDram
  <2> HIDE DEF f
  <2>2. TellsTruth(f, config, board)
    BY <1>0, <2>1, OverwrittenTellsTruth
  <2> QED BY <1>b, <1>c, <2>2 DEF f
<1>1. ASSUME NEW img \in Firmware, NEW a \in LoadAddrs \cup {FwBase}, LoadFirmware(img, a)
      PROVE  TreeSound'
  <2> DEFINE r == LoadELFOrRaw(mem, a, img)
  <2>1. a \in Nat /\ IsImage(img)
    BY MachineAssumption
  <2>2. r.mem \in Overlaid(mem, img.id)
    BY <1>0, <2>1, ImageOverlays
  <2>3. \/ board' = board /\ mem' = installDTB(r.mem, config', board)
        \/ UNCHANGED <<config, board>> /\ mem' = r.mem
    BY <1>1 DEF LoadFirmware
  <2> HIDE DEF r
  <2>4. TellsTruth(r.mem, config, board)
    BY <1>0, <2>2, OverlaidTellsTruth
  <2>5. BuiltFor(r.mem, board)
    BY <2>4 DEF TellsTruth
  <2>6. CASE board' = board /\ mem' = installDTB(r.mem, config', board)
    <3>1. BuiltFor(r.mem, board') /\ mem' = installDTB(r.mem, config', board')
      BY <2>5, <2>6
    <3> QED BY <1>a, <3>1
  <2>7. CASE UNCHANGED <<config, board>> /\ mem' = r.mem
    BY <1>b, <2>4, <2>7
  <2> QED BY <2>3, <2>6, <2>7
<1>2. ASSUME NEW img \in Payloads, NEW a \in LoadAddrs \cup {config.next}, LoadPayload(img, a)
      PROVE  TreeSound'
  <2> DEFINE r == LoadELFOrRaw(mem, a, img)
             c == [config EXCEPT !.next = r.entry]
  <2>1. a \in Nat /\ IsImage(img)
    BY <1>0, MachineAssumption
  <2>2. r.mem \in Overlaid(mem, img.id)
    BY <1>0, <2>1, ImageOverlays
  <2>3. \/ board' = board /\ config' = c /\ mem' = installDynamicInfo(r.mem, c)
        \/ UNCHANGED <<config, board>> /\ mem' = r.mem
    BY <1>2 DEF LoadPayload
  <2>4. TellsTruth(r.mem, config, board)
    <3> HIDE DEF r
    <3> QED BY <1>0, <2>2, OverlaidTellsTruth
  <2>5. TellsTruth(installDynamicInfo(r.mem, c), c, board)
    <3> HIDE DEF r
    <3> QED BY <1>0, <2>4, InfoTellsTruth
  <2>6. CASE board' = board /\ config' = c /\ mem' = installDynamicInfo(r.mem, c)
    <3> HIDE DEF r, c
    <3> QED BY <2>5, <2>6 DEF TreeSound, TellsTruth, BuiltFor
  <2>7. CASE UNCHANGED <<config, board>> /\ mem' = r.mem
    BY <1>b, <2>4, <2>7
  <2> QED BY <2>3, <2>6, <2>7
<1>d. ASSUME board' = board, mem' = installDTB(mem, config', board)  PROVE TreeSound'
  <2>1. BuiltFor(mem, board') /\ mem' = installDTB(mem, config', board')
    BY <1>0, <1>d DEF TellsTruth
  <2> QED BY <1>a, <2>1
<1>3. ASSUME NEW img \in Initrds, NEW a \in LoadAddrs \cup {InitrdAddr}, LoadInitrd(img, a)
      PROVE  TreeSound'
  <2> DEFINE s == Load([ok |-> TRUE, mem |-> mem], a, Cells(img))
  <2>1. a \in Nat /\ img.len \in Nat
    BY MachineAssumption
  <2>2. /\ InitrdFits(a, img.len) /\ s.ok
        /\ board' = board /\ mem' = installDTB(s.mem, config', board')
    BY <1>3 DEF LoadInitrd
  <2>3. s.mem = [u \in Dram |-> IF u >= a /\ u < a + img.len
                                THEN <<"image", img.id, u - a + 1>> ELSE mem[u]]
    BY <2>1, <2>2, InitrdAccepted
  <2> HIDE DEF s
  <2>4. s.mem[DtbAddr] = mem[DtbAddr] \/ s.mem[DtbAddr][1] = "image"
    BY <2>3, BothInDram
  <2>5. BuiltFor(s.mem, board')
    BY <1>0, <2>2, <2>4 DEF TellsTruth, BuiltFor
  <2> QED BY <1>a, <2>2, <2>5
<1>4. ASSUME NEW img, LoadDTB(img)  PROVE TreeSound'
  BY <1>4, <1>d DEF LoadDTB
<1>5. ASSUME NEW d, LoadDisk(d)  PROVE TreeSound'
  BY <1>5, <1>c DEF LoadDisk
<1>6. ASSUME NEW a, SetBootArgs(a)  PROVE TreeSound'
  BY <1>6, <1>d DEF SetBootArgs
<1>7. ASSUME NEW n, SetHartCount(n)  PROVE TreeSound'
  <2> DEFINE m == [u \in Dram |-> Zero]
  <2>1. mem' = installDTB(m, config', board')
    BY <1>7 DEF SetHartCount
  <2>2. BuiltFor(m, board')
    BY BothInDram DEF BuiltFor, Zero
  <2> QED BY <1>a, <2>1, <2>2
<1>8. ASSUME NEW p, SmokePreset(p)  PROVE TreeSound'
  BY <1>8, <1>d DEF SmokePreset
<1>9. CASE Reset
  BY <1>9, <1>d DEF Reset
<1>10. ASSUME NEW units, NEW by \in {"poke", "pixels"}, Overwrite(units, by)  PROVE TreeSound'
  BY <1>10, <1>c DEF Overwrite
<1>11. ASSUME NEW h, Guest(h)  PROVE TreeSound'
  <2>1. UNCHANGED <<board, config>>
    BY <1>11 DEF Guest, Execute, Store, HartStart, HartStop, SysconWrite, GuestOnly
  <2>2. mem' = mem \/ \E u : mem' = [mem EXCEPT ![u] = <<"guest", 0, 0>>]
    BY <1>11 DEF Guest, Execute, Store, HartStart, HartStop, SysconWrite
  <2>3. \A v \in Dram : mem'[v] = mem[v] \/ mem'[v] = <<"guest", 0, 0>>
    BY <1>0, <2>2
  <2>4. <<"guest", 0, 0>>[1] \notin {"tree", "info"}
    OBVIOUS
  <2> QED BY <1>c, <2>1, <2>3, <2>4
<1>12. CASE UNCHANGED vars
  BY <1>12, <1>c DEF vars
<1>13. CASE Page
  BY <1>1, <1>2, <1>3, <1>4, <1>5, <1>6, <1>7, <1>8, <1>9, <1>10, <1>13
     DEF Page, Poke, ClearFramebuffer
<1> QED BY <1>11, <1>12, <1>13 DEF Next

(* The tree that fdt.go builds for a configuration of this board fits it:  *)
(* phandles are distinct, and the interrupt list of the PLIC node is in    *)
(* the order of its contexts.                                              *)
LEMMA BuiltTreeFits ==
    ASSUME NEW c, board \in 1 .. 8
    PROVE  TreeFitsBoard(BuildVirtDTBConfig(TreeConfig(c, board)))
<1> DEFINE tree == BuildVirtDTBConfig(TreeConfig(c, board))
           contexts == [k \in 0 .. 2 * board - 1 |->
                           [hart |-> k \div 2, irq |-> IF k % 2 = 0 THEN 11 ELSE 9]]
           cpus == [i \in 1 .. board |-> cpuIntcPhandle(i - 1)]
           list == [k \in 1 .. 2 * board |->
                       <<cpuIntcPhandle((k - 1) \div 2), IF k % 2 = 1 THEN 11 ELSE 9>>]
<1>1. tree.cpus = cpus /\ tree.plic = list /\ tree.nodes = SocNodes
  <2>1. TreeConfig(c, board).harts = board /\ ~(board <= 0)
    BY DEF TreeConfig
  <2> QED BY <2>1 DEF BuildVirtDTBConfig, plicInterruptsExtended, Extended
<1>2. Wires.contexts = contexts
  BY DEF Wires, Wiring
<1>3. Len(cpus) = board
  OBVIOUS
<1>4. \A i \in 1 .. board : cpus[i] = (IF i = 1 THEN 1 ELSE i + 1)
  BY DEF cpuIntcPhandle
<1>5. \A i \in 1 .. board : cpus[i] \notin {PlicPhandle, SysconPhandle}
  BY <1>4 DEF PlicPhandle, SysconPhandle
<1>6. \A i, j \in 1 .. board : cpus[i] = cpus[j] => i = j
  BY <1>4
<1>7. ListsContexts(list, cpus, contexts)
  <2>1. Cardinality(DOMAIN contexts) = 2 * board
    <3>1. 2 * board - 1 \in Int /\ 0 \in Int /\ ~(0 > 2 * board - 1)
      OBVIOUS
    <3>2. Cardinality(0 .. 2 * board - 1) = 2 * board - 1 - 0 + 1
      BY <3>1, FS_Interval
    <3> QED BY <3>2
  <2>2. Len(list) = 2 * board
    OBVIOUS
  <2>3. ASSUME NEW k \in 0 .. 2 * board - 1
        PROVE  list[k + 1] = <<cpus[contexts[k].hart + 1], contexts[k].irq>>
    <3>1. /\ k + 1 \in 1 .. 2 * board /\ (k + 1) - 1 = k
          /\ k \div 2 \in 0 .. board - 1 /\ (k \div 2) + 1 \in 1 .. board
          /\ ((k \div 2) + 1) - 1 = k \div 2
          /\ (k + 1) % 2 = 1 <=> k % 2 = 0
      OBVIOUS
    <3>2. list[k + 1] = <<cpuIntcPhandle(k \div 2), IF k % 2 = 0 THEN 11 ELSE 9>>
      BY <3>1
    <3>3. contexts[k].hart = k \div 2 /\ contexts[k].irq = IF k % 2 = 0 THEN 11 ELSE 9
      OBVIOUS
    <3>4. cpus[(k \div 2) + 1] = cpuIntcPhandle(k \div 2)
      BY <3>1
    <3> HIDE DEF list, cpus, contexts
    <3> QED BY <3>2, <3>3, <3>4
  <2>4. DOMAIN contexts = 0 .. 2 * board - 1
    OBVIOUS
  <2> HIDE DEF list, cpus, contexts
  <2> QED BY <2>1, <2>2, <2>3, <2>4 DEF ListsContexts
<1>8. \A d \in DOMAIN SocNodes : SocNodes[d].base = Wires.windows[d]
  BY DEF SocNodes, Node, Wires, Wiring
<1>9. \A d \in DOMAIN Wires.sources : SocNodes[d].irq = Wires.sources[d]
  BY DEF SocNodes, Node, Wires, Wiring
<1> HIDE DEF tree, list, cpus, contexts
<1>10. TreeFitsBoard(tree)
  BY <1>1, <1>2, <1>3, <1>5, <1>6, <1>7, <1>8, <1>9 DEF TreeFitsBoard
<1> QED BY <1>10 DEF tree

LEMMA SoundTreeDescribes == Typed /\ TreeSound => TreeDescribesMachine
<1> SUFFICES ASSUME Typed, TreeSound  PROVE TreeDescribesMachine
  OBVIOUS
<1>1. /\ ConfigOK(config) /\ board \in 1 .. 8 /\ TellsTruth(mem, config, board)
      /\ InitrdOK(config.initrd)
  BY DEF Typed, TreeSound, ConfigOK
<1>2. mem[DynamicAddr][1] = "info" => mem[DynamicAddr][2].next = config.next
  <2>1. InfoCell(config)[2].next = config.next
    BY DEF InfoCell, BuildFWDynamicInfo
  <2> QED BY <1>1, <2>1 DEF TellsTruth
<1>f. ASSUME TreeIn[1] = "tree"  PROVE TreeFitsBoard(TreeIn[2])
  <2>1. PICK c : TreeIn = GeneratedTree(c, board)
    BY <1>1, <1>f DEF TellsTruth, BuiltFor, TreeIn
  <2>2. TreeIn[2] = BuildVirtDTBConfig(TreeConfig(c, board))
    BY <2>1 DEF GeneratedTree
  <2>3. TreeFitsBoard(BuildVirtDTBConfig(TreeConfig(c, board)))
    BY <1>1, BuiltTreeFits
  <2> QED BY <2>2, <2>3
<1>3. ASSUME TreeIn[1] = "tree", ~TooLarge
      PROVE  /\ Len(config.custom) = 0
             /\ TreeIn[2].args = (IF config.args = "" THEN DefaultArgs ELSE config.args)
             /\ TreeIn[2].initrd = (IF Initrd = {} THEN <<>> ELSE config.initrd)
  <2> DEFINE tree == BuildVirtDTBConfig(TreeConfig(config, board))
  <2>1. Len(config.custom) = 0 /\ TreeIn = GeneratedTree(config, board)
    BY <1>1, <1>3 DEF TellsTruth, TreeIn, TooLarge
  <2>2. TreeIn[2] = tree
    BY <2>1 DEF GeneratedTree
  <2>4. tree.args = (IF config.args = "" THEN DefaultArgs ELSE config.args)
    BY DEF BuildVirtDTBConfig, TreeConfig
  <2>5. tree.initrd = (IF Initrd = {} THEN <<>> ELSE config.initrd)
    <3>1. tree.initrd = IF config.initrd[1] # 0 /\ config.initrd[2] > config.initrd[1]
                        THEN config.initrd ELSE <<>>
      BY DEF BuildVirtDTBConfig, TreeConfig
    <3>2. config.initrd[1] \in Nat /\ config.initrd[2] \in Nat
      BY <1>1 DEF InitrdOK
    <3>3. config.initrd[2] > config.initrd[1] => config.initrd[1] # 0
      BY <1>1, <3>2, MachineAssumption DEF InitrdOK
    <3>4. Initrd = {} <=> ~(config.initrd[2] > config.initrd[1])
      BY <3>2 DEF Initrd
    <3> HIDE DEF tree
    <3> QED BY <3>1, <3>3, <3>4
  <2> HIDE DEF tree
  <2> QED BY <2>1, <2>2, <2>4, <2>5
<1> QED BY <1>2, <1>3, <1>f DEF TreeDescribesMachine

LEMMA InitTyped == Init => Typed /\ TreeSound
<1> SUFFICES ASSUME Init  PROVE Typed /\ TreeSound
  OBVIOUS
<1>1. /\ board = 1 /\ config = NewConfig /\ harts = resetHarts(NewConfig, 1)
      /\ mem = installDTB([u \in Dram |-> Zero], NewConfig, 1)
  BY DEF Init
<1>2. ConfigOK(NewConfig)
  BY MachineAssumption DEF ConfigOK, NewConfig, InitrdOK, CustomOK
<1>3. HartsOK(harts, 1)
  BY <1>1, MachineAssumption, HartsKept DEF NewConfig
<1>4. mem = [u \in Dram |-> mem[u]]
  BY <1>1, <1>2, TreeInstalled DEF ConfigOK, CustomOK
<1>5. TellsTruth(mem, config, board)
  <2>1. BuiltFor([u \in Dram |-> Zero], 1)
    BY BothInDram DEF BuiltFor, Zero
  <2> QED BY <1>1, <1>2, <2>1, InstalledTellsTruth
<1> QED BY <1>1, <1>2, <1>3, <1>4, <1>5 DEF Typed, TreeSound

(* Whatever was loaded, typed, built and reset in whatever order, a tree    *)
(* and a fw_dynamic record found in memory are those of the configuration   *)
(* and of the board as initMachine wired it (TreeDescribesMachine).         *)
THEOREM TreeDescribes == Spec => []TreeDescribesMachine
<1>1. Init => Typed /\ TreeSound
  BY InitTyped
<1>2. Typed /\ TreeSound /\ [Next]_vars => (Typed /\ TreeSound)'
  BY TypedStep, TreeSoundStep
<1>3. Typed /\ TreeSound => TreeDescribesMachine
  BY SoundTreeDescribes
<1> QED BY <1>1, <1>2, <1>3, PTL DEF Spec

-----------------------------------------------------------------------------
(* The manifest.                                                           *)

LEMMA Recorded ==
    ASSUME NEW role, NEW data, NEW at, NEW entry, recordArtifact(role, data, at, entry)
    PROVE  /\ DOMAIN artifacts' = DOMAIN artifacts \cup {role}
           /\ artifacts'[role] = [data |-> data, at |-> at, entry |-> entry]
           /\ \A r \in DOMAIN artifacts : r # role => artifacts'[r] = artifacts[r]
BY DEF recordArtifact

LEMMA RoleListed ==
    \A role, data, at, entry : recordArtifact(role, data, at, entry) =>
       /\ role \in DOMAIN artifacts'
       /\ artifacts'[role].data = data /\ artifacts'[role].at = at
       /\ artifacts'[role].entry = entry
<1> SUFFICES ASSUME NEW role, NEW data, NEW at, NEW entry,
                    recordArtifact(role, data, at, entry)
             PROVE  /\ role \in DOMAIN artifacts'
                    /\ artifacts'[role].data = data /\ artifacts'[role].at = at
                    /\ artifacts'[role].entry = entry
  OBVIOUS
<1>1. /\ role \in DOMAIN artifacts'
      /\ artifacts'[role] = [data |-> data, at |-> at, entry |-> entry]
  BY DEF recordArtifact
<1> QED BY <1>1

(* The parts of ManifestMatchesMachine, of one role each.                  *)
FirmwareListed ==
    /\ config.entry = (IF Has("firmware") THEN artifacts["firmware"].entry ELSE FwBase)
    /\ firmwareLoaded => Has("firmware")
PayloadListed ==
    config.next = (IF Has("payload") THEN artifacts["payload"].entry ELSE PayloadAddr)
InitrdListed ==
    /\ Has("initrd") => config.initrd[1] = artifacts["initrd"].at
    /\ ~Has("initrd") => config.initrd = <<0, 0>>
TreeListed == Len(config.custom) > 0 => Has("dtb-custom")
DiskListed == disk # "none" => Has("disk") /\ disk = artifacts["disk"].data
FreshHarts ==
    \A h \in DOMAIN harts : harts[h].fresh => harts[h].boot /\ harts[h].pc = config.entry

LEMMA ManifestParts ==
    ManifestMatchesMachine <=>
        FirmwareListed /\ PayloadListed /\ InitrdListed /\ TreeListed /\ DiskListed /\ FreshHarts
BY DEF ManifestMatchesMachine, FirmwareListed, PayloadListed, InitrdListed, TreeListed,
       DiskListed, FreshHarts

(* A role of which nothing changes stays listed.                           *)
SameRole(role) ==
    /\ (role \in DOMAIN artifacts') <=> (role \in DOMAIN artifacts)
    /\ role \in DOMAIN artifacts => artifacts'[role] = artifacts[role]
LEMMA RolesKept ==
    /\ \A role, r, d, a, e : recordArtifact(r, d, a, e) /\ role # r => SameRole(role)
    /\ \A role : UNCHANGED artifacts => SameRole(role)
<1>1. ASSUME NEW role, NEW r, NEW d, NEW a, NEW e, recordArtifact(r, d, a, e), role # r
      PROVE  SameRole(role)
  BY <1>1, Recorded DEF SameRole
<1>2. ASSUME NEW role, UNCHANGED artifacts  PROVE SameRole(role)
  BY <1>2 DEF SameRole
<1> QED BY <1>1, <1>2, Zenon

LEMMA FirmwareKept ==
    ASSUME FirmwareListed, SameRole("firmware"), config'.entry = config.entry,
           firmwareLoaded' => firmwareLoaded
    PROVE  FirmwareListed'
BY DEF FirmwareListed, SameRole, Has
LEMMA PayloadKept ==
    ASSUME PayloadListed, SameRole("payload"), config'.next = config.next
    PROVE  PayloadListed'
BY DEF PayloadListed, SameRole, Has
LEMMA InitrdKept ==
    ASSUME InitrdListed, SameRole("initrd"), config'.initrd = config.initrd
    PROVE  InitrdListed'
BY DEF InitrdListed, SameRole, Has
LEMMA TreeKept ==
    ASSUME TreeListed, SameRole("dtb-custom"), config'.custom = config.custom
    PROVE  TreeListed'
BY DEF TreeListed, SameRole, Has
LEMMA DiskKept ==
    ASSUME DiskListed, SameRole("disk"), disk' = disk
    PROVE  DiskListed'
BY DEF DiskListed, SameRole, Has

LEMMA FreshKept ==
    ASSUME FreshHarts, config'.entry = config.entry,
           harts' = harts \/ harts' = refreshBootRegs(harts)
    PROVE  FreshHarts'
<1>1. CASE harts' = harts
  BY <1>1 DEF FreshHarts
<1>2. CASE harts' = refreshBootRegs(harts)
  <2>0. DOMAIN harts' = DOMAIN harts
    BY <1>2 DEF refreshBootRegs
  <2>1. ASSUME NEW h \in DOMAIN harts, harts'[h].fresh
        PROVE  harts'[h].boot /\ harts'[h].pc = config.entry
    <3>1. harts'[h] = [harts[h] EXCEPT !.boot = TRUE]
      BY <1>2 DEF refreshBootRegs
    <3> QED BY <2>1, <3>1 DEF FreshHarts
  <2> QED BY <2>0, <2>1 DEF FreshHarts
<1> QED BY <1>1, <1>2

LEMMA FreshReset ==
    ASSUME NEW n, harts' = resetHarts(config', n)
    PROVE  FreshHarts'
BY DEF FreshHarts, resetHarts, ResetHart

LEMMA ManifestStep ==
    Typed /\ ManifestMatchesMachine /\ [Next]_vars => ManifestMatchesMachine'
<1> SUFFICES ASSUME Typed, ManifestMatchesMachine, [Next]_vars
             PROVE  ManifestMatchesMachine'
  OBVIOUS
<1>0. /\ FirmwareListed /\ PayloadListed /\ InitrdListed /\ TreeListed /\ DiskListed
      /\ FreshHarts /\ ConfigOK(config)
  BY ManifestParts DEF Typed
<1>a. ASSUME FirmwareListed', PayloadListed', InitrdListed', TreeListed', DiskListed', FreshHarts'
      PROVE  ManifestMatchesMachine'
  BY <1>a DEF ManifestMatchesMachine, FirmwareListed, PayloadListed, InitrdListed,
              TreeListed, DiskListed, FreshHarts
<1>b. ASSUME UNCHANGED <<config, artifacts, disk, firmwareLoaded>>, FreshHarts'
      PROVE  ManifestMatchesMachine'
  <2>1. \A role : SameRole(role)
    BY <1>b, RolesKept
  <2> QED BY <1>0, <1>a, <1>b, <2>1, FirmwareKept, PayloadKept, InitrdKept, TreeKept, DiskKept
<1>1. ASSUME NEW img, NEW a, LoadFirmware(img, a)  PROVE ManifestMatchesMachine'
  <2> DEFINE r == LoadELFOrRaw(mem, a, img)
             c == [config EXCEPT !.entry = r.entry]
  <2>1. CASE /\ config' = c /\ firmwareLoaded' = TRUE /\ disk' = disk
             /\ recordArtifact("firmware", img.id, a, r.entry) /\ harts' = resetHarts(c, board)
    <3>1. /\ c.entry = r.entry /\ c.next = config.next /\ c.initrd = config.initrd
          /\ c.custom = config.custom
      BY <1>0 DEF ConfigOK
    <3> HIDE DEF c, r
    <3>2. /\ SameRole("payload") /\ SameRole("initrd") /\ SameRole("dtb-custom")
          /\ SameRole("disk")
      BY <2>1, RolesKept
    <3>3. FirmwareListed'
      <4>1. Has("firmware")' /\ artifacts'["firmware"].entry = r.entry
        BY <2>1, RoleListed, Zenon DEF Has
      <4> QED BY <2>1, <3>1, <4>1 DEF FirmwareListed
    <3>4. FreshHarts'
      BY <2>1, FreshReset
    <3> QED BY <1>0, <1>a, <2>1, <3>1, <3>2, <3>3, <3>4,
               PayloadKept, InitrdKept, TreeKept, DiskKept
  <2>2. CASE UNCHANGED <<config, firmwareLoaded, artifacts, harts, disk>>
    BY <1>0, <1>b, <2>2, FreshKept
  <2> QED BY <1>1, <2>1, <2>2 DEF LoadFirmware
<1>2. ASSUME NEW img, NEW a, LoadPayload(img, a)  PROVE ManifestMatchesMachine'
  <2> DEFINE r == LoadELFOrRaw(mem, a, img)
             c == [config EXCEPT !.next = r.entry]
  <2>1. CASE /\ config' = c /\ UNCHANGED <<firmwareLoaded, disk>>
             /\ recordArtifact("payload", img.id, a, r.entry)
             /\ harts' = refreshBootRegs(harts)
    <3>1. /\ c.next = r.entry /\ c.entry = config.entry /\ c.initrd = config.initrd
          /\ c.custom = config.custom
      BY <1>0 DEF ConfigOK
    <3> HIDE DEF c, r
    <3>2. /\ SameRole("firmware") /\ SameRole("initrd") /\ SameRole("dtb-custom")
          /\ SameRole("disk")
      BY <2>1, RolesKept
    <3>3. PayloadListed'
      <4>1. Has("payload")' /\ artifacts'["payload"].entry = r.entry
        BY <2>1, RoleListed, Zenon DEF Has
      <4> QED BY <2>1, <3>1, <4>1 DEF PayloadListed
    <3>4. FreshHarts'
      BY <1>0, <2>1, <3>1, FreshKept
    <3> QED BY <1>0, <1>a, <2>1, <3>1, <3>2, <3>3, <3>4,
               FirmwareKept, InitrdKept, TreeKept, DiskKept
  <2>2. CASE UNCHANGED <<config, firmwareLoaded, artifacts, harts, disk>>
    BY <1>0, <1>b, <2>2, FreshKept
  <2> QED BY <1>2, <2>1, <2>2 DEF LoadPayload
<1>3. ASSUME NEW img, NEW a, LoadInitrd(img, a)  PROVE ManifestMatchesMachine'
  <2> DEFINE c == [config EXCEPT !.initrd = <<a, a + img.len>>]
  <2>1. /\ config' = c /\ UNCHANGED <<firmwareLoaded, disk>>
        /\ recordArtifact("initrd", img.id, a, 0) /\ harts' = refreshBootRegs(harts)
    BY <1>3 DEF LoadInitrd
  <2>2. /\ c.initrd[1] = a /\ c.entry = config.entry /\ c.next = config.next
        /\ c.custom = config.custom
    BY <1>0 DEF ConfigOK
  <2> HIDE DEF c
  <2>3. /\ SameRole("firmware") /\ SameRole("payload") /\ SameRole("dtb-custom")
        /\ SameRole("disk")
    BY <2>1, RolesKept
  <2>4. InitrdListed'
    <3>1. Has("initrd")' /\ artifacts'["initrd"].at = a
      BY <2>1, RoleListed, Zenon DEF Has
    <3> QED BY <2>1, <2>2, <3>1 DEF InitrdListed
  <2>5. FreshHarts'
    BY <1>0, <2>1, <2>2, FreshKept
  <2> QED BY <1>0, <1>a, <2>1, <2>2, <2>3, <2>4, <2>5,
             FirmwareKept, PayloadKept, TreeKept, DiskKept
<1>4. ASSUME NEW img, LoadDTB(img)  PROVE ManifestMatchesMachine'
  <2> DEFINE c == [config EXCEPT !.custom = Cells(img)]
  <2>1. /\ config' = c /\ UNCHANGED <<firmwareLoaded, disk>>
        /\ recordArtifact("dtb-custom", img.id, DtbAddr, 0) /\ harts' = refreshBootRegs(harts)
    BY <1>4 DEF LoadDTB
  <2>2. c.entry = config.entry /\ c.next = config.next /\ c.initrd = config.initrd
    BY <1>0 DEF ConfigOK
  <2> HIDE DEF c
  <2>3. /\ SameRole("firmware") /\ SameRole("payload") /\ SameRole("initrd")
        /\ SameRole("disk")
    BY <2>1, RolesKept
  <2>4. TreeListed'
    BY <2>1, Recorded DEF TreeListed, Has
  <2>5. FreshHarts'
    BY <1>0, <2>1, <2>2, FreshKept
  <2> QED BY <1>0, <1>a, <2>1, <2>2, <2>3, <2>4, <2>5,
             FirmwareKept, PayloadKept, InitrdKept, DiskKept
<1>5. ASSUME NEW d, LoadDisk(d)  PROVE ManifestMatchesMachine'
  <2>1. /\ disk' = d /\ recordArtifact("disk", d, 0, 0)
        /\ UNCHANGED <<harts, config, firmwareLoaded>>
    BY <1>5 DEF LoadDisk
  <2>2. /\ SameRole("firmware") /\ SameRole("payload") /\ SameRole("initrd")
        /\ SameRole("dtb-custom")
    BY <2>1, RolesKept
  <2>3. DiskListed'
    <3>1. Has("disk")' /\ artifacts'["disk"].data = d
      BY <2>1, RoleListed, Zenon DEF Has
    <3> QED BY <2>1, <3>1 DEF DiskListed
  <2> QED BY <1>0, <1>a, <2>1, <2>2, <2>3,
             FirmwareKept, PayloadKept, InitrdKept, TreeKept, FreshKept
<1>c. ASSUME NEW a, config' = [config EXCEPT !.args = a] \/ config' = config,
             UNCHANGED artifacts, firmwareLoaded' => firmwareLoaded, DiskListed', FreshHarts'
      PROVE  ManifestMatchesMachine'
  <2>1. /\ config'.entry = config.entry /\ config'.next = config.next
        /\ config'.initrd = config.initrd /\ config'.custom = config.custom
    BY <1>0, <1>c DEF ConfigOK
  <2>2. \A role : SameRole(role)
    BY <1>c, RolesKept
  <2> QED BY <1>0, <1>a, <1>c, <2>1, <2>2, FirmwareKept, PayloadKept, InitrdKept, TreeKept
<1>6. ASSUME NEW a, SetBootArgs(a)  PROVE ManifestMatchesMachine'
  <2>1. /\ config' = [config EXCEPT !.args = a] /\ harts' = refreshBootRegs(harts)
        /\ UNCHANGED <<artifacts, disk, firmwareLoaded>>
    BY <1>6 DEF SetBootArgs
  <2>2. config'.entry = config.entry
    BY <1>0, <2>1 DEF ConfigOK
  <2>3. FreshHarts'
    BY <1>0, <2>1, <2>2, FreshKept
  <2>4. DiskListed'
    BY <1>0, <2>1 DEF DiskListed, Has
  <2> QED BY <1>c, <2>1, <2>3, <2>4
<1>7. ASSUME NEW n, SetHartCount(n)  PROVE ManifestMatchesMachine'
  <2>1. /\ config' = config /\ harts' = resetHarts(config, n) /\ disk' = "none"
        /\ firmwareLoaded' = FALSE /\ UNCHANGED artifacts
    BY <1>7 DEF SetHartCount
  <2>2. FreshHarts' /\ DiskListed'
    BY <2>1, FreshReset DEF DiskListed
  <2> QED BY <1>c, <2>1, <2>2
<1>8. ASSUME NEW p, SmokePreset(p)  PROVE ManifestMatchesMachine'
  <2> DEFINE c == IF PresetArgs[p] = "" THEN config ELSE [config EXCEPT !.args = PresetArgs[p]]
  <2>1. /\ config' = c /\ harts' = resetHarts(c, board)
        /\ UNCHANGED <<artifacts, disk, firmwareLoaded>>
    BY <1>8 DEF SmokePreset
  <2>2. c = config \/ c = [config EXCEPT !.args = PresetArgs[p]]
    OBVIOUS
  <2> HIDE DEF c
  <2>3. FreshHarts' /\ DiskListed'
    BY <1>0, <2>1, FreshReset DEF DiskListed, Has
  <2> QED BY <1>c, <2>1, <2>2, <2>3
<1>9. CASE Reset
  BY <1>9, <1>b, FreshReset DEF Reset
<1>10. ASSUME NEW units, NEW by, Overwrite(units, by)  PROVE ManifestMatchesMachine'
  BY <1>0, <1>10, <1>b, FreshKept DEF Overwrite
<1>11. ASSUME NEW h, Guest(h)  PROVE ManifestMatchesMachine'
  <2>1. UNCHANGED <<board, config, artifacts, disk, firmwareLoaded>>
    BY <1>11 DEF Guest, Execute, Store, HartStart, HartStop, SysconWrite, GuestOnly
  <2>2. HartsOK(harts, board)
    BY DEF Typed
  <2>3. FreshHarts'
    <3> SUFFICES ASSUME NEW k \in DOMAIN harts', harts'[k].fresh
                 PROVE  harts'[k].boot /\ harts'[k].pc = config.entry
      BY <2>1 DEF FreshHarts
    <3>0. /\ \A k0 \in DOMAIN harts : harts[k0].fresh => harts[k0].boot /\ harts[k0].pc = config.entry
          /\ \A k0 \in DOMAIN harts : harts[k0] \in [pc : Nat, boot : BOOLEAN, fresh : BOOLEAN, halted : BOOLEAN]
      BY <1>0, <2>2 DEF FreshHarts, HartsOK
    <3>1. CASE Execute(h)
      <4>1. k \in DOMAIN harts /\ harts'[k] = (IF k = h THEN Gone(harts[h]) ELSE harts[k])
        BY <2>2, <3>1 DEF Execute, Alive, HartsOK
      <4>2. h \in DOMAIN harts => ~Gone(harts[h]).fresh
        BY <3>0 DEF Gone
      <4> QED BY <3>0, <4>1, <4>2
    <3>2. CASE HartStop(h)
      <4>1. k \in DOMAIN harts /\ h \in DOMAIN harts
            /\ harts'[k] = (IF k = h THEN [harts[h] EXCEPT !.halted = TRUE] ELSE harts[k])
        BY <2>2, <3>2 DEF HartStop, Alive, HartsOK
      <4>2. ~harts[h].fresh /\ [harts[h] EXCEPT !.halted = TRUE].fresh = harts[h].fresh
        BY <3>0, <3>2, <4>1 DEF HartStop
      <4> QED BY <3>0, <4>1, <4>2
    <3>3. ASSUME NEW u, Store(h, u)
          PROVE  harts'[k].boot /\ harts'[k].pc = config.entry
      BY <3>0, <3>3 DEF Store
    <3>4. ASSUME NEW t, HartStart(h, t)
          PROVE  harts'[k].boot /\ harts'[k].pc = config.entry
      <4>1. /\ k \in DOMAIN harts /\ t \in DOMAIN harts
            /\ harts'[k] = (IF k = t THEN [Gone(harts[t]) EXCEPT !.halted = FALSE] ELSE harts[k])
        BY <2>2, <3>4 DEF HartStart, HartsOK
      <4>2. ~[Gone(harts[t]) EXCEPT !.halted = FALSE].fresh
        BY <3>0, <4>1 DEF Gone
      <4> QED BY <3>0, <4>1, <4>2
    <3>5. ASSUME NEW value, SysconWrite(h, value)
          PROVE  harts'[k].boot /\ harts'[k].pc = config.entry
      <4>1. CASE harts' = haltAllHarts(harts)
        <5>1. k \in DOMAIN harts /\ harts'[k] = [harts[k] EXCEPT !.halted = TRUE]
          BY <4>1 DEF haltAllHarts
        <5>2. /\ harts'[k].fresh = harts[k].fresh /\ harts'[k].boot = harts[k].boot
              /\ harts'[k].pc = harts[k].pc
          BY <3>0, <5>1
        <5> QED BY <3>0, <5>1, <5>2
      <4>2. CASE harts' = resetHarts(config, board)
        BY <4>2 DEF resetHarts, ResetHart
      <4> QED BY <3>5, <4>1, <4>2 DEF SysconWrite
    <3> QED BY <1>11, <3>1, <3>2, <3>3, <3>4, <3>5 DEF Guest
  <2> QED BY <1>b, <2>1, <2>3
<1>12. CASE UNCHANGED vars
  BY <1>0, <1>12, <1>b, FreshKept DEF vars
<1>13. CASE Page
  BY <1>1, <1>2, <1>3, <1>4, <1>5, <1>6, <1>7, <1>8, <1>9, <1>10, <1>13
     DEF Page, Poke, ClearFramebuffer
<1> QED BY <1>11, <1>12, <1>13 DEF Next

LEMMA InitManifest == Init => ManifestMatchesMachine
<1> SUFFICES ASSUME Init  PROVE ManifestMatchesMachine
  OBVIOUS
<1>1. /\ config = NewConfig /\ harts = resetHarts(NewConfig, 1) /\ artifacts = <<>>
      /\ disk = "none" /\ firmwareLoaded = FALSE
  BY DEF Init
<1>2. \A role \in {"firmware", "payload", "initrd", "disk"} : ~Has(role)
  BY <1>1 DEF Has
<1>3. FreshHarts
  BY <1>1 DEF FreshHarts, resetHarts, ResetHart
<1>4. FirmwareListed /\ PayloadListed /\ InitrdListed
  BY <1>1, <1>2 DEF FirmwareListed, PayloadListed, InitrdListed, NewConfig
<1>5. TreeListed /\ DiskListed
  BY <1>1 DEF TreeListed, DiskListed, NewConfig
<1> QED BY <1>3, <1>4, <1>5, ManifestParts

(* What the manifest says of a role is what the machine was set up with by *)
(* the last load of that role that succeeded, and a hart that has not run  *)
(* since its reset is at that firmware's entry (ManifestMatchesMachine).   *)
THEOREM ManifestMatches == Spec => []ManifestMatchesMachine
<1>1. Init => Typed /\ ManifestMatchesMachine
  BY InitTyped, InitManifest
<1>2. Typed /\ ManifestMatchesMachine /\ [Next]_vars => (Typed /\ ManifestMatchesMachine)'
  BY TypedStep, ManifestStep
<1> QED BY <1>1, <1>2, PTL DEF Spec

-----------------------------------------------------------------------------
(* The initrd.                                                             *)

(* A cell that may lie where an initrd was: not the tree's, nor the        *)
(* record's.                                                               *)
Spoilt(cell) ==
    \/ cell[1] \in {"guest", "poke", "pixels", "bss"}
    \/ cell[1] = "image" /\ \E img \in Firmware \cup Payloads : img.id = cell[2]

(* A step that keeps the initrd announced, and of what lies below the      *)
(* reserved area changes only what may be overwritten, keeps it intact.    *)
LEMMA StaysIntact ==
    ASSUME Typed, ManifestMatchesMachine, InitrdIntact, config'.initrd = config.initrd,
           Has("initrd") => artifacts'["initrd"] = artifacts["initrd"],
           rebuilt' = rebuilt,
           \A u \in Dram : u < DtbAddr - HighArea => mem'[u] = mem[u] \/ Spoilt(mem'[u])
    PROVE  InitrdIntact'
<1>1. InitrdOK(config.initrd)
  BY DEF Typed, ConfigOK
<1>2. ~Has("initrd") => config.initrd = <<0, 0>>
  BY DEF ManifestMatchesMachine
<1>3. Initrd' = Initrd
  BY DEF Initrd
<1>4. ASSUME NEW u \in Initrd, ~(rebuilt' /\ mem'[u] = Zero)
      PROVE  \/ mem'[u] = <<"image", artifacts'["initrd"].data, u - config.initrd[1] + 1>>
             \/ mem'[u][1] \in {"guest", "poke", "pixels", "bss"}
             \/ mem'[u][1] = "image" /\ \E img \in Firmware \cup Payloads : img.id = mem'[u][2]
  <2>1. config.initrd[1] \in Nat /\ config.initrd[2] \in Nat
    BY <1>1 DEF InitrdOK
  <2>2. u \in config.initrd[1] .. config.initrd[2] - 1
    BY <1>4 DEF Initrd
  <2>3. config.initrd # <<0, 0>>
    BY <2>1, <2>2
  <2>4. DramBase <= config.initrd[1] /\ config.initrd[2] <= DtbAddr - HighArea
    BY <1>1, <2>3 DEF InitrdOK
  <2>5. u \in Dram /\ u < DtbAddr - HighArea
    BY <2>1, <2>2, <2>4, MachineAssumption DEF Dram
  <2>6. mem'[u] = mem[u] \/ Spoilt(mem'[u])
    BY <2>5
  <2>7. \/ mem[u] = <<"image", artifacts["initrd"].data, u - config.initrd[1] + 1>>
        \/ Spoilt(mem[u])
        \/ rebuilt /\ mem[u] = Zero
    BY <1>4 DEF InitrdIntact, Spoilt
  <2>8. artifacts'["initrd"] = artifacts["initrd"]
    BY <1>2, <2>3
  <2>9. Spoilt(mem'[u]) => \/ mem'[u][1] \in {"guest", "poke", "pixels", "bss"}
                           \/ /\ mem'[u][1] = "image"
                              /\ \E img \in Firmware \cup Payloads : img.id = mem'[u][2]
    BY DEF Spoilt
  <2>10. CASE Spoilt(mem'[u])
    BY <2>9, <2>10
  <2>11. CASE mem'[u] = mem[u]
    <3>1. Spoilt(mem[u]) => Spoilt(mem'[u])
      BY <2>11
    <3>2. CASE Spoilt(mem[u])
      BY <2>9, <3>1, <3>2
    <3>3. CASE mem[u] = <<"image", artifacts["initrd"].data, u - config.initrd[1] + 1>>
      <4>1. mem'[u] = <<"image", artifacts'["initrd"].data, u - config.initrd[1] + 1>>
        BY <2>8, <2>11, <3>3, Zenon
      <4> QED BY <4>1
    <3> QED BY <1>4, <2>7, <2>11, <3>2, <3>3
  <2> QED BY <2>6, <2>10, <2>11
<1> QED BY <1>3, <1>4 DEF InitrdIntact

LEMMA IntactStep ==
    Typed /\ ManifestMatchesMachine /\ InitrdIntact /\ [Next]_vars => InitrdIntact'
<1> SUFFICES ASSUME Typed, ManifestMatchesMachine, InitrdIntact, [Next]_vars
             PROVE  InitrdIntact'
  OBVIOUS
<1>0. /\ mem = [u \in Dram |-> mem[u]] /\ ConfigOK(config) /\ config.next \in Nat
  BY DEF Typed, ConfigOK
<1>00. \A u \in Dram : u < DtbAddr - HighArea => u < DtbAddr /\ u # DynamicAddr
  BY MachineAssumption DEF Dram
<1>a. ASSUME NEW m, NEW n, mem' = installDTB(m, config', n), ConfigOK(config'),
             NEW u \in Dram, u < DtbAddr - HighArea
      PROVE  mem'[u] = m[u]
  <2>1. Len(config'.custom) \in Nat
    BY <1>a DEF ConfigOK, CustomOK
  <2> DEFINE c == config'
  <2> HIDE DEF c
  <2>2. Len(c.custom) \in Nat => installDTB(m, c, n)[u] = m[u]
    BY <1>00, <1>a, TreeInstalled
  <2> QED BY <1>a, <2>1, <2>2 DEF c
<1>aa. ConfigOK(config')
  <2>1. Typed'
    BY TypedStep
  <2> QED BY <2>1 DEF Typed, ConfigOK, InitrdOK, CustomOK
<1>b. ASSUME NEW img \in Firmware \cup Payloads, NEW f \in Overlaid(mem, img.id), NEW u \in Dram
      PROVE  f[u] = mem[u] \/ Spoilt(f[u])
  <2>1. f[u] = mem[u] \/ f[u] \in Laid(img.id)
    BY <1>b DEF Overlaid
  <2>2. ASSUME NEW k \in Nat, f[u] = <<"image", img.id, k>>  PROVE Spoilt(f[u])
    <3>1. f[u][1] = "image" /\ f[u][2] = img.id
      BY <2>2
    <3> QED BY <1>b, <3>1 DEF Spoilt
  <2>3. ASSUME f[u] = <<"bss", img.id, 0>>  PROVE Spoilt(f[u])
    <3>1. f[u][1] = "bss"
      BY <2>3
    <3> QED BY <3>1 DEF Spoilt
  <2> QED BY <2>1, <2>2, <2>3 DEF Laid
<1>c. ASSUME NEW role, NEW d, NEW at, NEW e, recordArtifact(role, d, at, e), role # "initrd"
      PROVE  Has("initrd") => artifacts'["initrd"] = artifacts["initrd"]
  BY <1>c DEF recordArtifact, Has
<1>1. ASSUME NEW img \in Firmware, NEW a \in LoadAddrs \cup {FwBase}, LoadFirmware(img, a)
      PROVE  InitrdIntact'
  <2> DEFINE r == LoadELFOrRaw(mem, a, img)
             c == [config EXCEPT !.entry = r.entry]
  <2>1. a \in Nat /\ IsImage(img)
    BY MachineAssumption
  <2>2. r.mem \in Overlaid(mem, img.id)
    BY <1>0, <2>1, ImageOverlays
  <2>3. c.initrd = config.initrd
    BY <1>0 DEF ConfigOK
  <2>4. /\ rebuilt' = rebuilt
        /\ \/ /\ config' = c /\ mem' = installDTB(r.mem, config', board)
              /\ recordArtifact("firmware", img.id, a, r.entry)
           \/ mem' = r.mem /\ UNCHANGED <<config, artifacts>>
    BY <1>1 DEF LoadFirmware
  <2> HIDE DEF c, r
  <2>5. config'.initrd = config.initrd
    BY <2>3, <2>4
  <2>6. \A u \in Dram : u < DtbAddr - HighArea => mem'[u] = r.mem[u]
    BY <1>a, <1>aa, <2>4
  <2>7. \A u \in Dram : r.mem[u] = mem[u] \/ Spoilt(r.mem[u])
    BY <1>b, <2>2
  <2>8. \A u \in Dram : u < DtbAddr - HighArea => mem'[u] = mem[u] \/ Spoilt(mem'[u])
    BY <2>6, <2>7
  <2>9. Has("initrd") => artifacts'["initrd"] = artifacts["initrd"]
    BY <1>c, <2>4
  <2> QED BY <2>4, <2>5, <2>8, <2>9, StaysIntact
<1>2. ASSUME NEW img \in Payloads, NEW a \in LoadAddrs \cup {config.next}, LoadPayload(img, a)
      PROVE  InitrdIntact'
  <2> DEFINE r == LoadELFOrRaw(mem, a, img)
             c == [config EXCEPT !.next = r.entry]
  <2>1. a \in Nat /\ IsImage(img)
    BY <1>0, MachineAssumption
  <2>2. r.mem \in Overlaid(mem, img.id)
    BY <1>0, <2>1, ImageOverlays
  <2>3. c.initrd = config.initrd
    BY <1>0 DEF ConfigOK
  <2>4. /\ rebuilt' = rebuilt
        /\ \/ /\ config' = c /\ mem' = installDynamicInfo(r.mem, c)
              /\ recordArtifact("payload", img.id, a, r.entry)
           \/ mem' = r.mem /\ UNCHANGED <<config, artifacts>>
    BY <1>2 DEF LoadPayload
  <2> HIDE DEF c, r
  <2>5. config'.initrd = config.initrd
    BY <2>3, <2>4
  <2>6. \A u \in Dram : u < DtbAddr - HighArea => mem'[u] = r.mem[u]
    BY <1>00, <2>4, InfoInstalled
  <2>7. \A u \in Dram : r.mem[u] = mem[u] \/ Spoilt(r.mem[u])
    BY <1>b, <2>2
  <2>8. \A u \in Dram : u < DtbAddr - HighArea => mem'[u] = mem[u] \/ Spoilt(mem'[u])
    BY <2>6, <2>7
  <2>9. Has("initrd") => artifacts'["initrd"] = artifacts["initrd"]
    BY <1>c, <2>4
  <2> QED BY <2>4, <2>5, <2>8, <2>9, StaysIntact
<1>3. ASSUME NEW img \in Initrds, NEW a \in LoadAddrs \cup {InitrdAddr}, LoadInitrd(img, a)
      PROVE  InitrdIntact'
  <2> DEFINE s == Load([ok |-> TRUE, mem |-> mem], a, Cells(img))
             c == [config EXCEPT !.initrd = <<a, a + img.len>>]
  <2>1. a \in Nat /\ img.len \in Nat
    BY MachineAssumption
  <2>2. /\ InitrdFits(a, img.len) /\ s.ok
        /\ config' = c /\ mem' = installDTB(s.mem, config', board)
        /\ recordArtifact("initrd", img.id, a, 0)
    BY <1>3 DEF LoadInitrd
  <2>3. /\ DramBase <= a /\ a + img.len <= DtbAddr - HighArea
        /\ s.mem = [u \in Dram |-> IF u >= a /\ u < a + img.len
                                   THEN <<"image", img.id, u - a + 1>> ELSE mem[u]]
    BY <2>1, <2>2, InitrdAccepted
  <2>33. DramBase <= a /\ a + img.len <= DtbAddr - HighArea
    BY <2>3
  <2>4. c.initrd = <<a, a + img.len>>
    BY <1>0 DEF ConfigOK
  <2>5. artifacts'["initrd"].data = img.id
    BY <2>2, RoleListed, Zenon
  <2> HIDE DEF c, s
  <2>6. config'.initrd[1] = a /\ config'.initrd[2] = a + img.len
    BY <2>2, <2>4
  <2>7. ASSUME NEW u \in a .. a + img.len - 1
        PROVE  mem'[u] = <<"image", img.id, u - a + 1>>
    <3>1. u \in Dram /\ u < DtbAddr - HighArea /\ u >= a /\ u < a + img.len
      BY <2>1, <2>33, MachineAssumption DEF Dram
    <3>2. mem'[u] = s.mem[u]
      BY <1>a, <1>aa, <2>2, <3>1
    <3>3. s.mem[u] = <<"image", img.id, u - a + 1>>
      BY <2>3, <3>1
    <3> QED BY <3>2, <3>3
  <2>8. Initrd' = a .. a + img.len - 1
    <3>1. Initrd' = config'.initrd[1] .. config'.initrd[2] - 1
      BY DEF Initrd
    <3> QED BY <2>1, <2>6, <3>1
  <2>9. \A u \in a .. a + img.len - 1 :
           mem'[u] = <<"image", artifacts'["initrd"].data, u - config'.initrd[1] + 1>>
    BY <2>5, <2>6, <2>7, Zenon
  <2> QED BY <2>8, <2>9 DEF InitrdIntact
<1>d. ASSUME config'.initrd = config.initrd, UNCHANGED artifacts, rebuilt' = rebuilt,
             NEW n, mem' = installDTB(mem, config', n)
      PROVE  InitrdIntact'
  <2>1. \A u \in Dram : u < DtbAddr - HighArea => mem'[u] = mem[u]
    BY <1>a, <1>aa, <1>d
  <2> QED BY <1>d, <2>1, StaysIntact
<1>4. ASSUME NEW img, LoadDTB(img)  PROVE InitrdIntact'
  <2> DEFINE c == [config EXCEPT !.custom = Cells(img)]
  <2>1. /\ config' = c /\ mem' = installDTB(mem, config', board) /\ rebuilt' = rebuilt
        /\ recordArtifact("dtb-custom", img.id, DtbAddr, 0)
    BY <1>4 DEF LoadDTB
  <2>2. c.initrd = config.initrd
    BY <1>0 DEF ConfigOK
  <2> HIDE DEF c
  <2>3. \A u \in Dram : u < DtbAddr - HighArea => mem'[u] = mem[u]
    BY <1>a, <1>aa, <2>1
  <2>4. Has("initrd") => artifacts'["initrd"] = artifacts["initrd"]
    BY <1>c, <2>1
  <2> QED BY <2>1, <2>2, <2>3, <2>4, StaysIntact
<1>5. ASSUME NEW d, LoadDisk(d)  PROVE InitrdIntact'
  <2>1. UNCHANGED <<mem, config, rebuilt>> /\ recordArtifact("disk", d, 0, 0)
    BY <1>5 DEF LoadDisk
  <2>2. Has("initrd") => artifacts'["initrd"] = artifacts["initrd"]
    BY <1>c, <2>1
  <2> QED BY <2>1, <2>2, StaysIntact
<1>6. ASSUME NEW a, SetBootArgs(a)  PROVE InitrdIntact'
  <2>1. config'.initrd = config.initrd
    BY <1>0, <1>6 DEF SetBootArgs, ConfigOK
  <2>2. UNCHANGED <<artifacts, rebuilt>> /\ mem' = installDTB(mem, config', board)
    BY <1>6 DEF SetBootArgs
  <2> QED BY <1>d, <2>1, <2>2
<1>7. ASSUME NEW n, SetHartCount(n)  PROVE InitrdIntact'
  <2> DEFINE m == [u \in Dram |-> Zero]
  <2>1. mem' = installDTB(m, config', n) /\ rebuilt' /\ UNCHANGED <<config, artifacts>>
    BY <1>7 DEF SetHartCount
  <2>2. ASSUME NEW u \in Initrd'  PROVE mem'[u] = Zero
    <3>1. InitrdOK(config.initrd)
      BY DEF Typed, ConfigOK
    <3>2. config.initrd[1] \in Nat /\ config.initrd[2] \in Nat
      BY <3>1 DEF InitrdOK
    <3>3. u \in config.initrd[1] .. config.initrd[2] - 1
      BY <2>1, <2>2 DEF Initrd
    <3>4. config.initrd # <<0, 0>>
      BY <3>2, <3>3
    <3>5. DramBase <= config.initrd[1] /\ config.initrd[2] <= DtbAddr - HighArea
      BY <3>1, <3>4 DEF InitrdOK
    <3>6. u \in Dram /\ u < DtbAddr - HighArea
      BY <3>2, <3>3, <3>5, MachineAssumption DEF Dram
    <3>7. mem'[u] = m[u]
      BY <1>a, <1>aa, <2>1, <3>6
    <3> QED BY <3>6, <3>7
  <2> QED BY <2>1, <2>2 DEF InitrdIntact
<1>8. ASSUME NEW p, SmokePreset(p)  PROVE InitrdIntact'
  <2>1. config'.initrd = config.initrd
    BY <1>0, <1>8 DEF SmokePreset, ConfigOK
  <2>2. UNCHANGED <<artifacts, rebuilt>> /\ mem' = installDTB(mem, config', board)
    BY <1>8 DEF SmokePreset
  <2> QED BY <1>d, <2>1, <2>2
<1>9. CASE Reset
  BY <1>9, <1>d DEF Reset
<1>10. ASSUME NEW units, NEW by \in {"poke", "pixels"}, Overwrite(units, by)
       PROVE  InitrdIntact'
  <2>1. /\ UNCHANGED <<config, artifacts, rebuilt>>
        /\ \A u \in Dram : mem'[u] = mem[u] \/ mem'[u][1] = by
    BY <1>10 DEF Overwrite
  <2>2. \A u \in Dram : mem'[u] = mem[u] \/ Spoilt(mem'[u])
    BY <2>1 DEF Spoilt
  <2> QED BY <2>1, <2>2, StaysIntact
<1>11. ASSUME NEW h, Guest(h)  PROVE InitrdIntact'
  <2>1. UNCHANGED <<config, artifacts, rebuilt>>
    BY <1>11 DEF Guest, Execute, Store, HartStart, HartStop, SysconWrite, GuestOnly
  <2>2. mem' = mem \/ \E u : mem' = [mem EXCEPT ![u] = <<"guest", 0, 0>>]
    BY <1>11 DEF Guest, Execute, Store, HartStart, HartStop, SysconWrite
  <2>3. \A v \in Dram : mem'[v] = mem[v] \/ mem'[v] = <<"guest", 0, 0>>
    BY <1>0, <2>2
  <2>4. <<"guest", 0, 0>>[1] = "guest"
    OBVIOUS
  <2>5. Spoilt(<<"guest", 0, 0>>)
    BY <2>4 DEF Spoilt
  <2>6. \A v \in Dram : mem'[v] = mem[v] \/ Spoilt(mem'[v])
    BY <2>3, <2>5
  <2> QED BY <2>1, <2>6, StaysIntact
<1>12. CASE UNCHANGED vars
  BY <1>12, StaysIntact DEF vars
<1>13. CASE Page
  BY <1>1, <1>2, <1>3, <1>4, <1>5, <1>6, <1>7, <1>8, <1>9, <1>10, <1>13
     DEF Page, Poke, ClearFramebuffer
<1> QED BY <1>11, <1>12, <1>13 DEF Next

(* An initrd the tree announces is in memory, whole, but for what the      *)
(* guest, the editor, the display or a later image wrote over it: neither  *)
(* the tree nor the record ever do (InitrdIntact).                         *)
THEOREM InitrdStaysIntact == Spec => []InitrdIntact
<1>1. Init => Typed /\ ManifestMatchesMachine /\ InitrdIntact
  <2>1. Init => Initrd = {}
    BY DEF Init, NewConfig, Initrd
  <2>2. Init => InitrdIntact
    BY <2>1 DEF InitrdIntact
  <2> QED BY <2>2, InitTyped, InitManifest
<1>2. Typed /\ ManifestMatchesMachine /\ InitrdIntact /\ [Next]_vars
        => (Typed /\ ManifestMatchesMachine /\ InitrdIntact)'
  BY TypedStep, ManifestStep, IntactStep
<1> QED BY <1>1, <1>2, PTL DEF Spec

-----------------------------------------------------------------------------
(* Restarts.                                                               *)

LEMMA InstalledComplete ==
    ASSUME ConfigOK(config'), NEW m, mem' = installDTB(m, config', board'),
           harts' = resetHarts(config', board')
    PROVE  /\ harts' = resetHarts(config', board')
           /\ InfoCell(config') = mem'[DynamicAddr]
           /\ Len(config'.custom) = 0 => TreeIn' = GeneratedTree(config', board')
           /\ Len(config'.custom) > 0 /\ ~TooLarge' => TreeIn' = config'.custom[1]
<1> DEFINE c == config'
           n == board'
<1>1. Len(c.custom) \in Nat
  BY DEF ConfigOK, CustomOK
<1> HIDE DEF c, n
<1>2. /\ installDTB(m, c, n)[DynamicAddr] = InfoCell(c)
      /\ Len(c.custom) = 0 => installDTB(m, c, n)[DtbAddr] = GeneratedTree(c, n)
      /\ Len(c.custom) > 0 /\ ~(Len(c.custom) > DramBase + DramSize - DtbAddr)
           => installDTB(m, c, n)[DtbAddr] = c.custom[1]
  BY <1>1, TreeInstalled
<1>3. TooLarge' <=> Len(c.custom) > DramBase + DramSize - DtbAddr
  BY DEF TooLarge, c
<1>4. mem' = installDTB(m, c, n) /\ TreeIn' = mem'[DtbAddr]
  BY DEF TreeIn, c, n
<1> QED BY <1>2, <1>3, <1>4 DEF c, n

LEMMA RestartStep ==
    ASSUME Typed, Next, Restart
    PROVE  /\ harts' = resetHarts(config', board')
           /\ InfoCell(config') = mem'[DynamicAddr]
           /\ Len(config'.custom) = 0 => TreeIn' = GeneratedTree(config', board')
           /\ Len(config'.custom) > 0 /\ ~TooLarge' => TreeIn' = config'.custom[1]
<1>1. ConfigOK(config') /\ ConfigOK(config)
  <2>1. Typed'
    BY TypedStep
  <2> QED BY <2>1 DEF Typed, ConfigOK, InitrdOK, CustomOK
<1> SUFFICES \E m : mem' = installDTB(m, config', board') /\ harts' = resetHarts(config', board')
  BY <1>1, InstalledComplete
<1>2. CASE Reset
  BY <1>2 DEF Reset
<1>3. ASSUME NEW n, SetHartCount(n)
      PROVE  \E m : mem' = installDTB(m, config', board') /\ harts' = resetHarts(config', board')
  BY <1>3 DEF SetHartCount
<1>4. ASSUME NEW p, SmokePreset(p)
      PROVE  \E m : mem' = installDTB(m, config', board') /\ harts' = resetHarts(config', board')
  BY <1>4 DEF SmokePreset
<1>5. CASE config'.entry # config.entry
  <2>1. \E img, a : LoadFirmware(img, a)
    <3>1. ASSUME NEW e  PROVE /\ [config EXCEPT !.next = e].entry = config.entry
                              /\ [config EXCEPT !.initrd = e].entry = config.entry
                              /\ [config EXCEPT !.args = e].entry = config.entry
                              /\ [config EXCEPT !.custom = e].entry = config.entry
      BY <1>1 DEF ConfigOK
    <3>2. ASSUME NEW img, NEW a, LoadPayload(img, a)  PROVE config'.entry = config.entry
      BY <3>1, <3>2 DEF LoadPayload
    <3>3. ASSUME NEW img, NEW a, LoadInitrd(img, a)  PROVE config'.entry = config.entry
      BY <3>1, <3>3 DEF LoadInitrd
    <3>4. ASSUME NEW img, LoadDTB(img)  PROVE config'.entry = config.entry
      BY <3>1, <3>4 DEF LoadDTB
    <3>5. ASSUME NEW a, SetBootArgs(a)  PROVE config'.entry = config.entry
      BY <3>1, <3>5 DEF SetBootArgs
    <3>6. ASSUME NEW p, SmokePreset(p)  PROVE config'.entry = config.entry
      BY <3>1, <3>6 DEF SmokePreset
    <3>7. ASSUME NEW h, Guest(h)  PROVE config'.entry = config.entry
      BY <3>7 DEF Guest, Execute, Store, HartStart, HartStop, SysconWrite, GuestOnly
    <3>8. ASSUME NEW d, LoadDisk(d)  PROVE config'.entry = config.entry
      BY <3>8 DEF LoadDisk
    <3>9. ASSUME NEW n, SetHartCount(n)  PROVE config'.entry = config.entry
      BY <3>9 DEF SetHartCount
    <3>10. Reset \/ ClearFramebuffer \/ (\E u : Poke(u)) => config'.entry = config.entry
      BY DEF Reset, ClearFramebuffer, Poke, Overwrite
    <3> QED BY <1>5, <3>2, <3>3, <3>4, <3>5, <3>6, <3>7, <3>8, <3>9, <3>10 DEF Next, Page
  <2>2. PICK img, a : LoadFirmware(img, a)
    BY <2>1
  <2>3. /\ board' = board
        /\ \/ /\ config' = [config EXCEPT !.entry = LoadELFOrRaw(mem, a, img).entry]
              /\ mem' = installDTB(LoadELFOrRaw(mem, a, img).mem, config', board)
              /\ harts' = resetHarts(config', board)
           \/ config' = config
    BY <2>2 DEF LoadFirmware
  <2> QED BY <1>5, <2>3
<1> QED BY <1>2, <1>3, <1>4, <1>5 DEF Restart

(* A restart by the page is complete: every hart fresh at the entry, and   *)
(* memory holding the tree and the record, whatever the guest or the       *)
(* editor did to them before (RestartsAreComplete).                        *)
THEOREM RestartsComplete == Spec => RestartsAreComplete
<1>1. Init => Typed
  BY InitTyped
<1>2. Typed /\ [Next]_vars => Typed'
  BY TypedStep
<1>3. Typed /\ [Next]_vars =>
        [Restart =>
          /\ harts' = resetHarts(config', board')
          /\ InfoCell(config') = mem'[DynamicAddr]
          /\ Len(config'.custom) = 0 => TreeIn' = GeneratedTree(config', board')
          /\ Len(config'.custom) > 0 /\ ~TooLarge' => TreeIn' = config'.custom[1]]_vars
  BY RestartStep
<1> QED BY <1>1, <1>2, <1>3, PTL DEF Spec, RestartsAreComplete
=============================================================================
