-------------------------------- MODULE Mmu --------------------------------
(***************************************************************************)
(* Address translation of internal/cpu/mmu.go: bare mode and the three-    *)
(* level Sv39 walk, with the update of the accessed and dirty bits.  A     *)
(* page holds Fan units and a table Fan entries of one unit each (512 in   *)
(* the code), so a virtual address is a page offset and three table        *)
(* indices, sign-extended to the width of a register.  A word of memory is *)
(* an entry: seven flag bits and a page number.  `pte' is the view the     *)
(* walker has of memory: the entry at an address, or BusError.             *)
(***************************************************************************)
EXTENDS Naturals, Sequences

CONSTANTS
    Fan,          \* entries per table and units per page
    VaMod,        \* 2^w of a virtual address, a multiple of Fan^4
    Ppns          \* page numbers in play

ASSUME MmuAssumption ==
    /\ Fan \in Nat \ {0, 1}
    /\ VaMod \in Nat \ {0}
    /\ VaMod >= Fan ^ 4
    /\ Ppns \subseteq Nat /\ Ppns # {}

Levels == 0 .. 2
Vas == 0 .. VaMod - 1
Pte == [v : BOOLEAN, r : BOOLEAN, w : BOOLEAN, x : BOOLEAN, u : BOOLEAN,
        a : BOOLEAN, d : BOOLEAN, ppn : Nat]
BusError == [error |-> TRUE]

(* An entry as a word and back; bits G and RSW are left out, as no code    *)
(* reads them.                                                             *)
FlagBits == [v |-> 1, r |-> 2, w |-> 4, x |-> 8, u |-> 16, a |-> 32, d |-> 64]
Decode(raw) ==
    LET on(f) == (raw \div FlagBits[f]) % 2 = 1
    IN  [v |-> on("v"), r |-> on("r"), w |-> on("w"), x |-> on("x"), u |-> on("u"),
         a |-> on("a"), d |-> on("d"), ppn |-> raw \div 128]

(* What an access depends on: the hart's mode and the fields of mstatus    *)
(* and satp the walk reads.                                                *)
SatpModes == {"bare", "sv39", "other"}
Context == [mode : {"U", "S", "M"}, mpp : {"U", "S", "M"}, mprv : BOOLEAN,
            sum : BOOLEAN, mxr : BOOLEAN, satp : SatpModes, root : Ppns]

effectivePriv(c, k) == IF k # "fetch" /\ c.mode = "M" /\ c.mprv THEN c.mpp ELSE c.mode

(* Sv39 addresses are sign-extended from the top bit of their span.        *)
VaSpan == Fan ^ 4
Canonical(va) == va < VaSpan \div 2 \/ va >= VaMod - (VaSpan \div 2)

(* The pages a leaf of level l maps: one, a megapage's, a gigapage's.      *)
Pages(l) == CASE l = 0 -> 1 [] l = 1 -> Fan [] OTHER -> Fan * Fan
Vpn(va, l) == (va \div (Fan * Pages(l))) % Fan

Leaf(e) == e.r \/ e.x
Reserved(e) == ~e.v \/ (~e.r /\ e.w)
Misaligned(e, l) == e.ppn % Pages(l) # 0

pteAllows_NoSum(e, c, priv, k) ==
    /\ priv = "U" => e.u
    /\ CASE k = "fetch" -> e.x
         [] k = "store" -> e.w
         [] OTHER -> e.r \/ (e.x /\ c.mxr)
pteAllows(e, c, priv, k) ==
    /\ priv = "U" => e.u
    /\ priv = "S" /\ e.u => k # "fetch" /\ c.sum
    /\ CASE k = "fetch" -> e.x
         [] k = "store" -> e.w
         [] OTHER -> e.r \/ (e.x /\ c.mxr)

(* What the access adds to the word of its leaf, and the page of a leaf    *)
(* that was found at level l: a superpage takes the lower indices from va. *)
MissingAD_NoDirty(e, k) == IF e.a THEN 0 ELSE FlagBits.a
MissingAD(e, k) == (IF e.a THEN 0 ELSE FlagBits.a)
                   + (IF k # "store" \/ e.d THEN 0 ELSE FlagBits.d)
PhysPage(e, va, l) == (e.ppn - (e.ppn % Pages(l))) + ((va \div Fan) % Pages(l))

(* translate.  `table[l]' is the table the walk reads at level l, or 0     *)
(* when the walk stops above; `stop' is the level at which it ends.  The   *)
(* result names the entries read, in order, the leaf, and the bits by      *)
(* which it must be written back, 0 for none.                              *)
Fault(reads) == [ok |-> FALSE, pa |-> 0, reads |-> reads, leaf |-> 0, marks |-> 0]
Direct(va) == [ok |-> TRUE, pa |-> va, reads |-> <<>>, leaf |-> 0, marks |-> 0]

Pointer(e) == e # BusError /\ ~Reserved(e) /\ ~Leaf(e)

Walk(pte, c, priv, va, k) ==
    LET slot[l \in Levels] ==
            LET above == IF l = 2 THEN c.root ELSE pte[slot[l + 1]].ppn
            IN  above * Fan + Vpn(va, l)
        stop == IF ~Pointer(pte[slot[2]]) THEN 2
                ELSE IF ~Pointer(pte[slot[1]]) THEN 1 ELSE 0
        reads == [i \in 1 .. 3 - stop |-> slot[3 - i]]
        e == pte[slot[stop]]
    IN  IF \/ e = BusError
           \/ Reserved(e)
           \/ ~Leaf(e)
           \/ Misaligned(e, stop)
           \/ ~pteAllows(e, c, priv, k)
          THEN Fault(reads)
          ELSE [ok |-> TRUE, pa |-> PhysPage(e, va, stop) * Fan + (va % Fan),
                reads |-> reads, leaf |-> slot[stop], marks |-> MissingAD(e, k)]

translate(pte, c, va, k) ==
    LET priv == effectivePriv(c, k)
    IN  IF priv = "M" \/ c.satp = "bare" THEN Direct(va)
        ELSE IF c.satp = "sv39" /\ Canonical(va) THEN Walk(pte, c, priv, va, k)
        ELSE Fault(<<>>)
=============================================================================
