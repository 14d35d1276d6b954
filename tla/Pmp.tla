-------------------------------- MODULE Pmp --------------------------------
(***************************************************************************)
(* Physical memory protection of internal/cpu/pmp.go: one hart's           *)
(* configuration and address registers as a record, what a CSR write does  *)
(* to them, and the check of an access.  Addresses count grains of four    *)
(* bytes, the unit of an address register.  `active' and `checked' are     *)
(* PMPActive and PMPChecked, the cached answer to "is any entry in use?".  *)
(***************************************************************************)
EXTENDS Naturals

CONSTANTS
    NPmp,         \* entries (64 in the code)
    GroupSize,    \* entries in one pmpcfg register (8 in the code)
    PmpBits       \* width of an address register (56 in the code)

ASSUME PmpAssumption ==
    /\ NPmp \in Nat \ {0}
    /\ GroupSize \in Nat \ {0}
    /\ PmpBits \in Nat
    /\ 2 ^ PmpBits \in Nat \ {0}      \* spelt out: the provers know no powers

Entries == 0 .. NPmp - 1
PmpAddrs == 0 .. 2 ^ PmpBits - 1
AddressModes == {"off", "tor", "na4", "napot"}
PmpCfg == [r : BOOLEAN, w : BOOLEAN, x : BOOLEAN, l : BOOLEAN, a : AddressModes]
PmpState == [cfg : [Entries -> PmpCfg], addr : [Entries -> PmpAddrs],
             active : BOOLEAN, checked : BOOLEAN]

AccessKinds == {"fetch", "load", "store"}
Privs == {"U", "S", "M"}

(* Hart.Reset: initCSR starts from an empty register file.                 *)
CfgOff == [r |-> FALSE, w |-> FALSE, x |-> FALSE, l |-> FALSE, a |-> "off"]
PmpReset == [cfg |-> [i \in Entries |-> CfgOff], addr |-> [i \in Entries |-> 0],
             active |-> FALSE, checked |-> FALSE]

AnyPmpConfigured(cfg) == \E i \in Entries : cfg[i].a # "off"

refreshPMPActive(p) == [p EXCEPT !.checked = TRUE, !.active = AnyPmpConfigured(p.cfg)]

(* A write of configuration register g: every entry of the register takes  *)
(* its byte unless the entry is locked.                                    *)
SetCfg(p, g, new) ==
    [p EXCEPT !.cfg = [i \in Entries |-> IF i \div GroupSize = g /\ ~p.cfg[i].l
                                           THEN new[i] ELSE p.cfg[i]]]
pmpSetCfgCSR_NoRefresh(p, g, new) == SetCfg(p, g, new)
pmpSetCfgCSR(p, g, new) == refreshPMPActive(SetCfg(p, g, new))

(* A write of address register i.  Only the lock of entry i itself counts: *)
(* the register also is the base of a top-of-range entry i + 1.            *)
pmpSetAddrCSR_NoLock(p, i, v) == [p EXCEPT !.addr[i] = v % 2 ^ PmpBits]
pmpSetAddrCSR(p, i, v) ==
    IF p.cfg[i].l THEN p ELSE [p EXCEPT !.addr[i] = v % 2 ^ PmpBits]

(* The grains lo <= pa < hi entry i covers; ok is false for an entry that  *)
(* is off or empty.                                                        *)
TrailingOnes(n) ==
    CHOOSE k \in 0 .. PmpBits : /\ (n \div 2 ^ k) % 2 = 0
                                /\ \A j \in 0 .. k - 1 : (n \div 2 ^ j) % 2 = 1
pmpRange(p, i) ==
    LET top == p.addr[i]
        base == IF i = 0 THEN 0 ELSE p.addr[i - 1]
        size == 2 ^ (TrailingOnes(top) + 1)
    IN  CASE p.cfg[i].a = "off" -> [lo |-> 0, hi |-> 0, ok |-> FALSE]
          [] p.cfg[i].a = "tor" -> [lo |-> base, hi |-> top, ok |-> base < top]
          [] p.cfg[i].a = "na4" -> [lo |-> top, hi |-> top + 1, ok |-> TRUE]
          [] p.cfg[i].a = "napot" -> [lo |-> top - (top % size),
                                      hi |-> top - (top % size) + size, ok |-> TRUE]

pmpCovers(p, i, pa) == LET g == pmpRange(p, i) IN g.ok /\ g.lo <= pa /\ pa < g.hi

(* The first entry that covers the address decides; without one, only      *)
(* machine mode may pass, unless no entry covers anything at all.          *)
Permits(c, k) == CASE k = "fetch" -> c.x [] k = "store" -> c.w [] OTHER -> c.r
Decides(p, i, pa) == pmpCovers(p, i, pa) /\ \A j \in 0 .. i - 1 : ~pmpCovers(p, j, pa)
pmpPermits(p, pa, k, priv) ==
    IF \E i \in Entries : pmpCovers(p, i, pa)
      THEN \E i \in Entries : /\ Decides(p, i, pa)
                              /\ (priv = "M" /\ ~p.cfg[i].l) \/ Permits(p.cfg[i], k)
      ELSE priv = "M" \/ \A i \in Entries : ~pmpRange(p, i).ok

(* checkPMP: the cache is filled at the first access after a reset, and    *)
(* while it says that no entry is in use nothing is looked up.             *)
CheckCache(p) == IF p.active \/ p.checked THEN p ELSE refreshPMPActive(p)
checkPMP(p, pa, size, k, priv) ==
    CheckCache(p).active => \A b \in pa .. pa + size - 1 : pmpPermits(p, b, k, priv)
=============================================================================
