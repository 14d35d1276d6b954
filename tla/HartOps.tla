------------------------------- MODULE HartOps -------------------------------
(***************************************************************************)
(* One hart of internal/cpu as a record, and what trap.go, csr.go and      *)
(* exec_system.go do to it.  Interrupts are sets of cause numbers (the     *)
(* bits of mip, mie and mideleg), mstatus is a record of its fields, a pc  *)
(* counts instruction slots modulo NPc, and one representative register    *)
(* stands for x1..x31.  Cause and tval registers carry no control and are  *)
(* left out.                                                               *)
(***************************************************************************)
EXTENDS Naturals

CONSTANTS
    NPc,          \* the pc is taken modulo NPc (2^64 in the code)
    InstretMod,   \* the retired-instruction counter is taken modulo this
    Values,       \* values of the representative register
    IntCauses,    \* interrupt causes in play
    FaultCauses   \* exception causes an instruction or its fetch can raise

ASSUME HartAssumption ==
    /\ NPc \in Nat \ {0}
    /\ InstretMod \in Nat \ {0}
    /\ Values # {}
    /\ IntCauses \subseteq {1, 3, 5, 7, 9, 11}
    /\ FaultCauses \subseteq Nat

U == 0
S == 1
M == 3
Modes == {U, S, M}

Illegal == 2
EcallCause(mode) == 8 + mode
ExcCauses == FaultCauses \cup {Illegal} \cup {EcallCause(m) : m \in Modes}

Pcs == 0 .. NPc - 1
Tvecs == [base : Pcs, vectored : BOOLEAN]
Mstatus == [sie : BOOLEAN, spie : BOOLEAN, spp : {U, S},
            mie : BOOLEAN, mpie : BOOLEAN, mpp : Modes, mprv : BOOLEAN,
            tvm : BOOLEAN, tw : BOOLEAN, tsr : BOOLEAN, rv64 : BOOLEAN]

HartType ==
    [mode : Modes, pc : Pcs, waiting : BOOLEAN, halted : BOOLEAN,
     mstatus : Mstatus,
     mip : SUBSET IntCauses, mie : SUBSET IntCauses, mideleg : SUBSET IntCauses,
     medeleg : SUBSET ExcCauses,
     mepc : Pcs, sepc : Pcs, mtvec : Tvecs, stvec : Tvecs,
     mcounter : BOOLEAN, scounter : BOOLEAN,     \* mcounteren.CY, scounteren.CY
     xreg : Values, instret : 0 .. InstretMod - 1]

(* Hart.Reset and initCSR.                                                 *)
ResetMstatus ==
    [sie |-> FALSE, spie |-> FALSE, spp |-> U, mie |-> FALSE, mpie |-> FALSE,
     mpp |-> U, mprv |-> FALSE, tvm |-> FALSE, tw |-> FALSE, tsr |-> FALSE,
     rv64 |-> TRUE]

ResetHart(x) ==
    [mode |-> M, pc |-> 0, waiting |-> FALSE, halted |-> FALSE,
     mstatus |-> ResetMstatus,
     mip |-> {}, mie |-> {}, mideleg |-> {}, medeleg |-> {},
     mepc |-> 0, sepc |-> 0,
     mtvec |-> [base |-> 0, vectored |-> FALSE],
     stvec |-> [base |-> 0, vectored |-> FALSE],
     mcounter |-> TRUE, scounter |-> TRUE, xreg |-> x, instret |-> 0]

-----------------------------------------------------------------------------
(* Traps and returns (trap.go).                                            *)

Vector(tvec, cause, interrupt) ==
    IF tvec.vectored /\ interrupt THEN (tvec.base + cause) % NPc ELSE tvec.base

ToSupervisor(h, cause, interrupt) ==
    /\ cause \in (IF interrupt THEN h.mideleg ELSE h.medeleg)
    /\ h.mode <= S

TrapS(h, cause, interrupt, epc) ==
    [h EXCEPT !.sepc = epc,
              !.mstatus = [@ EXCEPT !.spie = h.mstatus.sie, !.sie = FALSE,
                                    !.spp = h.mode],
              !.mode = S, !.pc = Vector(h.stvec, cause, interrupt)]

TrapM_KeepMie(h, cause, interrupt, epc) ==
    [h EXCEPT !.mepc = epc,
              !.mstatus = [@ EXCEPT !.mie = FALSE, !.mpp = h.mode],
              !.mode = M, !.pc = Vector(h.mtvec, cause, interrupt)]

TrapM(h, cause, interrupt, epc) ==
    [h EXCEPT !.mepc = epc,
              !.mstatus = [@ EXCEPT !.mpie = h.mstatus.mie, !.mie = FALSE,
                                    !.mpp = h.mode],
              !.mode = M, !.pc = Vector(h.mtvec, cause, interrupt)]

Trap(h, cause, interrupt, epc) ==
    IF ToSupervisor(h, cause, interrupt)
    THEN TrapS(h, cause, interrupt, epc)
    ELSE TrapM(h, cause, interrupt, epc)

MretState_ClearFirst(h) ==
    [h EXCEPT !.mstatus = [@ EXCEPT !.mie = h.mstatus.mpie, !.mpie = TRUE,
                                    !.mpp = U,
                                    !.mprv = (h.mstatus.mpp = M /\ h.mstatus.mprv)],
              !.mode = U, !.pc = h.mepc]

MretState(h) ==
    [h EXCEPT !.mstatus = [@ EXCEPT !.mie = h.mstatus.mpie, !.mpie = TRUE,
                                    !.mpp = U,
                                    !.mprv = (h.mstatus.mpp = M /\ h.mstatus.mprv)],
              !.mode = h.mstatus.mpp, !.pc = h.mepc]

SretState(h) ==
    [h EXCEPT !.mstatus = [@ EXCEPT !.sie = h.mstatus.spie, !.spie = TRUE,
                                    !.spp = U],
              !.mode = h.mstatus.spp, !.pc = h.sepc]

-----------------------------------------------------------------------------
(* Interrupt selection (checkInterrupt): pending and enabled causes the    *)
(* mode lets through, taken in the order 11, 3, 7, 9, 1, 5.                *)

Pending(h) == h.mip \cap h.mie

Unmasked(h, c) ==
    IF c \in h.mideleg
    THEN h.mode < S \/ (h.mode = S /\ h.mstatus.sie)
    ELSE h.mode < M \/ (h.mode = M /\ h.mstatus.mie)

Takeable(h) == {c \in Pending(h) : Unmasked(h, c)}

Rank_TimerLate(c) == CASE c = 11 -> 1 [] c = 3 -> 2 [] c = 9 -> 3
                       [] c = 7 -> 4 [] c = 1 -> 5 [] OTHER -> 6

Rank(c) == CASE c = 11 -> 1 [] c = 3 -> 2 [] c = 7 -> 3
             [] c = 9 -> 4 [] c = 1 -> 5 [] OTHER -> 6

Chosen(h) ==
    CHOOSE c \in Takeable(h) : \A d \in Takeable(h) : Rank(c) <= Rank(d)

-----------------------------------------------------------------------------
(* Control and status registers (csr.go).  "roinfo" stands for the         *)
(* read-only machine information registers, "absent" for any number that   *)
(* csrExists refuses.                                                      *)

MCsrs == {"mstatus", "mie", "mip", "mideleg", "medeleg", "mepc", "mtvec",
          "mcounteren", "minstret", "roinfo"}
SCsrs == {"sstatus", "sie", "sip", "sepc", "stvec", "scounteren", "satp"}
UCsrs == {"cycle"}
Csrs == MCsrs \cup SCsrs \cup UCsrs \cup {"absent"}
ReadOnlyCsrs == {"roinfo", "cycle"}

(* csrAllowed, for the access itself and for a write.                      *)
CsrPriv(csr) == IF csr \in MCsrs THEN M ELSE IF csr \in SCsrs THEN S ELSE U

CounterAllowed(h, csr) ==
    csr = "cycle" => /\ h.mode < M => h.mcounter
                     /\ h.mode < S => h.scounter

CsrLegal(h, csr, write) ==
    /\ csr # "absent"
    /\ ~(h.mode = S /\ csr = "satp" /\ h.mstatus.tvm)
    /\ h.mode >= CsrPriv(csr)
    /\ CounterAllowed(h, csr)
    /\ write => csr \notin ReadOnlyCsrs

(* Supervisor interrupt bits of mip.                                       *)
SipMask == {1, 5, 9} \cap IntCauses

Merge(old, mask, v) == (old \ mask) \cup (v \cap mask)

(* What software may try to write: mpp has two bits, and any field goes.   *)
MstatusWrites == [sie : BOOLEAN, spie : BOOLEAN, spp : {U, S},
                  mie : BOOLEAN, mpie : BOOLEAN, mpp : 0 .. 3, mprv : BOOLEAN,
                  tvm : BOOLEAN, tw : BOOLEAN, tsr : BOOLEAN, rv64 : BOOLEAN]

WriteMstatus(v) == [v EXCEPT !.mpp = IF @ = 2 THEN U ELSE @, !.rv64 = TRUE]

WriteSstatus(old, v) == [old EXCEPT !.sie = v.sie, !.spie = v.spie,
                                    !.spp = v.spp, !.rv64 = v.rv64]

WriteSie_AnyBit(h, v) == [h EXCEPT !.mie = v]

WriteSie(h, v) == [h EXCEPT !.mie = Merge(h.mie, h.mideleg, v)]

(* csrWrite.                                                               *)
CsrWrite(h, csr, v) ==
    CASE csr = "mstatus" -> [h EXCEPT !.mstatus = WriteMstatus(v)]
      [] csr = "sstatus" -> [h EXCEPT !.mstatus = WriteSstatus(h.mstatus, v)]
      [] csr = "mie" -> [h EXCEPT !.mie = v]
      [] csr = "sie" -> WriteSie(h, v)
      [] csr = "mip" -> [h EXCEPT !.mip = v]
      [] csr = "sip" -> [h EXCEPT !.mip = Merge(h.mip, SipMask, v)]
      [] csr = "mideleg" -> [h EXCEPT !.mideleg = v]
      [] csr = "medeleg" -> [h EXCEPT !.medeleg = v]
      [] csr = "mepc" -> [h EXCEPT !.mepc = v]
      [] csr = "sepc" -> [h EXCEPT !.sepc = v]
      [] csr = "mtvec" -> [h EXCEPT !.mtvec = v]
      [] csr = "stvec" -> [h EXCEPT !.stvec = v]
      [] csr = "mcounteren" -> [h EXCEPT !.mcounter = v]
      [] csr = "scounteren" -> [h EXCEPT !.scounter = v]
      [] csr = "minstret" -> [h EXCEPT !.instret = v]
      [] OTHER -> h

CsrDomain(csr) ==
    CASE csr \in {"mstatus", "sstatus"} -> MstatusWrites
      [] csr \in {"mie", "sie", "mip", "sip", "mideleg"} -> SUBSET IntCauses
      [] csr = "medeleg" -> SUBSET ExcCauses
      [] csr \in {"mepc", "sepc"} -> Pcs
      [] csr \in {"mtvec", "stvec"} -> Tvecs
      [] csr \in {"mcounteren", "scounteren"} -> BOOLEAN
      [] csr = "minstret" -> 0 .. InstretMod - 1
      [] OTHER -> {0}
=============================================================================
