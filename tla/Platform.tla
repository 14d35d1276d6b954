------------------------------ MODULE Platform ------------------------------
(***************************************************************************)
(* The interrupt wiring of one machine (Emulator.initMachine, resetHarts   *)
(* and setHartPending in cmd/rvwasm/main.go): the PLIC notifies context    *)
(* 2*h as mip.MEIP and 2*h+1 as mip.SEIP of hart h, the CLINT sets         *)
(* mip.MSIP and mip.MTIP.  The lines of the two controllers are those mip  *)
(* bits themselves, and they have two more writers: software, by a csrw to *)
(* mip or sip, and the reset of the harts, which clears mip while both     *)
(* controllers keep their registers.                                       *)
(***************************************************************************)
EXTENDS Plic, Clint

CONSTANT
    NHarts        \* number of harts

(* initMachine gives the PLIC two contexts per hart.                       *)
ASSUME PlatformAssumption ==
    /\ NHarts \in Nat
    /\ Harts = 0 .. NHarts - 1
    /\ Contexts = 0 .. 2 * NHarts - 1

plicRegs == <<priority, pending, enable, threshold, raises, claims>>
clintRegs == <<msip, mtimecmp, mtime, wrapped>>
vars == <<plicVars, clintVars>>

MContext(h) == 2 * h
SContext(h) == 2 * h + 1

Init == PlicInit /\ ClintInit

(* A device, a claim or a PLIC register write; only PLIC lines move.       *)
PlicStep == PlicNext /\ UNCHANGED clintVars

(* A CLINT register write or an SBI timer or IPI call.                     *)
ClintWrite ==
    /\ \/ \E h \in Harts, v \in MsipValues : WriteMsip(h, v)
       \/ \E h \in Harts, t \in Times : WriteMtimecmp(h, t)
       \/ \E t \in Times : WriteMtime(t)
    /\ UNCHANGED plicVars

(* Bus.Tick: only the CLINT counts.                                        *)
BusTick == Tick /\ UNCHANGED plicVars

(* csrw mip: the whole register is replaced, the controllers' bits too.    *)
CsrWriteMip(h, meip, seip, msi, mti) ==
    /\ line' = [line EXCEPT ![MContext(h)] = meip, ![SContext(h)] = seip]
    /\ msipLine' = [msipLine EXCEPT ![h] = msi]
    /\ mtipLine' = [mtipLine EXCEPT ![h] = mti]
    /\ UNCHANGED <<plicRegs, clintRegs>>

(* csrw sip: SEIP is writable, the machine bits are not.                   *)
CsrWriteSip(h, seip) ==
    /\ line' = [line EXCEPT ![SContext(h)] = seip]
    /\ UNCHANGED <<plicRegs, clintRegs, msipLine, mtipLine>>

(* resetHarts: Hart.Reset rebuilds the CSR file with mip = 0.              *)
ResetHarts ==
    /\ line' = [c \in Contexts |-> FALSE]
    /\ msipLine' = [h \in Harts |-> FALSE]
    /\ mtipLine' = [h \in Harts |-> FALSE]
    /\ UNCHANGED <<plicRegs, clintRegs>>

Software ==
    \E h \in Harts :
       \/ \E meip, seip, msi, mti \in BOOLEAN : CsrWriteMip(h, meip, seip, msi, mti)
       \/ \E seip \in BOOLEAN : CsrWriteSip(h, seip)

Next == PlicStep \/ ClintWrite \/ BusTick \/ Software \/ ResetHarts

Spec == Init /\ [][Next]_vars

-----------------------------------------------------------------------------
TypeOK == PlicTypeOK /\ ClintTypeOK

(* Whatever software forged in mip and whenever the harts were reset, one  *)
(* operation on the PLIC (a device toggling its source, a claim, any       *)
(* register write) makes every external-interrupt line of every hart right *)
(* again: this is how firmware recovers interrupts after a reboot that     *)
(* left pending sources behind.                                            *)
PlicStepResyncs == [][PlicStep => LineMirrorsBest']_vars

(* An expired timer survives a reset or a csrw that clears MTIP: every     *)
(* tick leaves MTIP up on each hart whose compare is reached, with no      *)
(* register write, although Tick does not always call update().            *)
ExpiredTimerReturns ==
    [][BusTick => \A h \in Harts : mtime' >= mtimecmp'[h] => mtipLine'[h]]_vars
=============================================================================
