-------------------------------- MODULE Hart --------------------------------
(***************************************************************************)
(* The step loop of one hart (Hart.Step in internal/cpu/cpu.go) running    *)
(* arbitrary code: every step first lets the devices move mip, then takes  *)
(* an interrupt, or sleeps in WFI, or fetches and executes one             *)
(* instruction, whose outcome is chosen freely among what the decoder      *)
(* allows.  Two history variables remember the context that the latest     *)
(* trap into each mode interrupted, until its return consumes it or the    *)
(* handler rewrites the registers that hold it.                            *)
(***************************************************************************)
EXTENDS HartOps

CONSTANTS
    CsrWrites,    \* the CSR writes software makes, <<csr, value>> pairs
    CsrReads,     \* the CSRs software only reads
    SbiShim       \* whether ECALL from S-mode is answered by the SBI shim

ASSUME CsrWritesAssumption ==
    /\ \A w \in CsrWrites : w[1] \in Csrs /\ w[2] \in CsrDomain(w[1])
    /\ CsrReads \subseteq Csrs
    /\ SbiShim \in BOOLEAN

VARIABLES
    hart,         \* HartType
    event,        \* history: what the last step of the behaviour was
    mctx,         \* history: context interrupted by the latest trap to M
    sctx          \* history: context interrupted by the latest trap to S

vars == <<hart, event, mctx, sctx>>

Events == {"interrupt", "exception", "retired", "idle", "machine"}

Context == [mode : Modes, pc : Pcs, ie : BOOLEAN]
NoContext == [mode |-> U, pc |-> 0 - 1, ie |-> FALSE]

MContext == [mode |-> hart.mode, pc |-> hart.pc, ie |-> hart.mstatus.mie]
SContext == [mode |-> hart.mode, pc |-> hart.pc, ie |-> hart.mstatus.sie]

Init ==
    /\ \E x \in Values : hart = ResetHart(x)
    /\ event = "machine"
    /\ mctx = NoContext
    /\ sctx = NoContext

-----------------------------------------------------------------------------
(* The stages of a step.                                                   *)

Running == ~hart.halted
Interrupted_Awake == Running /\ ~hart.waiting /\ Takeable(hart) # {}

Interrupted == Running /\ Takeable(hart) # {}
Executing == Running /\ Takeable(hart) = {} /\ ~hart.waiting

(* A trap of either kind; the interrupted context is that of the pc the    *)
(* step started from.                                                      *)
Enter(h, cause, interrupt, epc) ==
    /\ hart' = Trap(h, cause, interrupt, epc)
    /\ event' = IF interrupt THEN "interrupt" ELSE "exception"
    /\ IF ToSupervisor(h, cause, interrupt)
       THEN sctx' = SContext /\ mctx' = mctx
       ELSE mctx' = MContext /\ sctx' = sctx

(* A fetched instruction moves the pc on before it is executed; only an    *)
(* instruction that raised no trap (trapRaised in the code) retires.       *)
Fetched == [hart EXCEPT !.pc = (@ + 1) % NPc]

Retire(h) ==
    /\ hart' = [h EXCEPT !.instret = (@ + 1) % InstretMod]
    /\ event' = "retired"

Raise_AdvancedPc(cause) == Enter(Fetched, cause, FALSE, Fetched.pc)

Raise(cause) == Enter(Fetched, cause, FALSE, hart.pc)

TakeInterrupt ==
    /\ Interrupted
    /\ Enter([hart EXCEPT !.waiting = FALSE], Chosen(hart), TRUE, hart.pc)

Sleep ==
    /\ Running /\ hart.waiting /\ Takeable(hart) = {}
    /\ event' = "idle"
    /\ UNCHANGED <<hart, mctx, sctx>>

(* A misaligned pc, a fetch fault, an illegal encoding, EBREAK, or a load, *)
(* store or AMO that faults.                                               *)
Fault(cause) == Executing /\ Raise(cause)

(* Any instruction outside SYSTEM that completes: it may branch and may    *)
(* write its destination.                                                  *)
Complete(next, x) ==
    /\ Executing
    /\ Retire([hart EXCEPT !.pc = next, !.xreg = x])
    /\ UNCHANGED <<mctx, sctx>>

(* ECALL: answered by the shim (x10 and x11 get its result), or trapping.  *)
(* hart_stop and system_reset halt the hart, hart_suspend makes it wait,   *)
(* and a hart_start of the hart itself moves its pc.                       *)
ShimAnswers == SbiShim /\ hart.mode = S

EcallShim(next, x, halts, waits) ==
    /\ Executing
    /\ ShimAnswers
    /\ ~(halts /\ waits)
    /\ next = Fetched.pc \/ ~(halts \/ waits)
    /\ Retire([Fetched EXCEPT !.pc = next, !.xreg = x,
                              !.halted = halts, !.waiting = waits])
    /\ UNCHANGED <<mctx, sctx>>

(* Extensions the shim does not know trap like any ECALL.                  *)
EcallTrap == Executing /\ Raise(EcallCause(hart.mode))

Mret ==
    /\ Executing
    /\ IF hart.mode # M
       THEN Raise(Illegal)
       ELSE /\ Retire(MretState(hart))
            /\ mctx' = NoContext /\ sctx' = sctx

SretLegal == hart.mode >= S /\ ~(hart.mode = S /\ hart.mstatus.tsr)

Sret ==
    /\ Executing
    /\ IF ~SretLegal
       THEN Raise(Illegal)
       ELSE /\ Retire(SretState(hart))
            /\ sctx' = NoContext /\ mctx' = mctx

Wfi ==
    /\ Executing
    /\ IF hart.mode # M /\ hart.mstatus.tw
       THEN Raise(Illegal)
       ELSE /\ Retire([Fetched EXCEPT !.waiting = TRUE])
            /\ UNCHANGED <<mctx, sctx>>

SfenceVma ==
    /\ Executing
    /\ IF hart.mode < S \/ (hart.mode = S /\ hart.mstatus.tvm)
       THEN Raise(Illegal)
       ELSE Retire(Fetched) /\ UNCHANGED <<mctx, sctx>>

(* A CSR instruction: the old value goes to rd, then the write happens.    *)
CsrRead(csr, x) ==
    /\ Executing
    /\ IF ~CsrLegal(hart, csr, FALSE)
       THEN Raise(Illegal)
       ELSE /\ Retire([Fetched EXCEPT !.xreg = x])
            /\ UNCHANGED <<mctx, sctx>>

CsrReadWrite(csr, v, x) ==
    /\ Executing
    /\ IF ~CsrLegal(hart, csr, TRUE)
       THEN Raise(Illegal)
       ELSE /\ Retire(CsrWrite([Fetched EXCEPT !.xreg = x], csr, v))
            /\ mctx' = IF csr \in {"mstatus", "mepc"} THEN NoContext ELSE mctx
            /\ sctx' = IF csr \in {"mstatus", "sstatus", "sepc"}
                       THEN NoContext ELSE sctx

Step ==
    \/ TakeInterrupt
    \/ Sleep
    \/ \E c \in FaultCauses \cup {Illegal} : Fault(c)
    \/ \E next \in Pcs, x \in Values : Complete(next, x)
    \/ EcallTrap
    \/ \E next \in Pcs, x \in Values, halts, waits \in BOOLEAN :
          EcallShim(next, x, halts, waits)
    \/ Mret \/ Sret \/ Wfi \/ SfenceVma
    \/ \E csr \in CsrReads, x \in Values : CsrRead(csr, x)
    \/ \E w \in CsrWrites, x \in Values : CsrReadWrite(w[1], w[2], x)

-----------------------------------------------------------------------------
(* What the rest of the machine does to the hart between its steps: the    *)
(* controllers set and clear their mip bits, another hart starts it by SBI *)
(* hart_start, the emulator halts it or resets it.                         *)

SetPending(c, set) ==
    /\ hart' = [hart EXCEPT !.mip = IF set THEN @ \cup {c} ELSE @ \ {c}]
    /\ event' = "machine"
    /\ UNCHANGED <<mctx, sctx>>

HsmStart(pc) ==
    /\ SbiShim
    /\ hart' = [hart EXCEPT !.halted = FALSE, !.waiting = FALSE,
                            !.mode = S, !.pc = pc]
    /\ event' = "machine"
    /\ UNCHANGED <<mctx, sctx>>

Halt ==
    /\ hart' = [hart EXCEPT !.halted = TRUE, !.waiting = FALSE]
    /\ event' = "machine"
    /\ UNCHANGED <<mctx, sctx>>

(* A reboot the guest asked for resets the hart inside the store to the    *)
(* syscon register, which then retires: n = 1.                             *)
Reset(x, n) ==
    /\ hart' = [ResetHart(x) EXCEPT !.instret = n % InstretMod]
    /\ event' = "machine"
    /\ mctx' = NoContext /\ sctx' = NoContext

Machine ==
    \/ \E c \in IntCauses \cap {3, 7, 9, 11}, set \in BOOLEAN : SetPending(c, set)
    \/ \E pc \in Pcs : HsmStart(pc)
    \/ Halt
    \/ \E x \in Values, n \in {0, 1} : Reset(x, n)

Next == Step \/ Machine

Spec == Init /\ [][Next]_vars

(* runSlice steps every hart that is not halted once in each round.        *)
FairSpec == Spec /\ WF_vars(Step)

-----------------------------------------------------------------------------
TypeOK ==
    /\ hart \in HartType
    /\ event \in Events
    /\ mctx \in Context \cup {NoContext}
    /\ sctx \in Context \cup {NoContext}

(* The context interrupted by the latest trap to machine mode stays in     *)
(* mepc, mpp and mpie whatever runs before its mret, and likewise for      *)
(* supervisor mode and sret: in particular a machine trap taken inside a   *)
(* supervisor handler, or the reverse order of returns, loses neither.     *)
ContextsKept ==
    /\ mctx # NoContext => /\ hart.mepc = mctx.pc
                           /\ hart.mstatus.mpp = mctx.mode
                           /\ hart.mstatus.mpie = mctx.ie
    /\ sctx # NoContext => /\ hart.sepc = sctx.pc
                           /\ hart.mstatus.spp = sctx.mode
                           /\ hart.mstatus.spie = sctx.ie

(* mret and sret put the hart back where the trap took it from: same mode, *)
(* same pc, same interrupt enable.                                         *)
ResumeStep ==
    /\ Mret /\ event' = "retired" /\ mctx # NoContext =>
          [mode |-> hart'.mode, pc |-> hart'.pc, ie |-> hart'.mstatus.mie] = mctx
    /\ Sret /\ event' = "retired" /\ sctx # NoContext =>
          [mode |-> hart'.mode, pc |-> hart'.pc, ie |-> hart'.mstatus.sie] = sctx

ReturnsResume == [][ResumeStep]_vars

(* A step that traps has no other effect: the destination register and the *)
(* retire counter keep their values, the pc of the instruction that was to *)
(* run next (an interrupt) or that failed (an exception) is in the epc of  *)
(* the mode that takes the trap, the other mode's epc is untouched, and    *)
(* privilege never drops.                                                  *)
PreciseStep ==
    event' \in {"interrupt", "exception"} =>
       /\ hart'.xreg = hart.xreg
       /\ hart'.instret = hart.instret
       /\ hart'.mode >= hart.mode
       /\ IF hart'.mode = M
          THEN hart'.mepc = hart.pc /\ hart'.sepc = hart.sepc
          ELSE hart'.sepc = hart.pc /\ hart'.mepc = hart.mepc

TrapsArePrecise == [][PreciseStep]_vars

(* Code below machine mode, as long as it stays there, changes nothing     *)
(* machine mode relies on: not through sstatus, sie, sip or sret, which    *)
(* write the same registers as mstatus, mie and mip, nor by an illegal     *)
(* access.  Only the rest of the machine moves the machine bits of mip.    *)
ProtectedStep ==
    hart.mode < M /\ hart'.mode < M =>
       /\ hart'.mepc = hart.mepc
       /\ hart'.mtvec = hart.mtvec
       /\ hart'.medeleg = hart.medeleg
       /\ hart'.mideleg = hart.mideleg
       /\ hart'.mcounter = hart.mcounter
       /\ hart'.mie \ hart.mideleg = hart.mie \ hart.mideleg
       /\ event' # "machine" => hart'.mip \cap {3, 7, 11} = hart.mip \cap {3, 7, 11}
       /\ \A f \in {"mie", "mpie", "mpp", "mprv", "tvm", "tw", "tsr"} :
             hart'.mstatus[f] = hart.mstatus[f]

MachineStateProtected == [][ProtectedStep]_vars

(* The mode an interrupt belongs to: supervisor mode if it is delegated.   *)
(* It is open if the hart runs below that mode, or in it with interrupts   *)
(* enabled there.                                                          *)
OwnMode(c) == IF c \in hart.mideleg THEN S ELSE M
Open == {c \in hart.mip \cap hart.mie :
            \/ hart.mode < OwnMode(c)
            \/ hart.mode = OwnMode(c) /\ IF OwnMode(c) = S THEN hart.mstatus.sie
                                                          ELSE hart.mstatus.mie}

(* The order of the causes: machine numbers (3, 7, 11) before supervisor   *)
(* numbers (1, 5, 9), and of either external, software, timer.             *)
Urgency(c) == CASE c \in {9, 11} -> 1 [] c \in {1, 3} -> 2 [] c \in {5, 7} -> 3
Before(c, d) == c % 4 > d % 4 \/ (c % 4 = d % 4 /\ Urgency(c) < Urgency(d))

(* No instruction runs, not even one that faults, and no hart sleeps on,   *)
(* while an interrupt is open; an interrupt that is taken is open and no   *)
(* other open one comes before it in the order of the causes.  That order  *)
(* does not look at delegation: a delegated machine cause is taken before  *)
(* one with a later place that stays in machine mode.                      *)
MaskedStep ==
    /\ event' \in {"retired", "exception", "idle"} => Open = {}
    /\ event' = "interrupt" =>
          \E c \in Open : /\ \A d \in Open : ~Before(d, c)
                         /\ hart' = Trap([hart EXCEPT !.waiting = FALSE], c, TRUE, hart.pc)

InterruptsRespectMasks == [][MaskedStep]_vars

(* A hart asleep in WFI with an interrupt that stays takeable wakes up.    *)
SleeperWakes ==
    <>[](Running /\ Takeable(hart) # {}) => []<>~hart.waiting
=============================================================================
