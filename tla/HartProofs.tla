----------------------------- MODULE HartProofs -----------------------------
(***************************************************************************)
(* Proofs about Hart, for every size of the constants and every choice of  *)
(* the CSR accesses software makes.  TypeOK is inductive by itself.  Each  *)
(* step is then shown to be of one of six kinds (StepKinds), which say     *)
(* what it writes and what it leaves alone; the properties follow kind by  *)
(* kind, and only ContextsKept needs an induction of its own.              *)
(***************************************************************************)
EXTENDS Hart, TLAPS

(* Addresses wrap: the pc arithmetic of Step stays among the pcs.          *)
LEMMA ModPc ==
    ASSUME NEW n \in Nat
    PROVE  n % NPc \in Pcs
BY HartAssumption DEF Pcs

(* The retire counter wraps within its width.                              *)
LEMMA ModInstret ==
    ASSUME NEW n \in Nat
    PROVE  n % InstretMod \in 0 .. InstretMod - 1
BY HartAssumption

(* The reset pc is a pc, and pcs are numbers.                              *)
LEMMA ZeroPc == 0 \in Pcs /\ Pcs \subseteq Nat
BY HartAssumption DEF Pcs

(* Exception causes are numbers; the causes execSystem raises by itself    *)
(* are among them.                                                         *)
LEMMA CausesTyped ==
    /\ ExcCauses \subseteq Nat
    /\ Illegal \in ExcCauses
    /\ \A m \in Modes : EcallCause(m) \in ExcCauses
<1>1. \A m \in Modes : EcallCause(m) \in Nat
  BY DEF EcallCause, Modes, U, S, M
<1>2. FaultCauses \subseteq Nat /\ Illegal \in Nat
  BY HartAssumption DEF Illegal
<1> QED BY <1>1, <1>2 DEF ExcCauses

(* checkInterrupt's order picks a cause whenever one is takeable, and no   *)
(* takeable one comes before it.                                           *)
LEMMA ChosenTakeable ==
    ASSUME hart \in HartType, Takeable(hart) # {}
    PROVE  /\ Chosen(hart) \in Takeable(hart)
           /\ \A d \in Takeable(hart) : Rank(Chosen(hart)) <= Rank(d)
<1> DEFINE T == Takeable(hart)
<1>1. T \subseteq {1, 3, 5, 7, 9, 11}
  BY HartAssumption DEF Takeable, Pending, HartType
<1>2. /\ Rank(11) = 1 /\ Rank(3) = 2 /\ Rank(7) = 3
      /\ Rank(9) = 4 /\ Rank(1) = 5 /\ Rank(5) = 6
  BY DEF Rank
<1>3. \E c \in T : \A d \in T : Rank(c) <= Rank(d)
  <2> HIDE DEF T
  <2>1. CASE 11 \in T  BY <1>1, <1>2, <2>1
  <2>2. CASE 3 \in T /\ 11 \notin T  BY <1>1, <1>2, <2>2
  <2>3. CASE 7 \in T /\ T \cap {11, 3} = {}  BY <1>1, <1>2, <2>3
  <2>4. CASE 9 \in T /\ T \cap {11, 3, 7} = {}  BY <1>1, <1>2, <2>4
  <2>5. CASE 1 \in T /\ T \cap {11, 3, 7, 9} = {}  BY <1>1, <1>2, <2>5
  <2>6. CASE 5 \in T /\ T \cap {11, 3, 7, 9, 1} = {}  BY <1>1, <1>2, <2>6
  <2> QED BY <1>1, <2>1, <2>2, <2>3, <2>4, <2>5, <2>6 DEF T
<1>4. Chosen(hart) = CHOOSE c \in T : \A d \in T : Rank(c) <= Rank(d)
  BY DEF Chosen
<1> QED BY <1>3, <1>4, Zenon

(* vectorBase yields a pc for direct and vectored handlers.                *)
LEMMA VectorTyped ==
    ASSUME NEW tvec \in Tvecs, NEW cause \in Nat, NEW interrupt \in BOOLEAN
    PROVE  Vector(tvec, cause, interrupt) \in Pcs
<1>1. tvec.base \in Pcs
  BY DEF Tvecs
<1>2. tvec.base + cause \in Nat
  <2>1. tvec.base \in Nat
    BY <1>1, ZeroPc
  <2> QED BY <2>1
<1> QED BY <1>1, <1>2, ModPc DEF Vector

(* A trap leaves a well-typed hart.                                        *)
LEMMA TrapTyped ==
    ASSUME NEW h \in HartType, NEW cause \in Nat, NEW interrupt \in BOOLEAN,
           NEW epc \in Pcs
    PROVE  Trap(h, cause, interrupt, epc) \in HartType
<1> DEFINE sv == Vector(h.stvec, cause, interrupt)
           mv == Vector(h.mtvec, cause, interrupt)
<1>1. sv \in Pcs /\ mv \in Pcs
  BY VectorTyped DEF HartType
<1>2. CASE ToSupervisor(h, cause, interrupt)
  <2> DEFINE ms == [h.mstatus EXCEPT !.spie = h.mstatus.sie, !.sie = FALSE,
                                     !.spp = h.mode]
  <2>1. h.mode \in {U, S}
    BY <1>2 DEF ToSupervisor, HartType, Modes, U, S, M
  <2>2. h.mstatus \in Mstatus
    BY DEF HartType
  <2>3. ms \in Mstatus
    BY <2>1, <2>2 DEF Mstatus
  <2>4. Trap(h, cause, interrupt, epc) =
          [h EXCEPT !.sepc = epc, !.mstatus = ms, !.mode = S, !.pc = sv]
    BY <1>2 DEF Trap, TrapS
  <2>5. S \in Modes
    BY DEF Modes
  <2> HIDE DEF sv, mv, ms
  <2> QED BY <1>1, <2>3, <2>4, <2>5 DEF HartType
<1>3. CASE ~ToSupervisor(h, cause, interrupt)
  <2> DEFINE ms == [h.mstatus EXCEPT !.mpie = h.mstatus.mie, !.mie = FALSE,
                                     !.mpp = h.mode]
  <2>1. h.mstatus \in Mstatus /\ h.mode \in Modes
    BY DEF HartType
  <2>2. ms \in Mstatus
    BY <2>1 DEF Mstatus
  <2>3. Trap(h, cause, interrupt, epc) =
          [h EXCEPT !.mepc = epc, !.mstatus = ms, !.mode = M, !.pc = mv]
    BY <1>3 DEF Trap, TrapM
  <2>4. M \in Modes
    BY DEF Modes
  <2> HIDE DEF sv, mv, ms
  <2> QED BY <1>1, <2>2, <2>3, <2>4 DEF HartType
<1> QED BY <1>2, <1>3

(* The returns, and the ordinary end of an instruction.                    *)
LEMMA ReturnsTyped ==
    ASSUME NEW h \in HartType
    PROVE  MretState(h) \in HartType /\ SretState(h) \in HartType
<1>0. U \in Modes /\ U \in {U, S} /\ {U, S} \subseteq Modes /\ h.mstatus \in Mstatus
  BY DEF Modes, HartType
<1>1. MretState(h) \in HartType
  <2> DEFINE ms == [h.mstatus EXCEPT !.mie = h.mstatus.mpie, !.mpie = TRUE,
                                     !.mpp = U,
                                     !.mprv = (h.mstatus.mpp = M /\ h.mstatus.mprv)]
  <2>2. ms \in Mstatus
    BY <1>0 DEF Mstatus
  <2>3. MretState(h) = [h EXCEPT !.mstatus = ms, !.mode = h.mstatus.mpp, !.pc = h.mepc]
    BY DEF MretState
  <2>4. h.mstatus.mpp \in Modes /\ h.mepc \in Pcs
    BY <1>0 DEF Mstatus, HartType
  <2> HIDE DEF ms
  <2> QED BY <2>2, <2>3, <2>4 DEF HartType
<1>2. SretState(h) \in HartType
  <2> DEFINE ms == [h.mstatus EXCEPT !.sie = h.mstatus.spie, !.spie = TRUE, !.spp = U]
  <2>1. ms \in Mstatus
    BY <1>0 DEF Mstatus
  <2>2. SretState(h) = [h EXCEPT !.mstatus = ms, !.mode = h.mstatus.spp, !.pc = h.sepc]
    BY DEF SretState
  <2>3. h.mstatus.spp \in Modes /\ h.sepc \in Pcs
    BY <1>0 DEF Mstatus, HartType
  <2> HIDE DEF ms
  <2> QED BY <2>1, <2>2, <2>3 DEF HartType
<1> QED BY <1>1, <1>2

(* The pc advance of a fetched instruction keeps the hart well typed.      *)
LEMMA FetchedTyped ==
    ASSUME hart \in HartType
    PROVE  Fetched \in HartType /\ Fetched.pc \in Pcs
<1>1. (hart.pc + 1) % NPc \in Pcs
  <2>1. hart.pc \in Nat
    BY ZeroPc DEF HartType
  <2> QED BY <2>1, ModPc
<1> DEFINE p == (hart.pc + 1) % NPc
<1>2. Fetched = [hart EXCEPT !.pc = p]
  BY DEF Fetched
<1> HIDE DEF p
<1> QED BY <1>1, <1>2 DEF HartType, p

(* Retiring a well-typed hart leaves a well-typed hart.                    *)
LEMMA RetireTyped ==
    ASSUME NEW h \in HartType, Retire(h)
    PROVE  hart' \in HartType /\ event' \in Events
<1>1. (h.instret + 1) % InstretMod \in 0 .. InstretMod - 1
  <2>1. h.instret \in Nat
    BY HartAssumption DEF HartType
  <2> QED BY <2>1, ModInstret
<1> DEFINE n == (h.instret + 1) % InstretMod
<1>2. hart' = [h EXCEPT !.instret = n]
  BY DEF Retire
<1>3. n \in 0 .. InstretMod - 1
  BY <1>1
<1> HIDE DEF n
<1> QED BY <1>2, <1>3 DEF HartType, Retire, Events

(* Entering a trap, for either mode, preserves TypeOK.                     *)
LEMMA EnterTyped ==
    ASSUME TypeOK, NEW h \in HartType, NEW cause \in Nat,
           NEW interrupt \in BOOLEAN, NEW epc \in Pcs,
           Enter(h, cause, interrupt, epc)
    PROVE  TypeOK'
<1>1. hart' \in HartType
  BY TrapTyped DEF Enter
<1>2. event' \in Events
  BY DEF Enter, Events
<1>3. hart.mstatus \in Mstatus /\ hart.mode \in Modes /\ hart.pc \in Pcs
  BY DEF TypeOK, HartType
<1>4. MContext \in Context /\ SContext \in Context
  BY <1>3 DEF MContext, SContext, Context, Mstatus
<1> QED BY <1>1, <1>2, <1>4 DEF Enter, TypeOK

(* An instruction that raises an exception preserves TypeOK.               *)
LEMMA RaiseTyped ==
    ASSUME TypeOK, NEW cause \in ExcCauses, Raise(cause)
    PROVE  TypeOK'
<1>1. Fetched \in HartType /\ cause \in Nat /\ hart.pc \in Pcs
  BY FetchedTyped, CausesTyped DEF TypeOK, HartType
<1> QED BY <1>1, EnterTyped DEF Raise

(* Every CSR write stores a value of the register's range.                 *)
LEMMA CsrWriteTyped ==
    ASSUME NEW h \in HartType, NEW csr \in Csrs, NEW v \in CsrDomain(csr)
    PROVE  CsrWrite(h, csr, v) \in HartType
<1>0. h.mstatus \in Mstatus
  BY DEF HartType
<1>1. CASE csr = "mstatus"
  <2>1. v \in MstatusWrites
    BY <1>1 DEF CsrDomain
  <2>2. v.mpp \in 0 .. 3 /\ (v.mpp # 2 => v.mpp \in Modes) /\ U \in Modes
    BY <2>1 DEF MstatusWrites, Modes, U, S, M
  <2>3. WriteMstatus(v) \in Mstatus
    BY <2>1, <2>2 DEF MstatusWrites, Mstatus, WriteMstatus
  <2> QED BY <1>1, <2>3 DEF CsrWrite, HartType
<1>2. CASE csr = "sstatus"
  <2>1. v \in MstatusWrites
    BY <1>2 DEF CsrDomain
  <2>2. WriteSstatus(h.mstatus, v) \in Mstatus
    BY <1>0, <2>1 DEF MstatusWrites, Mstatus, WriteSstatus
  <2> QED BY <1>2, <2>2 DEF CsrWrite, HartType
<1>3. CASE csr \in {"mie", "sie", "mip", "sip", "mideleg"}
  <2>1. v \in SUBSET IntCauses
    BY <1>3 DEF CsrDomain
  <2>2. \A old \in SUBSET IntCauses : \A mask : Merge(old, mask, v) \in SUBSET IntCauses
    BY <2>1 DEF Merge
  <2> QED BY <1>3, <2>1, <2>2 DEF CsrWrite, HartType, WriteSie
<1>4. CASE csr = "medeleg"
  BY <1>4 DEF CsrDomain, CsrWrite, HartType
<1>5. CASE csr \in {"mepc", "sepc"}
  BY <1>5 DEF CsrDomain, CsrWrite, HartType
<1>6. CASE csr \in {"mtvec", "stvec"}
  BY <1>6 DEF CsrDomain, CsrWrite, HartType
<1>7. CASE csr \in {"mcounteren", "scounteren"}
  BY <1>7 DEF CsrDomain, CsrWrite, HartType
<1>8. CASE csr = "minstret"
  BY <1>8 DEF CsrDomain, CsrWrite, HartType
<1>9. CASE csr \in {"roinfo", "satp", "cycle", "absent"}
  BY <1>9 DEF CsrWrite
<1> QED BY <1>1, <1>2, <1>3, <1>4, <1>5, <1>6, <1>7, <1>8, <1>9
    DEF Csrs, MCsrs, SCsrs, UCsrs

-----------------------------------------------------------------------------
(* Type correctness of the hart and of the history.                        *)
LEMMA TypeOKStep == TypeOK /\ [Next]_vars => TypeOK'
<1> SUFFICES ASSUME TypeOK, [Next]_vars  PROVE TypeOK'
  OBVIOUS
<1>h. /\ hart \in HartType /\ Fetched \in HartType
      /\ hart.pc \in Pcs /\ hart.mstatus \in Mstatus /\ hart.mode \in Modes
      /\ mctx \in Context \cup {NoContext} /\ sctx \in Context \cup {NoContext}
      /\ NoContext \in Context \cup {NoContext}
  BY FetchedTyped DEF TypeOK, HartType
<1>i. Illegal \in ExcCauses
  BY CausesTyped
<1>1. CASE TakeInterrupt
  <2>1. Chosen(hart) \in Nat
    BY <1>1, <1>h, ChosenTakeable, HartAssumption
    DEF TakeInterrupt, Interrupted, Takeable, Pending, HartType
  <2>2. [hart EXCEPT !.waiting = FALSE] \in HartType
    BY <1>h DEF HartType
  <2> QED BY <1>1, <1>h, <2>1, <2>2, EnterTyped DEF TakeInterrupt
<1>2. CASE Sleep
  BY <1>2 DEF Sleep, TypeOK, Events
<1>3. ASSUME NEW c \in FaultCauses \cup {Illegal}, Fault(c)  PROVE TypeOK'
  <2>1. c \in ExcCauses
    BY DEF ExcCauses
  <2> QED BY <1>3, <2>1, RaiseTyped DEF Fault
<1>4. ASSUME NEW next \in Pcs, NEW x \in Values, Complete(next, x)  PROVE TypeOK'
  <2>1. [hart EXCEPT !.pc = next, !.xreg = x] \in HartType
    BY <1>h DEF HartType
  <2> QED BY <1>4, <1>h, <2>1, RetireTyped DEF Complete, TypeOK
<1>5. CASE EcallTrap
  <2>1. EcallCause(hart.mode) \in ExcCauses
    BY <1>h, CausesTyped
  <2> QED BY <1>5, <2>1, RaiseTyped DEF EcallTrap
<1>6. ASSUME NEW next \in Pcs, NEW x \in Values, NEW halts \in BOOLEAN,
             NEW waits \in BOOLEAN, EcallShim(next, x, halts, waits)
      PROVE  TypeOK'
  <2>1. [Fetched EXCEPT !.pc = next, !.xreg = x, !.halted = halts, !.waiting = waits]
          \in HartType
    BY <1>h DEF HartType
  <2> QED BY <1>6, <1>h, <2>1, RetireTyped DEF EcallShim, TypeOK
<1>7. CASE Mret
  <2>1. CASE hart.mode # M
    BY <1>7, <1>i, <2>1, RaiseTyped DEF Mret
  <2>2. CASE hart.mode = M
    BY <1>7, <1>h, <2>2, ReturnsTyped, RetireTyped DEF Mret, TypeOK
  <2> QED BY <2>1, <2>2
<1>8. CASE Sret
  <2>1. CASE ~SretLegal
    BY <1>8, <1>i, <2>1, RaiseTyped DEF Sret
  <2>2. CASE SretLegal
    BY <1>8, <1>h, <2>2, ReturnsTyped, RetireTyped DEF Sret, TypeOK
  <2> QED BY <2>1, <2>2
<1>9. CASE Wfi
  <2>1. [Fetched EXCEPT !.waiting = TRUE] \in HartType
    BY <1>h DEF HartType
  <2>2. CASE hart.mode # M /\ hart.mstatus.tw
    BY <1>9, <1>i, <2>2, RaiseTyped DEF Wfi
  <2>3. CASE ~(hart.mode # M /\ hart.mstatus.tw)
    BY <1>9, <1>h, <2>1, <2>3, RetireTyped DEF Wfi, TypeOK
  <2> QED BY <2>2, <2>3
<1>10. CASE SfenceVma
  BY <1>10, <1>h, <1>i, RaiseTyped, RetireTyped DEF SfenceVma, TypeOK
<1>11. ASSUME NEW csr \in CsrReads, NEW x \in Values, CsrRead(csr, x)  PROVE TypeOK'
  <2>1. [Fetched EXCEPT !.xreg = x] \in HartType
    BY <1>h DEF HartType
  <2> QED BY <1>11, <1>h, <1>i, <2>1, RaiseTyped, RetireTyped DEF CsrRead, TypeOK
<1>12. ASSUME NEW w \in CsrWrites, NEW x \in Values, CsrReadWrite(w[1], w[2], x)
       PROVE  TypeOK'
  <2>1. [Fetched EXCEPT !.xreg = x] \in HartType
    BY <1>h DEF HartType
  <2>2. w[1] \in Csrs /\ w[2] \in CsrDomain(w[1])
    BY CsrWritesAssumption
  <2>3. CsrWrite([Fetched EXCEPT !.xreg = x], w[1], w[2]) \in HartType
    BY <2>1, <2>2, CsrWriteTyped
  <2> QED BY <1>12, <1>h, <1>i, <2>3, RaiseTyped, RetireTyped DEF CsrReadWrite, TypeOK
<1>13. ASSUME NEW c \in IntCauses, NEW set \in BOOLEAN, SetPending(c, set)
       PROVE  TypeOK'
  BY <1>13 DEF SetPending, TypeOK, HartType, Events
<1>14. ASSUME NEW p \in Pcs, HsmStart(p)  PROVE TypeOK'
  <2>1. S \in Modes
    BY DEF Modes
  <2> QED BY <1>14, <2>1 DEF HsmStart, TypeOK, HartType, Events
<1>15. CASE Halt
  BY <1>15 DEF Halt, TypeOK, HartType, Events
<1>16. ASSUME NEW x \in Values, NEW n \in {0, 1}, Reset(x, n)  PROVE TypeOK'
  <2>1. n % InstretMod \in 0 .. InstretMod - 1
    BY ModInstret
  <2>2. ResetHart(x) \in HartType
    BY ZeroPc, HartAssumption
    DEF ResetHart, ResetMstatus, HartType, Mstatus, Tvecs, Modes, U, S, M
  <2> DEFINE i == n % InstretMod
  <2>3. hart' = [ResetHart(x) EXCEPT !.instret = i] /\ event' = "machine"
        /\ mctx' = NoContext /\ sctx' = NoContext
    BY <1>16 DEF Reset
  <2> HIDE DEF i
  <2> QED BY <1>h, <2>1, <2>2, <2>3 DEF HartType, TypeOK, Events, i
<1>17. CASE UNCHANGED vars
  BY <1>17 DEF vars, TypeOK
<1> QED
  BY <1>1, <1>2, <1>3, <1>4, <1>5, <1>6, <1>7, <1>8, <1>9, <1>10, <1>11, <1>12,
     <1>13, <1>14, <1>15, <1>16, <1>17
  DEF Next, Step, Machine

(* Type correctness: mode, mpp and spp stay legal privilege levels and     *)
(* every register stays in its range whatever software writes (TypeOK).    *)
THEOREM TypeCorrect == Spec => []TypeOK
<1>1. Init => TypeOK
  <2> SUFFICES ASSUME NEW x \in Values, hart = ResetHart(x), event = "machine",
                      mctx = NoContext, sctx = NoContext
               PROVE  TypeOK
    BY DEF Init
  <2>1. ResetHart(x) \in HartType
    BY ZeroPc, HartAssumption
    DEF ResetHart, ResetMstatus, HartType, Mstatus, Tvecs, Modes, U, S, M
  <2> QED BY <2>1 DEF TypeOK, Events
<1> QED BY <1>1, TypeOKStep, PTL DEF Spec

-----------------------------------------------------------------------------
(* What a trap does to the registers the properties look at.  The hart h   *)
(* that traps is the fetched or the woken one: only its pc or its waiting  *)
(* flag differ from the hart the step started with.                        *)
SameState(h) ==
    /\ h \in HartType
    /\ h.mode = hart.mode /\ h.mstatus = hart.mstatus
    /\ h.mepc = hart.mepc /\ h.sepc = hart.sepc
    /\ h.mtvec = hart.mtvec /\ h.stvec = hart.stvec
    /\ h.mip = hart.mip /\ h.mie = hart.mie
    /\ h.mideleg = hart.mideleg /\ h.medeleg = hart.medeleg
    /\ h.mcounter = hart.mcounter /\ h.scounter = hart.scounter
    /\ h.xreg = hart.xreg /\ h.instret = hart.instret

(* Fetching changes nothing but the pc.                                    *)
LEMMA FetchedSame == hart \in HartType => SameState(Fetched)
<1> SUFFICES ASSUME hart \in HartType PROVE SameState(Fetched)
  OBVIOUS
<1>1. Fetched \in HartType
  BY FetchedTyped
<1> DEFINE p == (hart.pc + 1) % NPc
<1>2. Fetched = [hart EXCEPT !.pc = p]
  BY DEF Fetched
<1> HIDE DEF p
<1> QED BY <1>1, <1>2 DEF SameState, HartType

(* Waking for an interrupt changes nothing but the wait flag.              *)
LEMMA AwakeSame ==
    hart \in HartType => SameState([hart EXCEPT !.waiting = FALSE])
BY DEF SameState, HartType

(* What a delegated trap writes and what it leaves alone.                  *)
LEMMA ToSupervisorFields ==
    ASSUME hart \in HartType, NEW h, SameState(h), NEW cause, NEW interrupt \in BOOLEAN,
           NEW epc \in Pcs, Enter(h, cause, interrupt, epc),
           ToSupervisor(h, cause, interrupt)
    PROVE  /\ hart.mode \in {U, S} /\ hart'.mode = S
           /\ hart'.sepc = epc /\ hart'.mstatus.spp = hart.mode
           /\ hart'.mstatus.spie = hart.mstatus.sie
           /\ hart'.xreg = hart.xreg /\ hart'.instret = hart.instret
           /\ ProtectedStep /\ hart'.mepc = hart.mepc
           /\ \A f \in {"mpie", "mpp"} : hart'.mstatus[f] = hart.mstatus[f]
           /\ sctx' = SContext /\ mctx' = mctx
<1> DEFINE v == Vector(h.stvec, cause, interrupt)
           ms == [h.mstatus EXCEPT !.spie = h.mstatus.sie, !.sie = FALSE, !.spp = h.mode]
<1>1. hart' = [h EXCEPT !.sepc = epc, !.mstatus = ms, !.mode = S, !.pc = v]
  BY DEF Enter, Trap, TrapS
<1>2. hart.mode \in {U, S}
  BY DEF ToSupervisor, SameState, HartType, Modes, U, S, M
<1>3. h \in HartType /\ h.mstatus \in Mstatus
  BY DEF SameState, HartType
<1>4. /\ ms.spp = hart.mode /\ ms.spie = hart.mstatus.sie
      /\ \A f \in {"mie", "mpie", "mpp", "mprv", "tvm", "tw", "tsr"} :
            ms[f] = hart.mstatus[f]
  BY <1>3 DEF Mstatus, SameState
<1>5. sctx' = SContext /\ mctx' = mctx
  BY DEF Enter
<1> HIDE DEF v, ms
<1>6. /\ hart'.mode = S /\ hart'.sepc = epc /\ hart'.mstatus = ms
      /\ hart'.xreg = h.xreg /\ hart'.instret = h.instret
      /\ hart'.mtvec = h.mtvec /\ hart'.medeleg = h.medeleg
      /\ hart'.mideleg = h.mideleg /\ hart'.mcounter = h.mcounter
      /\ hart'.mie = h.mie /\ hart'.mip = h.mip /\ hart'.mepc = h.mepc
  BY <1>1, <1>3 DEF HartType
<1> QED BY <1>2, <1>4, <1>5, <1>6 DEF SameState, ProtectedStep

(* What a trap to machine mode writes and what it leaves alone.            *)
LEMMA ToMachineFields ==
    ASSUME hart \in HartType, NEW h, SameState(h), NEW cause, NEW interrupt \in BOOLEAN,
           NEW epc \in Pcs, Enter(h, cause, interrupt, epc),
           ~ToSupervisor(h, cause, interrupt)
    PROVE  /\ hart'.mode = M
           /\ hart'.mepc = epc /\ hart'.mstatus.mpp = hart.mode
           /\ hart'.mstatus.mpie = hart.mstatus.mie
           /\ hart'.xreg = hart.xreg /\ hart'.instret = hart.instret
           /\ hart'.sepc = hart.sepc /\ hart'.mstatus.spp = hart.mstatus.spp
           /\ hart'.mstatus.spie = hart.mstatus.spie
           /\ mctx' = MContext /\ sctx' = sctx
<1> DEFINE v == Vector(h.mtvec, cause, interrupt)
           ms == [h.mstatus EXCEPT !.mpie = h.mstatus.mie, !.mie = FALSE, !.mpp = h.mode]
<1>1. hart' = [h EXCEPT !.mepc = epc, !.mstatus = ms, !.mode = M, !.pc = v]
  BY DEF Enter, Trap, TrapM
<1>2. h \in HartType /\ h.mstatus \in Mstatus
  BY DEF SameState, HartType
<1>3. /\ ms.mpp = hart.mode /\ ms.mpie = hart.mstatus.mie
      /\ ms.spp = hart.mstatus.spp /\ ms.spie = hart.mstatus.spie
  BY <1>2 DEF Mstatus, SameState
<1>4. mctx' = MContext /\ sctx' = sctx
  BY DEF Enter
<1> HIDE DEF v, ms
<1>5. /\ hart'.mode = M /\ hart'.mepc = epc /\ hart'.mstatus = ms
      /\ hart'.xreg = h.xreg /\ hart'.instret = h.instret /\ hart'.sepc = h.sepc
  BY <1>1, <1>2 DEF HartType
<1> QED BY <1>3, <1>4, <1>5 DEF SameState

-----------------------------------------------------------------------------
(* Every step is of one of these kinds.                                    *)
Trapped ==
    \E h \in HartType, cause \in Nat, interrupt \in BOOLEAN :
       SameState(h) /\ Enter(h, cause, interrupt, hart.pc)

Plain ==
    /\ hart'.mstatus = hart.mstatus
    /\ hart'.mepc = hart.mepc /\ hart'.sepc = hart.sepc
    /\ hart'.mtvec = hart.mtvec /\ hart'.mcounter = hart.mcounter
    /\ hart'.mie = hart.mie
    /\ hart'.mideleg = hart.mideleg /\ hart'.medeleg = hart.medeleg
    /\ event' \notin {"interrupt", "exception"}
    /\ event' # "machine" => hart'.mip = hart.mip
    /\ UNCHANGED <<mctx, sctx>>

MretDone == hart.mode = M /\ Retire(MretState(hart)) /\ mctx' = NoContext /\ sctx' = sctx
SretDone == Retire(SretState(hart)) /\ sctx' = NoContext /\ mctx' = mctx

CsrWritten ==
    \E csr \in Csrs : \E v \in CsrDomain(csr), x \in Values :
       /\ CsrLegal(hart, csr, TRUE)
       /\ Retire(CsrWrite([Fetched EXCEPT !.xreg = x], csr, v))
       /\ mctx' = IF csr \in {"mstatus", "mepc"} THEN NoContext ELSE mctx
       /\ sctx' = IF csr \in {"mstatus", "sstatus", "sepc"} THEN NoContext ELSE sctx

HasReset ==
    hart'.mode = M /\ event' = "machine" /\ mctx' = NoContext /\ sctx' = NoContext

(* An exception raised by an instruction is a Trapped step.                *)
LEMMA RaiseKind == ASSUME hart \in HartType, NEW c \in ExcCauses, Raise(c)  PROVE Trapped
<1>1. Fetched \in HartType /\ SameState(Fetched) /\ c \in Nat
  BY FetchedTyped, FetchedSame, CausesTyped
<1> QED BY <1>1 DEF Raise, Trapped

(* Retiring an instruction that left the control registers alone.          *)
LEMMA RetirePlain ==
    ASSUME NEW h \in HartType, Retire(h), UNCHANGED <<mctx, sctx>>,
           h.mstatus = hart.mstatus, h.mepc = hart.mepc, h.sepc = hart.sepc,
           h.mtvec = hart.mtvec, h.mcounter = hart.mcounter, h.mie = hart.mie,
           h.mideleg = hart.mideleg, h.medeleg = hart.medeleg, h.mip = hart.mip
    PROVE  Plain
<1> DEFINE n == (h.instret + 1) % InstretMod
<1>1. hart' = [h EXCEPT !.instret = n] /\ event' = "retired"
  BY DEF Retire
<1> HIDE DEF n
<1> QED BY <1>1 DEF Plain, HartType

(* Every step of the hart or of the machine around it is of one of six     *)
(* kinds; the proofs below argue by kind.                                  *)
LEMMA StepKinds ==
    TypeOK /\ Next =>
       Trapped \/ Plain \/ MretDone \/ SretDone \/ CsrWritten \/ HasReset
<1> SUFFICES ASSUME TypeOK, Next
             PROVE  Trapped \/ Plain \/ MretDone \/ SretDone \/ CsrWritten \/ HasReset
  OBVIOUS
<1>h. hart \in HartType /\ SameState(Fetched) /\ Fetched \in HartType /\ hart.mode \in Modes
  BY FetchedSame, FetchedTyped DEF TypeOK, HartType
<1>i. Illegal \in ExcCauses /\ EcallCause(hart.mode) \in ExcCauses
  BY <1>h, CausesTyped
<1>1. CASE TakeInterrupt
  <2> DEFINE h == [hart EXCEPT !.waiting = FALSE]
  <2>1. Chosen(hart) \in Nat
    BY <1>1, <1>h, ChosenTakeable, HartAssumption
    DEF TakeInterrupt, Interrupted, Takeable, Pending, HartType
  <2>2. h \in HartType /\ SameState(h)
    BY <1>h, AwakeSame DEF SameState
  <2>3. Enter(h, Chosen(hart), TRUE, hart.pc)
    BY <1>1 DEF TakeInterrupt
  <2> HIDE DEF h
  <2> QED BY <2>1, <2>2, <2>3 DEF Trapped
<1>2. CASE Sleep
  BY <1>2 DEF Sleep, Plain
<1>3. ASSUME NEW c \in FaultCauses \cup {Illegal}, Fault(c)  PROVE Trapped
  <2>1. c \in ExcCauses
    BY DEF ExcCauses
  <2> QED BY <1>h, <1>3, <2>1, RaiseKind DEF Fault
<1>4. ASSUME NEW next \in Pcs, NEW x \in Values, Complete(next, x)  PROVE Plain
  <2> DEFINE h == [hart EXCEPT !.pc = next, !.xreg = x]
  <2>1. /\ h \in HartType /\ h.mstatus = hart.mstatus /\ h.mepc = hart.mepc
        /\ h.sepc = hart.sepc /\ h.mtvec = hart.mtvec /\ h.mcounter = hart.mcounter
        /\ h.mie = hart.mie /\ h.mideleg = hart.mideleg /\ h.medeleg = hart.medeleg
        /\ h.mip = hart.mip
    BY <1>h DEF HartType
  <2>2. Retire(h) /\ UNCHANGED <<mctx, sctx>>
    BY <1>4 DEF Complete
  <2> HIDE DEF h
  <2> QED BY <2>1, <2>2, RetirePlain
<1>5. CASE EcallTrap
  BY <1>h, <1>i, <1>5, RaiseKind DEF EcallTrap
<1>6. ASSUME NEW next \in Pcs, NEW x \in Values, NEW halts \in BOOLEAN,
             NEW waits \in BOOLEAN, EcallShim(next, x, halts, waits)
      PROVE  Plain
  <2> DEFINE h == [Fetched EXCEPT !.pc = next, !.xreg = x, !.halted = halts,
                                  !.waiting = waits]
  <2>1. /\ h \in HartType /\ h.mstatus = hart.mstatus /\ h.mepc = hart.mepc
        /\ h.sepc = hart.sepc /\ h.mtvec = hart.mtvec /\ h.mcounter = hart.mcounter
        /\ h.mie = hart.mie /\ h.mideleg = hart.mideleg /\ h.medeleg = hart.medeleg
        /\ h.mip = hart.mip
    BY <1>h DEF HartType, SameState
  <2>2. Retire(h) /\ UNCHANGED <<mctx, sctx>>
    BY <1>6 DEF EcallShim
  <2> HIDE DEF h
  <2> QED BY <2>1, <2>2, RetirePlain
<1>7. CASE Mret
  BY <1>h, <1>i, <1>7, RaiseKind DEF Mret, MretDone
<1>8. CASE Sret
  BY <1>h, <1>i, <1>8, RaiseKind DEF Sret, SretDone
<1>9. CASE Wfi
  <2> DEFINE h == [Fetched EXCEPT !.waiting = TRUE]
  <2>1. /\ h \in HartType /\ h.mstatus = hart.mstatus /\ h.mepc = hart.mepc
        /\ h.sepc = hart.sepc /\ h.mtvec = hart.mtvec /\ h.mcounter = hart.mcounter
        /\ h.mie = hart.mie /\ h.mideleg = hart.mideleg /\ h.medeleg = hart.medeleg
        /\ h.mip = hart.mip
    BY <1>h DEF HartType, SameState
  <2>2. Raise(Illegal) \/ (Retire(h) /\ UNCHANGED <<mctx, sctx>>)
    BY <1>9 DEF Wfi
  <2> HIDE DEF h
  <2> QED BY <1>h, <1>i, <2>1, <2>2, RetirePlain, RaiseKind
<1>10. CASE SfenceVma
  <2>1. Raise(Illegal) \/ (Retire(Fetched) /\ UNCHANGED <<mctx, sctx>>)
    BY <1>10 DEF SfenceVma
  <2> QED BY <1>h, <1>i, <2>1, RetirePlain, RaiseKind DEF SameState
<1>11. ASSUME NEW csr \in CsrReads, NEW x \in Values, CsrRead(csr, x)
       PROVE  Trapped \/ Plain
  <2> DEFINE h == [Fetched EXCEPT !.xreg = x]
  <2>1. /\ h \in HartType /\ h.mstatus = hart.mstatus /\ h.mepc = hart.mepc
        /\ h.sepc = hart.sepc /\ h.mtvec = hart.mtvec /\ h.mcounter = hart.mcounter
        /\ h.mie = hart.mie /\ h.mideleg = hart.mideleg /\ h.medeleg = hart.medeleg
        /\ h.mip = hart.mip
    BY <1>h DEF HartType, SameState
  <2>2. Raise(Illegal) \/ (Retire(h) /\ UNCHANGED <<mctx, sctx>>)
    BY <1>11 DEF CsrRead
  <2> HIDE DEF h
  <2> QED BY <1>h, <1>i, <2>1, <2>2, RetirePlain, RaiseKind
<1>12. ASSUME NEW w \in CsrWrites, NEW x \in Values, CsrReadWrite(w[1], w[2], x)
       PROVE  Trapped \/ CsrWritten
  <2>1. w[1] \in Csrs /\ w[2] \in CsrDomain(w[1])
    BY CsrWritesAssumption
  <2>2. CASE CsrLegal(hart, w[1], TRUE)
    BY <1>12, <2>1, <2>2 DEF CsrReadWrite, CsrWritten
  <2>3. CASE ~CsrLegal(hart, w[1], TRUE)
    BY <1>h, <1>i, <1>12, <2>3, RaiseKind DEF CsrReadWrite
  <2> QED BY <2>2, <2>3
<1>13. ASSUME NEW c \in IntCauses, NEW set \in BOOLEAN, SetPending(c, set)  PROVE Plain
  BY <1>h, <1>13 DEF SetPending, Plain, HartType
<1>14. ASSUME NEW p \in Pcs, HsmStart(p)  PROVE Plain
  BY <1>h, <1>14 DEF HsmStart, Plain, HartType
<1>15. CASE Halt
  BY <1>h, <1>15 DEF Halt, Plain, HartType
<1>16. ASSUME NEW x \in Values, NEW n \in {0, 1}, Reset(x, n)  PROVE HasReset
  BY <1>16 DEF Reset, HasReset, ResetHart
<1> QED
  BY <1>1, <1>2, <1>3, <1>4, <1>5, <1>6, <1>7, <1>8, <1>9, <1>10, <1>11, <1>12,
     <1>13, <1>14, <1>15, <1>16
  DEF Next, Step, Machine

-----------------------------------------------------------------------------
(* What the returns and the CSR writes leave alone.                        *)
LEMMA MretFields ==
    ASSUME hart \in HartType, MretDone
    PROVE  /\ hart'.sepc = hart.sepc /\ hart'.mstatus.spp = hart.mstatus.spp
           /\ hart'.mstatus.spie = hart.mstatus.spie
           /\ event' = "retired"
<1> DEFINE ms == [hart.mstatus EXCEPT !.mie = hart.mstatus.mpie, !.mpie = TRUE, !.mpp = U,
                     !.mprv = (hart.mstatus.mpp = M /\ hart.mstatus.mprv)]
           n == (MretState(hart).instret + 1) % InstretMod
<1>1. MretState(hart) = [hart EXCEPT !.mstatus = ms, !.mode = hart.mstatus.mpp, !.pc = hart.mepc]
  BY DEF MretState
<1>2. hart' = [MretState(hart) EXCEPT !.instret = n] /\ event' = "retired"
  BY DEF MretDone, Retire
<1>3. hart.mstatus \in Mstatus /\ MretState(hart) \in HartType
  BY ReturnsTyped DEF HartType
<1>4. ms.spp = hart.mstatus.spp /\ ms.spie = hart.mstatus.spie
  BY <1>3 DEF Mstatus
<1> HIDE DEF ms, n
<1>5. hart'.mstatus = ms /\ hart'.sepc = hart.sepc
  BY <1>1, <1>2, <1>3 DEF HartType
<1> QED BY <1>2, <1>4, <1>5

(* What sret leaves alone: everything machine mode owns.                   *)
LEMMA SretFields ==
    ASSUME hart \in HartType, SretDone
    PROVE  /\ hart'.mepc = hart.mepc /\ hart'.mtvec = hart.mtvec
           /\ hart'.medeleg = hart.medeleg /\ hart'.mideleg = hart.mideleg
           /\ hart'.mcounter = hart.mcounter /\ hart'.mie = hart.mie
           /\ hart'.mip = hart.mip
           /\ \A f \in {"mie", "mpie", "mpp", "mprv", "tvm", "tw", "tsr"} :
                 hart'.mstatus[f] = hart.mstatus[f]
           /\ event' = "retired"
<1> DEFINE ms == [hart.mstatus EXCEPT !.sie = hart.mstatus.spie, !.spie = TRUE, !.spp = U]
           n == (SretState(hart).instret + 1) % InstretMod
<1>1. SretState(hart) = [hart EXCEPT !.mstatus = ms, !.mode = hart.mstatus.spp, !.pc = hart.sepc]
  BY DEF SretState
<1>2. hart' = [SretState(hart) EXCEPT !.instret = n] /\ event' = "retired"
  BY DEF SretDone, Retire
<1>3. hart.mstatus \in Mstatus /\ SretState(hart) \in HartType
  BY ReturnsTyped DEF HartType
<1>4. \A f \in {"mie", "mpie", "mpp", "mprv", "tvm", "tw", "tsr"} : ms[f] = hart.mstatus[f]
  BY <1>3 DEF Mstatus
<1> HIDE DEF ms, n
<1>5. /\ hart'.mstatus = ms /\ hart'.mepc = hart.mepc /\ hart'.mtvec = hart.mtvec
      /\ hart'.medeleg = hart.medeleg /\ hart'.mideleg = hart.mideleg
      /\ hart'.mcounter = hart.mcounter /\ hart'.mie = hart.mie /\ hart'.mip = hart.mip
  BY <1>1, <1>2, <1>3 DEF HartType
<1> QED BY <1>2, <1>4, <1>5

(* The hart after a CSR write, apart from its retire counter.              *)
LEMMA CsrFields ==
    ASSUME hart \in HartType, NEW csr \in Csrs, NEW v \in CsrDomain(csr), NEW x \in Values,
           Retire(CsrWrite([Fetched EXCEPT !.xreg = x], csr, v))
    PROVE  /\ event' = "retired"
           /\ csr # "mepc" => hart'.mepc = hart.mepc
           /\ csr # "sepc" => hart'.sepc = hart.sepc
           /\ csr \notin {"mstatus", "sstatus"} => hart'.mstatus = hart.mstatus
           /\ csr = "sstatus" =>
                \A f \in {"mie", "mpie", "mpp", "mprv", "tvm", "tw", "tsr"} :
                   hart'.mstatus[f] = hart.mstatus[f]
           /\ csr \notin MCsrs =>
                /\ hart'.mtvec = hart.mtvec /\ hart'.medeleg = hart.medeleg
                /\ hart'.mideleg = hart.mideleg /\ hart'.mcounter = hart.mcounter
                /\ hart'.mie \ hart.mideleg = hart.mie \ hart.mideleg
                /\ hart'.mip \cap {3, 7, 11} = hart.mip \cap {3, 7, 11}
           /\ hart'.mode = hart.mode
<1> DEFINE h == [Fetched EXCEPT !.xreg = x]
           g == CsrWrite(h, csr, v)
           n == (g.instret + 1) % InstretMod
<1>1. Fetched \in HartType /\ SameState(Fetched)
  BY FetchedTyped, FetchedSame
<1>2. /\ h \in HartType
      /\ h.mode = hart.mode /\ h.mstatus = hart.mstatus
      /\ h.mepc = hart.mepc /\ h.sepc = hart.sepc /\ h.mtvec = hart.mtvec
      /\ h.mie = hart.mie /\ h.mideleg = hart.mideleg /\ h.medeleg = hart.medeleg
      /\ h.mcounter = hart.mcounter /\ h.mip = hart.mip
  BY <1>1 DEF HartType, SameState
<1>3. g \in HartType
  BY <1>2, CsrWriteTyped
<1>4. hart' = [g EXCEPT !.instret = n] /\ event' = "retired"
  BY DEF Retire
<1> HIDE DEF h, n
<1>5. /\ csr # "mepc" => g.mepc = h.mepc
      /\ csr # "sepc" => g.sepc = h.sepc
      /\ csr \notin {"mstatus", "sstatus"} => g.mstatus = h.mstatus
      /\ csr \notin MCsrs => /\ g.mtvec = h.mtvec /\ g.medeleg = h.medeleg
                             /\ g.mideleg = h.mideleg /\ g.mcounter = h.mcounter
      /\ csr \notin MCsrs /\ csr # "sie" => g.mie = h.mie
      /\ csr = "sie" => g.mie = Merge(h.mie, h.mideleg, v)
      /\ csr \notin MCsrs /\ csr # "sip" => g.mip = h.mip
      /\ csr = "sip" => g.mip = Merge(h.mip, SipMask, v)
      /\ csr = "sstatus" => g.mstatus = WriteSstatus(h.mstatus, v)
      /\ g.mode = h.mode
  BY <1>2 DEF CsrWrite, HartType, MCsrs, SCsrs, UCsrs, Csrs, WriteSie
<1> HIDE DEF g
<1>6. /\ hart'.mepc = g.mepc /\ hart'.sepc = g.sepc /\ hart'.mstatus = g.mstatus
      /\ hart'.mtvec = g.mtvec /\ hart'.medeleg = g.medeleg /\ hart'.mideleg = g.mideleg
      /\ hart'.mcounter = g.mcounter /\ hart'.mie = g.mie /\ hart'.mode = g.mode
      /\ hart'.mip = g.mip
  BY <1>3, <1>4 DEF HartType
<1>7. \A f \in {"mie", "mpie", "mpp", "mprv", "tvm", "tw", "tsr"} :
         WriteSstatus(h.mstatus, v)[f] = h.mstatus[f]
  BY <1>2 DEF HartType, Mstatus, WriteSstatus
<1>8. /\ Merge(h.mie, h.mideleg, v) \ h.mideleg = h.mie \ h.mideleg
      /\ Merge(h.mip, SipMask, v) \cap {3, 7, 11} = h.mip \cap {3, 7, 11}
  BY DEF Merge, SipMask
<1> QED BY <1>2, <1>4, <1>5, <1>6, <1>7, <1>8

-----------------------------------------------------------------------------
(* The interrupted contexts survive whatever runs before their return:     *)
(* a machine trap inside a supervisor handler, nested or reversed returns. *)
LEMMA ContextsStep == TypeOK /\ ContextsKept /\ Next => ContextsKept'
<1> SUFFICES ASSUME TypeOK, ContextsKept, Next PROVE ContextsKept'
  OBVIOUS
<1>h. hart \in HartType
  BY DEF TypeOK
<1> USE DEF ContextsKept
<1>1. CASE Trapped
  <2>1. PICK h \in HartType, cause \in Nat, interrupt \in BOOLEAN :
           SameState(h) /\ Enter(h, cause, interrupt, hart.pc)
    BY <1>1 DEF Trapped
  <2>2. hart.pc \in Pcs
    BY <1>h DEF HartType
  <2>3. CASE ToSupervisor(h, cause, interrupt)
    BY <1>h, <2>1, <2>2, <2>3, ToSupervisorFields DEF SContext
  <2>4. CASE ~ToSupervisor(h, cause, interrupt)
    BY <1>h, <2>1, <2>2, <2>4, ToMachineFields DEF MContext
  <2> QED BY <2>3, <2>4
<1>2. CASE Plain
  BY <1>2 DEF Plain
<1>3. CASE MretDone
  BY <1>h, <1>3, MretFields DEF MretDone
<1>4. CASE SretDone
  BY <1>h, <1>4, SretFields DEF SretDone
<1>5. CASE CsrWritten
  <2>1. PICK csr \in Csrs : \E v \in CsrDomain(csr), x \in Values :
           /\ Retire(CsrWrite([Fetched EXCEPT !.xreg = x], csr, v))
           /\ mctx' = IF csr \in {"mstatus", "mepc"} THEN NoContext ELSE mctx
           /\ sctx' = IF csr \in {"mstatus", "sstatus", "sepc"} THEN NoContext ELSE sctx
    BY <1>5 DEF CsrWritten
  <2>2. /\ csr # "mepc" => hart'.mepc = hart.mepc
        /\ csr # "sepc" => hart'.sepc = hart.sepc
        /\ csr \notin {"mstatus", "sstatus"} => hart'.mstatus = hart.mstatus
        /\ csr = "sstatus" => \A f \in {"mie", "mpie", "mpp", "mprv", "tvm", "tw", "tsr"} :
                                 hart'.mstatus[f] = hart.mstatus[f]
    BY <1>h, <2>1, CsrFields
  <2>3. csr \notin {"mstatus", "mepc"} =>
           /\ mctx' = mctx /\ hart'.mepc = hart.mepc
           /\ hart'.mstatus.mpp = hart.mstatus.mpp
           /\ hart'.mstatus.mpie = hart.mstatus.mpie
    BY <2>1, <2>2
  <2>4. csr \notin {"mstatus", "sstatus", "sepc"} =>
           sctx' = sctx /\ hart'.sepc = hart.sepc /\ hart'.mstatus = hart.mstatus
    BY <2>1, <2>2
  <2>5. /\ csr \in {"mstatus", "mepc"} => mctx' = NoContext
        /\ csr \in {"mstatus", "sstatus", "sepc"} => sctx' = NoContext
    BY <2>1
  <2> QED BY <2>3, <2>4, <2>5
<1>6. CASE HasReset
  BY <1>6 DEF HasReset
<1> QED BY <1>1, <1>2, <1>3, <1>4, <1>5, <1>6, StepKinds

(* The interrupted context stays in the trap registers until its return    *)
(* or a rewrite by the handler (ContextsKept, of trap, mret, sret and      *)
(* csrWrite).                                                              *)
THEOREM ContextsAreKept == Spec => []ContextsKept
<1>1. Init => ContextsKept
  BY DEF Init, ContextsKept
<1>2. ContextsKept /\ UNCHANGED vars => ContextsKept'
  BY DEF ContextsKept, vars
<1> QED BY <1>1, <1>2, ContextsStep, TypeCorrect, PTL DEF Spec

(* A step that traps has no other effect.                                  *)
THEOREM TrapsPrecise == Spec => TrapsArePrecise
<1>1. TypeOK /\ Next => PreciseStep
  <2> SUFFICES ASSUME TypeOK, Next, event' \in {"interrupt", "exception"}
               PROVE  /\ hart'.xreg = hart.xreg
                      /\ hart'.instret = hart.instret
                      /\ hart'.mode >= hart.mode
                      /\ IF hart'.mode = M
                         THEN hart'.mepc = hart.pc /\ hart'.sepc = hart.sepc
                         ELSE hart'.sepc = hart.pc /\ hart'.mepc = hart.mepc
    BY DEF PreciseStep
  <2>h. hart \in HartType
    BY DEF TypeOK
  <2>1. Trapped
    <3>1. ~Plain /\ ~HasReset
      BY DEF Plain, HasReset
    <3>2. ~MretDone /\ ~SretDone /\ ~CsrWritten
      BY DEF MretDone, SretDone, CsrWritten, Retire
    <3> QED BY <3>1, <3>2, StepKinds
  <2>2. PICK h \in HartType, cause \in Nat, interrupt \in BOOLEAN :
           SameState(h) /\ Enter(h, cause, interrupt, hart.pc)
    BY <2>1 DEF Trapped
  <2>3. hart.pc \in Pcs /\ hart.mode \in {0, 1, 3}
    BY <2>h DEF HartType, Modes, U, S, M
  <2>4. CASE ToSupervisor(h, cause, interrupt)
    BY <2>h, <2>2, <2>3, <2>4, ToSupervisorFields DEF U, S, M
  <2>5. CASE ~ToSupervisor(h, cause, interrupt)
    BY <2>h, <2>2, <2>3, <2>5, ToMachineFields DEF M
  <2> QED BY <2>4, <2>5
<1> QED BY <1>1, TypeCorrect, PTL DEF Spec, TrapsArePrecise

(* Code below machine mode changes nothing machine mode relies on.         *)
THEOREM MachineProtected == Spec => MachineStateProtected
<1>1. TypeOK /\ Next => ProtectedStep
  <2> SUFFICES ASSUME TypeOK, Next, hart.mode < M, hart'.mode < M  PROVE ProtectedStep
    BY DEF ProtectedStep
  <2>h. hart \in HartType /\ hart.pc \in Pcs /\ hart.mode \in {0, 1, 3}
    BY DEF TypeOK, HartType, Modes, U, S, M
  <2>1. CASE Trapped
    <3>1. PICK h \in HartType, cause \in Nat, interrupt \in BOOLEAN :
             SameState(h) /\ Enter(h, cause, interrupt, hart.pc)
      BY <2>1 DEF Trapped
    <3>2. CASE ToSupervisor(h, cause, interrupt)
      BY <2>h, <3>1, <3>2, ToSupervisorFields
    <3>3. CASE ~ToSupervisor(h, cause, interrupt)
      BY <2>h, <3>1, <3>3, ToMachineFields DEF M
    <3> QED BY <3>2, <3>3
  <2>2. CASE Plain
    BY <2>2 DEF Plain, ProtectedStep
  <2>3. CASE MretDone
    BY <2>3 DEF MretDone, M
  <2>4. CASE SretDone
    BY <2>h, <2>4, SretFields DEF ProtectedStep
  <2>5. CASE CsrWritten
    <3>1. PICK csr \in Csrs : \E v \in CsrDomain(csr), x \in Values :
             /\ CsrLegal(hart, csr, TRUE)
             /\ Retire(CsrWrite([Fetched EXCEPT !.xreg = x], csr, v))
      BY <2>5 DEF CsrWritten
    <3>2. csr \notin MCsrs
      <4>1. hart.mode >= CsrPriv(csr) /\ hart.mode < 3
        BY <3>1 DEF CsrLegal, M
      <4>2. csr \in MCsrs => CsrPriv(csr) = 3
        BY DEF CsrPriv, M
      <4> QED BY <2>h, <4>1, <4>2
    <3>3. csr # "mepc" /\ csr # "mstatus"
      BY <3>2 DEF MCsrs
    <3>4. /\ hart'.mepc = hart.mepc
          /\ csr # "sstatus" => hart'.mstatus = hart.mstatus
          /\ csr = "sstatus" =>
                \A f \in {"mie", "mpie", "mpp", "mprv", "tvm", "tw", "tsr"} :
                   hart'.mstatus[f] = hart.mstatus[f]
          /\ hart'.mtvec = hart.mtvec /\ hart'.medeleg = hart.medeleg
          /\ hart'.mideleg = hart.mideleg /\ hart'.mcounter = hart.mcounter
          /\ hart'.mie \ hart.mideleg = hart.mie \ hart.mideleg
          /\ hart'.mip \cap {3, 7, 11} = hart.mip \cap {3, 7, 11}
      BY <2>h, <3>1, <3>2, <3>3, CsrFields
    <3> QED BY <3>4 DEF ProtectedStep
  <2>6. CASE HasReset
    BY <2>6 DEF HasReset, M
  <2> QED BY <2>1, <2>2, <2>3, <2>4, <2>5, <2>6, StepKinds
<1> QED BY <1>1, TypeCorrect, PTL DEF Spec, MachineStateProtected

(* A return puts the hart back where the trap took it from: the saved      *)
(* context is intact (ContextsKept) and the return restores all of it.     *)
THEOREM ReturnsCorrect == Spec => ReturnsResume
<1>1. TypeOK /\ ContextsKept /\ Next => ResumeStep
  <2> SUFFICES ASSUME TypeOK, ContextsKept PROVE ResumeStep
    OBVIOUS
  <2>h. hart \in HartType /\ hart.mstatus \in Mstatus
    BY DEF TypeOK, HartType
  <2>1. ASSUME Mret, event' = "retired", mctx # NoContext
        PROVE  [mode |-> hart'.mode, pc |-> hart'.pc, ie |-> hart'.mstatus.mie] = mctx
    <3>1. Retire(MretState(hart))
      BY <2>1 DEF Mret, Raise, Enter
    <3> DEFINE n == (MretState(hart).instret + 1) % InstretMod
    <3>2. hart' = [MretState(hart) EXCEPT !.instret = n]
      BY <3>1 DEF Retire
    <3>3. MretState(hart) \in HartType
      BY <2>h, ReturnsTyped
    <3> HIDE DEF n
    <3>4. /\ hart'.mode = MretState(hart).mode /\ hart'.pc = MretState(hart).pc
          /\ hart'.mstatus = MretState(hart).mstatus
      BY <3>2, <3>3 DEF HartType
    <3>5. /\ MretState(hart).mode = hart.mstatus.mpp /\ MretState(hart).pc = hart.mepc
          /\ MretState(hart).mstatus.mie = hart.mstatus.mpie
      BY <2>h DEF MretState, HartType, Mstatus
    <3>6. mctx \in Context
      BY <2>1 DEF TypeOK
    <3>7. mctx = [mode |-> mctx.mode, pc |-> mctx.pc, ie |-> mctx.ie]
      BY <3>6 DEF Context
    <3> QED BY <2>1, <3>4, <3>5, <3>7 DEF ContextsKept
  <2>2. ASSUME Sret, event' = "retired", sctx # NoContext
        PROVE  [mode |-> hart'.mode, pc |-> hart'.pc, ie |-> hart'.mstatus.sie] = sctx
    <3>1. Retire(SretState(hart))
      BY <2>2 DEF Sret, Raise, Enter
    <3> DEFINE n == (SretState(hart).instret + 1) % InstretMod
    <3>2. hart' = [SretState(hart) EXCEPT !.instret = n]
      BY <3>1 DEF Retire
    <3>3. SretState(hart) \in HartType
      BY <2>h, ReturnsTyped
    <3> HIDE DEF n
    <3>4. /\ hart'.mode = SretState(hart).mode /\ hart'.pc = SretState(hart).pc
          /\ hart'.mstatus = SretState(hart).mstatus
      BY <3>2, <3>3 DEF HartType
    <3>5. /\ SretState(hart).mode = hart.mstatus.spp /\ SretState(hart).pc = hart.sepc
          /\ SretState(hart).mstatus.sie = hart.mstatus.spie
      BY <2>h DEF SretState, HartType, Mstatus
    <3>6. sctx \in Context
      BY <2>2 DEF TypeOK
    <3>7. sctx = [mode |-> sctx.mode, pc |-> sctx.pc, ie |-> sctx.ie]
      BY <3>6 DEF Context
    <3> QED BY <2>2, <3>4, <3>5, <3>7 DEF ContextsKept
  <2> QED BY <2>1, <2>2 DEF ResumeStep
<1> QED BY <1>1, ContextsAreKept, TypeCorrect, PTL DEF Spec, ReturnsResume

(* The interrupts checkInterrupt lets through are the open ones.           *)
LEMMA TakeableIsOpen == hart \in HartType => Takeable(hart) = Open
BY DEF HartType, Modes, Takeable, Pending, Unmasked, Open, OwnMode, U, S, M

(* The list 11, 3, 7, 9, 1, 5 is the order of the causes.                  *)
LEMMA RankIsOrder ==
    ASSUME NEW c \in {1, 3, 5, 7, 9, 11}, NEW d \in {1, 3, 5, 7, 9, 11}, Rank(c) <= Rank(d)
    PROVE  ~Before(d, c)
<1>1. /\ 1 % 4 = 1 /\ 5 % 4 = 1 /\ 9 % 4 = 1
      /\ 3 % 4 = 3 /\ 7 % 4 = 3 /\ 11 % 4 = 3
  OBVIOUS
<1>2. /\ Urgency(9) = 1 /\ Urgency(11) = 1 /\ Urgency(1) = 2
      /\ Urgency(3) = 2 /\ Urgency(5) = 3 /\ Urgency(7) = 3
  BY DEF Urgency
<1>3. /\ Rank(11) = 1 /\ Rank(3) = 2 /\ Rank(7) = 3
      /\ Rank(9) = 4 /\ Rank(1) = 5 /\ Rank(5) = 6
  BY DEF Rank
<1> QED BY <1>1, <1>2, <1>3 DEF Before

(* No instruction runs and no hart sleeps on while an interrupt is open,   *)
(* and the one taken is open and first in the order of the causes          *)
(* (InterruptsRespectMasks, of checkInterrupt and Step).                   *)
THEOREM MasksRespected == Spec => InterruptsRespectMasks
<1>1. TypeOK /\ Next => MaskedStep
  <2> SUFFICES ASSUME TypeOK, Next PROVE MaskedStep
    OBVIOUS
  <2>h. hart \in HartType
    BY DEF TypeOK
  <2>1. event' \in {"retired", "exception", "idle"} => Takeable(hart) = {}
    BY DEF Next, Step, Machine, TakeInterrupt, Enter, Sleep, Fault, Complete, EcallTrap,
           EcallShim, Mret, Sret, Wfi, SfenceVma, CsrRead, CsrReadWrite, Executing,
           SetPending, HsmStart, Halt, Reset
  <2>2. event' = "interrupt" => TakeInterrupt
    BY DEF Next, Step, Machine, Enter, Raise, Retire, Sleep, Fault, Complete, EcallTrap,
           EcallShim, Mret, Sret, Wfi, SfenceVma, CsrRead, CsrReadWrite,
           SetPending, HsmStart, Halt, Reset
  <2>3. Takeable(hart) = Open
    BY <2>h, TakeableIsOpen
  <2>4. ASSUME TakeInterrupt
        PROVE  \E c \in Open :
                  /\ \A d \in Open : ~Before(d, c)
                  /\ hart' = Trap([hart EXCEPT !.waiting = FALSE], c, TRUE, hart.pc)
    <3>1. /\ Chosen(hart) \in Open
          /\ \A d \in Open : Rank(Chosen(hart)) <= Rank(d)
      BY <2>h, <2>3, <2>4, ChosenTakeable DEF TakeInterrupt, Interrupted
    <3>2. Open \subseteq {1, 3, 5, 7, 9, 11}
      BY <2>h, HartAssumption DEF Open, HartType
    <3> DEFINE c == Chosen(hart)
    <3> HIDE DEF c
    <3>3. \A d \in Open : ~Before(d, c)
      <4>1. c \in {1, 3, 5, 7, 9, 11} /\ \A d \in Open : Rank(c) <= Rank(d)
        BY <3>1, <3>2 DEF c
      <4> SUFFICES ASSUME NEW d \in Open  PROVE ~Before(d, c)
        OBVIOUS
      <4> QED BY <3>2, <4>1, RankIsOrder
    <3>4. hart' = Trap([hart EXCEPT !.waiting = FALSE], Chosen(hart), TRUE, hart.pc)
      BY <2>4 DEF TakeInterrupt, Enter
    <3> QED BY <3>1, <3>3, <3>4 DEF c
  <2> QED BY <2>1, <2>2, <2>3, <2>4 DEF MaskedStep
<1> QED BY <1>1, TypeCorrect, PTL DEF Spec, InterruptsRespectMasks
=============================================================================
