--------------------------- MODULE PlatformProofs ---------------------------
(***************************************************************************)
(* Proofs about Plic and Clint, and about Platform, which is both: for any *)
(* number of harts, contexts, sources and priorities and any timer width.  *)
(*                                                                         *)
(* Every operation of the PLIC ends in update(), so LineMirrorsBest is     *)
(* re-established by each step, provided that best() really returns a      *)
(* source whenever one is eligible: that is the lemma BestExists, a        *)
(* least-number argument over priorities and then over ids.                *)
(* AtMostOneClaimPerRaise is inductive together with the types, because a  *)
(* claim takes away the pending bit of exactly the source it counts.       *)
(*                                                                         *)
(* Tick of the CLINT calls update() only when some compare is reached, so  *)
(* its lines may be stale.  NoTimerMissed is inductive all the same: a     *)
(* tick that skips update() proves by its very guard that no compare is    *)
(* reached.  EarlyOnlyAfterWrap is not a consequence of it; it is          *)
(* inductive with the types, because without a wrap mtime only grows       *)
(* between two updates.                                                    *)
(*                                                                         *)
(* In the Platform the mip bits have writers that know nothing of the      *)
(* controllers, so no invariant relates the lines to the registers.  What  *)
(* holds is an action property of each controller: its next operation      *)
(* rewrites its bits from its registers, which need only be well typed.    *)
(***************************************************************************)
EXTENDS Platform, WellFoundedInduction, TLAPS

-----------------------------------------------------------------------------
(* The PLIC.                                                               *)

(* A non-empty set of naturals has a least element.                        *)
LEMMA LeastNatural ==
    ASSUME NEW T \in SUBSET Nat, T # {}
    PROVE  \E m \in T : \A n \in T : m <= n
<1>1. PICK m \in T : \A n \in T : <<n, m>> \notin OpToRel(<, Nat)
  BY NatLessThanWellFounded, WFMin, Zenon
<1>2. ASSUME NEW n \in T, n < m  PROVE <<n, m>> \in OpToRel(<, Nat)
  <2>1. <<n, m>> \in Nat \X Nat /\ <<n, m>>[1] < <<n, m>>[2]
    BY <1>2
  <2> QED BY <2>1, Zenon DEF OpToRel
<1>3. \A n \in T : ~(n < m)
  BY <1>1, <1>2, Zenon
<1> QED BY <1>3

(* best() finds a source whenever one is eligible, and what it finds is    *)
(* eligible and outranks every other: the largest priority exists because  *)
(* priorities are bounded, the smallest id because ids are naturals.       *)
LEMMA BestExists ==
    ASSUME priority \in [Sources -> Prios], NEW c \in Contexts, Eligible(c) # {}
    PROVE  Best(c) \in Eligible(c) /\ \A t \in Eligible(c) : Outranks(Best(c), t)
<1> DEFINE E == Eligible(c)
           Lack == {MaxPrio - priority[s] : s \in E}
<1>1. E \subseteq Sources /\ Sources \subseteq Nat \ {0} /\ MaxPrio \in Nat
  BY PlicAssumption DEF Eligible
<1>2. Lack \in SUBSET Nat /\ Lack # {}
  <2>1. \A s \in E : MaxPrio - priority[s] \in Nat
    <3> SUFFICES ASSUME NEW s \in E PROVE MaxPrio - priority[s] \in Nat
      OBVIOUS
    <3>1. priority[s] \in 0 .. MaxPrio
      BY <1>1 DEF Prios
    <3> QED BY <1>1, <3>1
  <2> QED BY <2>1
<1>3. PICK l \in Lack : \A k \in Lack : l <= k
  BY <1>2, LeastNatural
<1> DEFINE Top == {s \in E : MaxPrio - priority[s] = l}
<1>4. Top \in SUBSET Nat /\ Top # {}
  BY <1>1, <1>3
<1>5. PICK s \in Top : \A t \in Top : s <= t
  BY <1>4, LeastNatural
<1>6. s \in E /\ \A t \in E : Outranks(s, t)
  <2> SUFFICES ASSUME NEW t \in E PROVE Outranks(s, t)
    BY <1>5
  <2>1. /\ priority[s] \in 0 .. MaxPrio /\ priority[t] \in 0 .. MaxPrio
        /\ MaxPrio - priority[s] <= MaxPrio - priority[t]
        /\ priority[s] = priority[t] => t \in Top
    BY <1>1, <1>3, <1>5 DEF Prios
  <2> QED BY <2>1, <1>1, <1>5 DEF Outranks
<1>7. Best(c) = CHOOSE x \in E : \A t \in E : Outranks(x, t)
  BY DEF Best
<1> QED BY <1>6, <1>7, Zenon

(* What a claim would return: an eligible source if there is one, or 0.    *)
BestSound ==
    \A c \in Contexts :
       /\ Best(c) # 0 <=> Eligible(c) # {}
       /\ Best(c) # 0 => Best(c) \in Sources /\ Best(c) \in pending

(* best() returns 0 exactly when nothing is eligible, and otherwise an     *)
(* eligible source.                                                        *)
LEMMA BestIsSource == priority \in [Sources -> Prios] => BestSound
<1> SUFFICES ASSUME priority \in [Sources -> Prios], NEW c \in Contexts
             PROVE  /\ Best(c) # 0 <=> Eligible(c) # {}
                    /\ Best(c) # 0 => Best(c) \in Sources /\ Best(c) \in pending
  BY DEF BestSound
<1>1. CASE Eligible(c) = {}
  BY <1>1 DEF Best
<1>2. CASE Eligible(c) # {}
  <2>1. Best(c) \in Eligible(c)
    BY <1>2, BestExists
  <2>2. Best(c) \in Sources /\ Best(c) \in pending /\ Best(c) # 0
    BY <2>1, PlicAssumption DEF Eligible
  <2> QED BY <1>2, <2>2
<1> QED BY <1>1, <1>2

-----------------------------------------------------------------------------
(* Type correctness: every register, pending bit and line of plic.go keeps *)
(* its range under every device call and register access.                  *)
LEMMA PlicTypedStep == PlicTypeOK /\ [PlicNext]_plicVars => PlicTypeOK'
<1> SUFFICES ASSUME PlicTypeOK, [PlicNext]_plicVars  PROVE PlicTypeOK'
  OBVIOUS
<1> USE PlicAssumption DEF PlicTypeOK, config, PlicUpdate
<1>1. ASSUME NEW s \in Sources, NEW b \in BOOLEAN, SetIRQ(s, b)  PROVE PlicTypeOK'
  BY <1>1 DEF SetIRQ
<1>2. ASSUME NEW s \in Sources, NEW p \in Prios, WritePriority(s, p)  PROVE PlicTypeOK'
  BY <1>2 DEF WritePriority
<1>3. ASSUME NEW c \in Contexts, NEW w, NEW S \in SUBSET Word(w), WriteEnable(c, w, S)
      PROVE  PlicTypeOK'
  BY <1>3 DEF WriteEnable, Word
<1>4. ASSUME NEW c \in Contexts, NEW t \in Prios, WriteThreshold(c, t)  PROVE PlicTypeOK'
  BY <1>4 DEF WriteThreshold
<1>5. ASSUME NEW c \in Contexts, Claim(c)  PROVE PlicTypeOK'
  <2>1. Best(c) # 0 => Best(c) \in Sources
    BY BestIsSource DEF BestSound
  <2>2. claims' \in [Sources -> Nat]
    <3>1. CASE Best(c) = 0
      BY <1>5, <3>1 DEF Claim
    <3>2. CASE Best(c) # 0
      <4> DEFINE b == Best(c)
      <4>1. b \in Sources /\ claims' = [claims EXCEPT ![b] = @ + 1]
        BY <1>5, <2>1, <3>2 DEF Claim
      <4> HIDE DEF b
      <4> QED BY <4>1
    <3> QED BY <3>1, <3>2
  <2>3. /\ pending' \subseteq Sources
        /\ line' \in [Contexts -> BOOLEAN]
        /\ UNCHANGED <<priority, enable, threshold, raises>>
    BY <1>5 DEF Claim
  <2> QED BY <2>2, <2>3
<1>6. ASSUME NEW c \in Contexts, NEW id \in Sources, Complete(c, id)  PROVE PlicTypeOK'
  BY <1>6 DEF Complete
<1>7. CASE UNCHANGED plicVars
  BY <1>7 DEF plicVars
<1> QED BY <1>1, <1>2, <1>3, <1>4, <1>5, <1>6, <1>7 DEF PlicNext

(* Type correctness: enables and pending bits stay within the sources,     *)
(* counters stay numbers (PlicTypeOK).                                         *)
THEOREM PlicTypes == PlicSpec => []PlicTypeOK
<1>1. PlicInit => PlicTypeOK
  BY PlicAssumption DEF PlicInit, PlicTypeOK, Prios
<1> QED BY <1>1, PlicTypedStep, PTL DEF PlicSpec

-----------------------------------------------------------------------------
(* Every operation leaves each context's line up exactly when best() would *)
(* return a source: no path of plic.go misses its update().                *)
THEOREM LinesCorrect == PlicSpec => []LineMirrorsBest
<1>1. PlicInit => LineMirrorsBest
  BY DEF PlicInit, LineMirrorsBest, Eligible
<1>2. PlicTypeOK' => BestSound'
  <2>1. PlicTypeOK => BestSound
    BY BestIsSource DEF PlicTypeOK
  <2> QED BY <2>1, PTL
<1>3. PlicTypeOK' /\ PlicUpdate => LineMirrorsBest'
  BY <1>2 DEF PlicUpdate, LineMirrorsBest, BestSound
<1>4. PlicNext => PlicUpdate
  BY DEF PlicNext, SetIRQ, WritePriority, WriteEnable, WriteThreshold, Claim, Complete
<1>5. LineMirrorsBest /\ UNCHANGED plicVars => LineMirrorsBest'
  BY DEF LineMirrorsBest, Eligible, plicVars
<1>6. PlicTypeOK' /\ LineMirrorsBest /\ [PlicNext]_plicVars => LineMirrorsBest'
  BY <1>3, <1>4, <1>5
<1> QED BY <1>1, <1>6, PlicTypes, PTL DEF PlicSpec

-----------------------------------------------------------------------------
(* One raise of a source is handed out at most once, whatever number of    *)
(* contexts and harts race to the claim register.                          *)
THEOREM ClaimedOnce == PlicSpec => []AtMostOneClaimPerRaise
<1>1. PlicInit => AtMostOneClaimPerRaise
  BY DEF PlicInit, AtMostOneClaimPerRaise
<1>2. PlicTypeOK /\ AtMostOneClaimPerRaise /\ [PlicNext]_plicVars => AtMostOneClaimPerRaise'
  <2> SUFFICES ASSUME PlicTypeOK, AtMostOneClaimPerRaise, [PlicNext]_plicVars
               PROVE  AtMostOneClaimPerRaise'
    OBVIOUS
  <2> USE DEF PlicTypeOK, AtMostOneClaimPerRaise
  <2>1. ASSUME NEW s \in Sources, NEW b \in BOOLEAN, SetIRQ(s, b)
        PROVE  AtMostOneClaimPerRaise'
    BY <2>1 DEF SetIRQ
  <2>2. ASSUME NEW c \in Contexts, Claim(c)  PROVE AtMostOneClaimPerRaise'
    <3>1. Best(c) # 0 => Best(c) \in Sources /\ Best(c) \in pending
      BY BestIsSource DEF BestSound
    <3>2. 0 \notin Sources
      BY PlicAssumption
    <3> QED BY <2>2, <3>1, <3>2 DEF Claim
  <2>3. ASSUME UNCHANGED <<pending, raises, claims>>  PROVE AtMostOneClaimPerRaise'
    BY <2>3
  <2> QED
    BY <2>1, <2>2, <2>3
    DEF PlicNext, plicVars, WritePriority, WriteEnable, WriteThreshold, Complete
<1> QED BY <1>1, <1>2, PlicTypes, PTL DEF PlicSpec

-----------------------------------------------------------------------------
(* The CLINT.                                                              *)

(* The successor of a time, which is smaller only when it wraps to 0.      *)
LEMMA NextTime ==
    ASSUME NEW t \in Times
    PROVE  /\ (t + 1) % TimeMod \in Times
           /\ (t + 1) % TimeMod # 0 => (t + 1) % TimeMod = t + 1
<1>1. CASE t + 1 < TimeMod
  BY <1>1, ClintAssumption DEF Times
<1>2. CASE t + 1 = TimeMod
  BY <1>2, ClintAssumption DEF Times
<1> QED BY <1>1, <1>2, ClintAssumption DEF Times

(* What update() delivers is well typed, whatever the registers hold.      *)
LEMMA UpdateTyped ==
    ClintUpdate => /\ msipLine' \in [Harts -> BOOLEAN]
              /\ mtipLine' \in [Harts -> BOOLEAN]
              /\ wrapped' \in BOOLEAN
<1> SUFFICES ASSUME ClintUpdate
             PROVE  /\ msipLine' \in [Harts -> BOOLEAN]
                    /\ mtipLine' \in [Harts -> BOOLEAN]
                    /\ wrapped' \in BOOLEAN
  OBVIOUS
<1>1. \A h \in Harts : Bit0(msip'[h]) \in BOOLEAN /\ (mtime' >= mtimecmp'[h]) \in BOOLEAN
  BY DEF Bit0
<1> QED BY <1>1, Zenon DEF ClintUpdate

(* Type correctness of the registers and lines of clint.go.                *)
LEMMA ClintTypedStep == ClintTypeOK /\ [ClintNext]_clintVars => ClintTypeOK'
<1> SUFFICES ASSUME ClintTypeOK, [ClintNext]_clintVars  PROVE ClintTypeOK'
  OBVIOUS
<1> USE ClintAssumption DEF ClintTypeOK
<1>1. ASSUME NEW h \in Harts, NEW v \in MsipValues, WriteMsip(h, v)  PROVE ClintTypeOK'
  BY <1>1, UpdateTyped DEF WriteMsip
<1>2. ASSUME NEW h \in Harts, NEW t \in Times, WriteMtimecmp(h, t)  PROVE ClintTypeOK'
  BY <1>2, UpdateTyped DEF WriteMtimecmp
<1>3. ASSUME NEW t \in Times, WriteMtime(t)  PROVE ClintTypeOK'
  BY <1>3, UpdateTyped DEF WriteMtime
<1>4. ASSUME Tick  PROVE ClintTypeOK'
  <2>1. mtime' \in Times /\ UNCHANGED <<msip, mtimecmp>>
    BY <1>4, NextTime DEF Tick
  <2>2. CASE Expired(mtime')
    BY <1>4, <2>1, <2>2, UpdateTyped DEF Tick
  <2>3. CASE ~Expired(mtime')
    <3>1. wrapped' \in BOOLEAN
      BY <1>4, <2>3, Zenon DEF Tick
    <3> QED BY <1>4, <2>1, <2>3, <3>1 DEF Tick, lines
  <2> QED BY <2>2, <2>3
<1>5. CASE UNCHANGED clintVars
  BY <1>5 DEF clintVars
<1> QED BY <1>1, <1>2, <1>3, <1>4, <1>5 DEF ClintNext

(* Type correctness: every register write and every tick, the wrap of      *)
(* mtime included, keeps registers and lines in their ranges (ClintTypeOK).     *)
THEOREM ClintTypes == ClintSpec => []ClintTypeOK
<1>1. ClintInit => ClintTypeOK
  <2>1. 0 \in Times /\ TimeMod - 1 \in Times /\ 0 \in Nat
    BY ClintAssumption DEF Times
  <2> QED BY <2>1 DEF ClintInit, ClintTypeOK
<1> QED BY <1>1, ClintTypedStep, PTL DEF ClintSpec

-----------------------------------------------------------------------------
(* A hart whose compare is reached has MTIP up, though Tick does not       *)
(* always call update(); and MSIP follows bit 0 of its register.           *)
THEOREM TimersDelivered == ClintSpec => []NoTimerMissed
<1>1. ClintInit => NoTimerMissed
  <2> SUFFICES ASSUME ClintInit, NEW h \in Harts
               PROVE  ~(mtime >= mtimecmp[h]) /\ ~msipLine[h] /\ ~Bit0(msip[h])
    BY DEF NoTimerMissed
  <2>1. mtimecmp[h] = TimeMod - 1 /\ mtime = 0 /\ msip[h] = 0
    BY DEF ClintInit
  <2>2. ~msipLine[h]
    BY DEF ClintInit
  <2> QED BY <2>1, <2>2, ClintAssumption DEF Bit0
<1>2. ClintUpdate => NoTimerMissed'
  BY DEF ClintUpdate, NoTimerMissed
<1>3. NoTimerMissed /\ Tick => NoTimerMissed'
  <2> SUFFICES ASSUME NoTimerMissed, Tick, ~Expired(mtime')  PROVE NoTimerMissed'
    BY <1>2 DEF Tick
  <2>1. \A h \in Harts : ~(mtime' >= mtimecmp'[h])
    BY DEF Expired, Tick
  <2>2. UNCHANGED <<msip, msipLine>>
    BY DEF Tick, lines
  <2> QED BY <2>1, <2>2 DEF NoTimerMissed
<1>4. NoTimerMissed /\ [ClintNext]_clintVars => NoTimerMissed'
  BY <1>2, <1>3 DEF ClintNext, WriteMsip, WriteMtimecmp, WriteMtime, clintVars, NoTimerMissed
<1> QED BY <1>1, <1>4, PTL DEF ClintSpec

-----------------------------------------------------------------------------
(* An early MTIP has one cause: the timer wrapped since the last update(). *)
THEOREM EarlyMeansWrapped == ClintSpec => []EarlyOnlyAfterWrap
<1>1. ClintInit => EarlyOnlyAfterWrap
  BY DEF ClintInit, EarlyOnlyAfterWrap
<1>2. ClintTypeOK' /\ ClintUpdate => EarlyOnlyAfterWrap'
  BY DEF ClintUpdate, EarlyOnlyAfterWrap, ClintTypeOK, Times
<1>3. ClintTypeOK /\ EarlyOnlyAfterWrap /\ Tick /\ ~Expired(mtime') => EarlyOnlyAfterWrap'
  <2> SUFFICES ASSUME ClintTypeOK, EarlyOnlyAfterWrap, Tick, ~Expired(mtime'),
                      NEW h \in Harts, mtipLine'[h]
               PROVE  wrapped'
    BY DEF EarlyOnlyAfterWrap
  <2>1. CASE mtime' = 0
    BY <2>1 DEF Tick
  <2>2. CASE mtime' # 0
    <3>1. mtime' = mtime + 1 /\ mtimecmp' = mtimecmp /\ mtipLine[h]
      BY <2>2, NextTime DEF Tick, ClintTypeOK, lines
    <3>2. ~(mtime' >= mtimecmp[h]) /\ mtime \in Times /\ mtimecmp[h] \in Times
      BY <3>1 DEF Expired, ClintTypeOK
    <3>3. mtime < mtimecmp[h]
      BY <3>1, <3>2, ClintAssumption DEF Times
    <3> QED BY <3>1, <3>3, Zenon DEF EarlyOnlyAfterWrap, Tick
  <2> QED BY <2>1, <2>2
<1>4. ClintTypeOK /\ ClintTypeOK' /\ EarlyOnlyAfterWrap /\ [ClintNext]_clintVars
        => EarlyOnlyAfterWrap'
  BY <1>2, <1>3
  DEF ClintNext, Tick, WriteMsip, WriteMtimecmp, WriteMtime, clintVars, EarlyOnlyAfterWrap
<1> QED BY <1>1, <1>4, ClintTypes, PTL DEF ClintSpec

-----------------------------------------------------------------------------
(* Both, with the other writers of mip.                                    *)

(* The other writers of mip touch nothing but its bits.                    *)
LEMMA MipWriteTyped == TypeOK /\ (Software \/ ResetHarts) => TypeOK'
<1> SUFFICES ASSUME TypeOK, Software \/ ResetHarts  PROVE TypeOK'
  OBVIOUS
<1> USE DEF TypeOK, PlicTypeOK, ClintTypeOK, plicRegs, clintRegs
<1>1. ASSUME NEW h \in Harts, NEW meip \in BOOLEAN, NEW seip \in BOOLEAN,
             NEW msi \in BOOLEAN, NEW mti \in BOOLEAN, CsrWriteMip(h, meip, seip, msi, mti)
      PROVE  TypeOK'
  BY <1>1 DEF CsrWriteMip
<1>2. ASSUME NEW h \in Harts, NEW seip \in BOOLEAN, CsrWriteSip(h, seip)  PROVE TypeOK'
  BY <1>2 DEF CsrWriteSip
<1>3. CASE ResetHarts
  BY <1>3 DEF ResetHarts
<1> QED BY <1>1, <1>2, <1>3 DEF Software

(* Type correctness: the composition of both controllers, software and     *)
(* resets keeps every register and every mip bit in its range (TypeOK).    *)
THEOREM PlatformTypes == Spec => []TypeOK
<1>1. Init => TypeOK
  <2>1. 0 \in Times /\ TimeMod - 1 \in Times /\ 0 \in Nat /\ 0 \in Prios /\ 1 \in Prios
    BY PlicAssumption, ClintAssumption DEF Times, Prios
  <2> QED BY <2>1 DEF Init, TypeOK, PlicInit, ClintInit, PlicTypeOK, ClintTypeOK
<1>2. TypeOK /\ [Next]_vars => TypeOK'
  <2> SUFFICES ASSUME TypeOK, [Next]_vars  PROVE TypeOK'
    OBVIOUS
  <2>1. CASE PlicStep
    BY <2>1, PlicTypedStep DEF PlicStep, TypeOK, ClintTypeOK, clintVars
  <2>2. CASE ClintWrite
    BY <2>2, ClintTypedStep DEF ClintWrite, ClintNext, TypeOK, PlicTypeOK, plicVars
  <2>3. CASE BusTick
    BY <2>3, ClintTypedStep DEF BusTick, ClintNext, TypeOK, PlicTypeOK, plicVars
  <2>4. CASE Software \/ ResetHarts
    BY <2>4, MipWriteTyped
  <2>5. CASE UNCHANGED vars
    BY <2>5 DEF vars, plicVars, clintVars, TypeOK, PlicTypeOK, ClintTypeOK
  <2> QED BY <2>1, <2>2, <2>3, <2>4, <2>5 DEF Next
<1> QED BY <1>1, <1>2, PTL DEF Spec

-----------------------------------------------------------------------------
(* Whatever software forged in mip and whenever harts were reset, the next *)
(* operation on the PLIC makes every external line of every hart say what  *)
(* a claim would return (PlicStepResyncs).                                 *)
THEOREM ExternalLinesResync == Spec => PlicStepResyncs
<1>1. TypeOK' => BestSound'
  <2>1. TypeOK => BestSound
    BY BestIsSource DEF TypeOK, PlicTypeOK
  <2> QED BY <2>1, PTL
<1>2. PlicStep => PlicUpdate
  BY DEF PlicStep, PlicNext, SetIRQ, WritePriority, WriteEnable, WriteThreshold,
         Claim, Complete
<1>3. TypeOK' /\ PlicStep => LineMirrorsBest'
  BY <1>1, <1>2 DEF PlicUpdate, LineMirrorsBest, BestSound
<1>4. TypeOK' /\ [Next]_vars => [PlicStep => LineMirrorsBest']_vars
  BY <1>3
<1> QED BY <1>4, PlatformTypes, PTL DEF Spec, PlicStepResyncs

(* An expired timer survives a reset or a csrw of mip: every tick leaves   *)
(* MTIP up where the compare is reached, since then it does not take the   *)
(* shortcut around update() (ExpiredTimerReturns).                         *)
THEOREM ExpiredTimersReturn == Spec => ExpiredTimerReturns
<1>1. BusTick => \A h \in Harts : mtime' >= mtimecmp'[h] => mtipLine'[h]
  <2> SUFFICES ASSUME BusTick, NEW h \in Harts, mtime' >= mtimecmp'[h]  PROVE mtipLine'[h]
    OBVIOUS
  <2>1. Expired(mtime')
    BY DEF BusTick, Tick, Expired
  <2> QED BY <2>1 DEF BusTick, Tick, ClintUpdate
<1> QED BY <1>1, PTL DEF ExpiredTimerReturns
=============================================================================
