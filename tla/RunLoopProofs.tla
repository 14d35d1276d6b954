---------------------------- MODULE RunLoopProofs ----------------------------
(***************************************************************************)
(* Proofs about RunLoop, for any number of harts and any slice sizes.      *)
(*                                                                         *)
(* OneDriver is not inductive alone.  Cancelling a run moves to the next   *)
(* token, and the new token must carry neither a callback nor a tick: so   *)
(* no callback and no tick may be ahead of runToken (NothingAhead).  The   *)
(* bound of the model must also leave room for the bumps that have no      *)
(* guard, at the end of a tick that finds every hart halted (RoomToBump).  *)
(***************************************************************************)
EXTENDS RunLoop, TLAPS

Ticking == ~Idle /\ slice.by = "tick"

NothingAhead ==
    /\ \A t \in Tokens : t > runToken => callbacks[t] = 0
    /\ Ticking => slice.token <= runToken

RoomToBump == running \/ Ticking => runToken <= MaxToken

IInv == TypeOK /\ OneDriver /\ NothingAhead /\ RoomToBump

(* The absence of a slice is not a slice.                                  *)
LEMMA NoSliceIsNone == NoSlice \notin Slice
<1>1. NoSlice.by = "none"
  BY DEF NoSlice
<1>2. \A s \in Slice : s.by # "none"
  BY DEF Slice
<1> QED BY <1>1, <1>2

(* An active slice is a slice record, of a tick or of a Step button.       *)
LEMMA SliceTyped ==
    ASSUME TypeOK
    PROVE  /\ ~Idle => slice \in Slice
           /\ Ticking <=> slice \in Slice /\ slice.by = "tick"
           /\ \A t : TickOf(t) <=> Ticking /\ slice.token = t
BY NoSliceIsNone DEF TypeOK, Idle, Ticking, TickOf

(* A slice that begins is well typed.                                      *)
LEMMA BeginSliceTyped ==
    ASSUME NEW by \in {"tick", "step"}, NEW token \in Tokens,
           NEW n \in Nat, NEW total \in Nat
    PROVE  /\ BeginSlice(by, token, n, total) \in Slice
           /\ BeginSlice(by, token, n, total).by = by
           /\ BeginSlice(by, token, n, total).token = token
BY RunLoopAssumption DEF BeginSlice, Slice

(* Cancelling leaves the token in range; a reset restores typed harts.     *)
LEMMA BumpTyped ==
    ASSUME runToken \in Tokens, runToken <= MaxToken
    PROVE  runToken + 1 \in Tokens
BY RunLoopAssumption DEF Tokens

(* resetHarts leaves well-typed harts.                                     *)
LEMMA ResetTyped ==
    ResetHarts => halted' \in [Harts -> BOOLEAN] /\ pc' \in [Harts -> Pcs]
BY RunLoopAssumption DEF ResetHarts, Pcs

(* scheduleRunTick leaves well-typed callbacks.                            *)
LEMMA ArmTyped ==
    ASSUME NEW t \in Tokens, Arm(t), callbacks \in [Tokens -> Nat], runPending \in Nat
    PROVE  callbacks' \in [Tokens -> Nat] /\ runPending' \in Nat
BY DEF Arm

-----------------------------------------------------------------------------
(* Type correctness of the scheduler's fields.                             *)
LEMMA UserTyped == IInv /\ User => TypeOK'
<1> SUFFICES ASSUME IInv, User  PROVE TypeOK'
  OBVIOUS
<1> USE DEF IInv, TypeOK, control, machine, debug
<1>0. runToken < MaxToken => runToken + 1 \in Tokens
  <2>1. runToken \in Nat /\ MaxToken \in Nat
    BY RunLoopAssumption DEF Tokens
  <2> QED BY <2>1, BumpTyped
<1>1. CASE Run
  BY <1>0, <1>1, ArmTyped DEF Run
<1>2. CASE Pause
  BY <1>0, <1>2 DEF Pause
<1>3. CASE Reset
  BY <1>0, <1>3, ResetTyped DEF Reset
<1>4. CASE LoadFirmware
  BY <1>4, ResetTyped DEF LoadFirmware
<1>5. CASE SetHartCount
  BY <1>5, ResetTyped DEF SetHartCount
<1>6. ASSUME NEW n \in StepSizes, StepButton(n)  PROVE TypeOK'
  <2>1. 0 \in Tokens /\ n \in Nat /\ 0 \in Nat
    BY RunLoopAssumption DEF Tokens
  <2>2. slice' \in Slice
    BY <1>6, <2>1, BeginSliceTyped DEF StepButton
  <2> QED BY <1>6, <2>2 DEF StepButton
<1>7. ASSUME NEW p \in Pcs, NEW after \in HitLimits, NEW h \in 0 .. NHarts,
             AddBreakpoint(p, after, h)
      PROVE  TypeOK'
  <2>1. breakpoints' \in [Pcs -> Breakpoint]
    BY <1>7, RunLoopAssumption DEF AddBreakpoint, Breakpoint
  <2> QED BY <1>7, <2>1 DEF AddBreakpoint
<1>8. CASE ClearBreakpoints
  <2>1. NoBreakpoint \in Breakpoint
    BY RunLoopAssumption DEF NoBreakpoint, Breakpoint
  <2> QED BY <1>8, <2>1 DEF ClearBreakpoints
<1>9. CASE Inject
  BY <1>9 DEF Inject
<1> QED BY <1>1, <1>2, <1>3, <1>4, <1>5, <1>6, <1>7, <1>8, <1>9 DEF User

(* The head of a tick's loop: the next chunk is a well-typed slice.        *)
LEMMA NextChunkTyped ==
    ASSUME NEW token \in Tokens, NEW total \in Nat, GoesOn(token, total),
           NextChunk(token, total)
    PROVE  /\ slice' \in Slice /\ slice'.by = "tick" /\ slice'.token = token
           /\ stopped' = FALSE
<1>1. Smaller(MicroChunk, MaxSteps - total) \in Nat
  BY RunLoopAssumption DEF GoesOn, Smaller
<1> QED BY <1>1, BeginSliceTyped DEF NextChunk

(* A callback the browser fires preserves TypeOK, at the bound of the      *)
(* token too.                                                              *)
LEMMA FireTyped ==
    ASSUME IInv, NEW t \in Tokens, Fire(t)
    PROVE  TypeOK'
<1> USE DEF IInv, TypeOK
<1>1. callbacks' \in [Tokens -> Nat] /\ runPending' \in Nat
  BY DEF Fire
<1>2. CASE ~running \/ t # runToken
  BY <1>1, <1>2 DEF Fire, machine
<1>3. CASE running /\ t = runToken /\ GoesOn(t, 0)
  <2>1. slice' \in Slice /\ stopped' = FALSE
    BY <1>3, NextChunkTyped DEF Fire
  <2> QED BY <1>1, <1>3, <2>1 DEF Fire, machine
<1>4. CASE running /\ t = runToken /\ ~GoesOn(t, 0)
  <2>1. runToken + 1 \in Tokens
    BY <1>4, BumpTyped DEF RoomToBump
  <2> QED BY <1>1, <1>4, <2>1 DEF Fire, machine
<1> QED BY <1>2, <1>3, <1>4

(* checkBreakpoint keeps the table typed; a step keeps the slice typed and *)
(* leaves its caller and its token alone.                                  *)
LEMMA CountHitTyped ==
    ASSUME TypeOK, NEW h \in Harts, CountHit(h)
    PROVE  breakpoints' \in [Pcs -> Breakpoint]
<1>1. pc[h] \in Pcs
  BY DEF TypeOK
<1>2. Hits(breakpoints[pc[h]]) \in 0 .. MaxHits
  BY <1>1, RunLoopAssumption DEF TypeOK, Breakpoint, Hits, Smaller
<1> DEFINE n == Hits(breakpoints[pc[h]])
           p == pc[h]
<1>3. CASE Checked(h)
  <2>1. breakpoints' = [breakpoints EXCEPT ![p].hits = n]
    BY <1>3 DEF CountHit
  <2>2. n \in 0 .. MaxHits /\ p \in Pcs
    BY <1>1, <1>2
  <2> HIDE DEF n, p
  <2> QED BY <2>1, <2>2 DEF TypeOK, Breakpoint
<1>4. CASE ~Checked(h)
  BY <1>4 DEF CountHit, TypeOK
<1> QED BY <1>3, <1>4

SameCaller == /\ slice \in Slice /\ slice' \in Slice
              /\ slice'.by = slice.by /\ slice'.token = slice.token

(* One hart's step keeps the slice well typed and in its caller's hands.   *)
LEMMA SteppedTyped ==
    ASSUME TypeOK, NEW watch \in BOOLEAN, Stepped(watch)
    PROVE  /\ SameCaller
           /\ Here \in Harts
           /\ breakpoints' \in [Pcs -> Breakpoint]
           /\ watchHit' = FALSE
<1>1. slice \in Slice
  BY SliceTyped DEF Stepped, InRound, Active
<1>2. slice.hart \in 1 .. NHarts
  BY <1>1, RunLoopAssumption DEF Slice, Stepped, InRound
<1>3. Here \in Harts
  BY <1>2 DEF Here, Harts
<1>4. slice' = [slice EXCEPT !.hart = slice.hart + 1, !.ran = slice.ran + 1,
                             !.progress = TRUE, !.over = watch \/ watchHit]
  BY DEF Stepped
<1>5. slice.hart + 1 \in 1 .. NHarts + 1 /\ slice.ran + 1 \in Nat
  BY <1>1, <1>2, RunLoopAssumption DEF Slice
<1>6. (watch \/ watchHit) \in BOOLEAN
  BY Zenon DEF TypeOK
<1>7. SameCaller
  <2> DEFINE o == watch \/ watchHit
             h1 == slice.hart + 1
             r1 == slice.ran + 1
  <2>1. /\ slice' = [slice EXCEPT !.hart = h1, !.ran = r1, !.progress = TRUE, !.over = o]
        /\ h1 \in 1 .. NHarts + 1 /\ r1 \in Nat /\ o \in BOOLEAN
    BY <1>4, <1>5, <1>6
  <2> HIDE DEF o, h1, r1
  <2> QED BY <1>1, <2>1 DEF SameCaller, Slice
<1> QED BY <1>3, <1>7, CountHitTyped DEF Stepped

(* A slice's own transitions: a hart skipped, a round or a slice ended.    *)
LEMMA SliceMoves ==
    ASSUME TypeOK, SkipHalted \/ EndRound
    PROVE  SameCaller
<1>1. slice \in Slice
  BY SliceTyped DEF SkipHalted, EndRound, InRound, Active
<1>2. CASE SkipHalted
  <2>1. slice.hart + 1 \in 1 .. NHarts + 1
    BY <1>1, <1>2, RunLoopAssumption DEF Slice, SkipHalted, InRound
  <2> QED BY <1>1, <1>2, <2>1 DEF SkipHalted, Slice, SameCaller
<1>3. CASE EndRound
  <2>1. 1 \in 1 .. NHarts + 1 /\ slice.round + 1 \in Nat
    BY <1>1, RunLoopAssumption DEF Slice
  <2>2. CASE slice.progress /\ slice.round < slice.n
    BY <1>1, <1>3, <2>1, <2>2 DEF EndRound, Slice, SameCaller
  <2>3. CASE ~(slice.progress /\ slice.round < slice.n)
    BY <1>1, <1>3, <2>3 DEF EndRound, Slice, SameCaller
  <2> QED BY <2>2, <2>3
<1> QED BY <1>2, <1>3

(* Whatever the guest does in one hart step, the fields keep their types.  *)
LEMMA HartStepTyped == IInv /\ HartStep => TypeOK' /\ SameCaller
<1> SUFFICES ASSUME IInv, HartStep  PROVE TypeOK' /\ SameCaller
  OBVIOUS
<1> USE DEF IInv, TypeOK
<1>0. runToken < MaxToken => runToken + 1 \in Tokens
  <2>1. runToken \in Nat /\ MaxToken \in Nat
    BY RunLoopAssumption DEF Tokens
  <2> QED BY <2>1, BumpTyped
<1>1. ASSUME NEW next \in Pcs, NEW watch \in BOOLEAN, StepHart(next, watch)
      PROVE  TypeOK' /\ SameCaller
  <2>1. /\ SameCaller /\ Here \in Harts /\ watchHit' = FALSE
        /\ breakpoints' \in [Pcs -> Breakpoint]
    BY <1>1, SteppedTyped DEF StepHart
  <2>2. running' \in BOOLEAN /\ stopped' \in BOOLEAN
    BY <1>1, Zenon DEF StepHart
  <2> QED BY <1>1, <2>1, <2>2 DEF StepHart, SameCaller
<1>2. ASSUME NEW srst \in BOOLEAN, StopSelf(srst)
      PROVE  TypeOK' /\ SameCaller
  <2>1. /\ SameCaller /\ Here \in Harts /\ watchHit' = FALSE
        /\ breakpoints' \in [Pcs -> Breakpoint]
    BY <1>2, SteppedTyped DEF StopSelf
  <2>2. running' \in BOOLEAN /\ stopped' \in BOOLEAN
    BY <1>2, Zenon DEF StopSelf
  <2> QED BY <1>2, <2>1, <2>2 DEF StopSelf, SameCaller
<1>3. ASSUME NEW h \in Harts, NEW p \in Pcs, NEW next \in Pcs, StartHart(h, p, next)
      PROVE  TypeOK' /\ SameCaller
  <2>1. /\ SameCaller /\ Here \in Harts /\ watchHit' = FALSE
        /\ breakpoints' \in [Pcs -> Breakpoint]
    BY <1>3, SteppedTyped DEF StartHart
  <2>2. running' \in BOOLEAN /\ stopped' \in BOOLEAN
    BY <1>3, Zenon DEF StartHart
  <2> QED BY <1>3, <2>1, <2>2 DEF StartHart, SameCaller
<1>4. CASE PowerOff
  <2>1. /\ SameCaller /\ watchHit' = FALSE
        /\ breakpoints' \in [Pcs -> Breakpoint]
    BY <1>4, SteppedTyped DEF PowerOff
  <2> QED BY <1>0, <1>4, <2>1 DEF PowerOff, SameCaller
<1>5. CASE Reboot
  <2>1. /\ SameCaller /\ watchHit' = FALSE
        /\ breakpoints' \in [Pcs -> Breakpoint]
    BY <1>5, SteppedTyped DEF Reboot
  <2> QED BY <1>0, <1>5, <2>1, ResetTyped DEF Reboot, SameCaller
<1> QED BY <1>1, <1>2, <1>3, <1>4, <1>5 DEF HartStep

(* Every step inside a slice preserves TypeOK.                             *)
LEMMA InSliceTyped == IInv /\ InSlice => TypeOK'
<1> SUFFICES ASSUME IInv, InSlice  PROVE TypeOK'
  OBVIOUS
<1> USE DEF IInv, TypeOK, control, machine, debug
<1>1. CASE SkipHalted \/ EndRound
  BY <1>1, SliceMoves DEF SkipHalted, EndRound, SameCaller
<1>2. CASE HitBreakpoint
  <2>1. slice \in Slice
    BY <1>2, SliceTyped DEF HitBreakpoint, InRound, Active
  <2>2. Here \in Harts
    BY <1>2, <2>1, RunLoopAssumption DEF Slice, HitBreakpoint, InRound, Here, Harts
  <2>3. slice' \in Slice
    BY <1>2, <2>1 DEF HitBreakpoint, Slice
  <2> QED BY <1>2, <2>2, <2>3, CountHitTyped DEF HitBreakpoint
<1>3. CASE HartStep
  BY <1>3, HartStepTyped
<1>4. CASE EndStep
  BY <1>4 DEF EndStep
<1>5. CASE EndChunk
  <2>1. slice \in Slice
    BY <1>5, SliceTyped DEF EndChunk, SliceOver
  <2>2. slice.token \in Tokens /\ Ran \in Nat /\ GoesOn(slice.token, Ran)
    BY <1>5, <2>1 DEF Slice, Ran, EndChunk, CanGoOn
  <2>3. slice' \in Slice /\ stopped' = FALSE
    BY <1>5, <2>2, NextChunkTyped DEF EndChunk
  <2> QED BY <1>5, <2>3 DEF EndChunk
<1>6. CASE EndTick
  <2>1. slice \in Slice /\ slice.by = "tick"
    BY <1>6, SliceTyped DEF EndTick, SliceOver
  <2>2. slice.token \in Tokens
    BY <2>1 DEF Slice
  <2>3. CASE ~AnyHartAlive
    <3>1. runToken + 1 \in Tokens
      BY <2>1, SliceTyped, BumpTyped DEF RoomToBump
    <3> QED BY <1>6, <2>3, <3>1 DEF EndTick
  <2>4. CASE AnyHartAlive
    BY <1>6, <2>2, <2>4, ArmTyped DEF EndTick
  <2> QED BY <2>3, <2>4
<1> QED BY <1>1, <1>2, <1>3, <1>4, <1>5, <1>6 DEF InSlice

-----------------------------------------------------------------------------
(* One driver.  Most steps either leave the run as it is or cancel it.     *)
Control == OneDriver /\ NothingAhead /\ RoomToBump

SameTick == /\ Ticking' <=> Ticking
            /\ Ticking => slice'.token = slice.token

(* A step that may stop the run but bumps no token and arms nothing        *)
(* preserves the control invariant.                                        *)
LEMMA Continues ==
    ASSUME IInv, TypeOK', running' => running,
           UNCHANGED <<runToken, callbacks>>, SameTick
    PROVE  Control'
<1> USE DEF IInv, SameTick, OneDriver, TickOf, Ticking
<1>1. \A t : TickOf(t)' <=> TickOf(t)
  OBVIOUS
<1>2. OneDriver'
  BY <1>1
<1>3. NothingAhead' /\ RoomToBump'
  BY DEF NothingAhead, RoomToBump
<1> QED BY <1>2, <1>3 DEF Control

(* A step that stops the run and bumps the token (pause, reset, power-     *)
(* off, reboot) preserves the control invariant: no callback or tick       *)
(* carries the new token yet.                                              *)
LEMMA Cancels ==
    ASSUME IInv, TypeOK', ~running', runToken' = runToken + 1,
           runToken' \in Tokens,
           \A t \in Tokens : callbacks'[t] <= callbacks[t],
           Ticking' => Ticking /\ slice'.token = slice.token /\ runToken < MaxToken
    PROVE  Control'
<1>1. runToken \in Nat /\ MaxToken \in Nat
  BY RunLoopAssumption DEF IInv, TypeOK, Tokens
<1>2. callbacks'[runToken'] = 0
  <2>1. callbacks[runToken'] = 0
    BY <1>1 DEF IInv, NothingAhead
  <2>2. callbacks'[runToken'] \in Nat
    BY DEF TypeOK
  <2> QED BY <2>1, <2>2
<1>3. Ticking' => slice'.token <= runToken
  BY DEF IInv, NothingAhead
<1>4. ~TickOf(runToken)'
  <2> SUFFICES ASSUME Ticking' PROVE slice'.token # runToken'
    BY DEF TickOf, Ticking
  <2> QED BY <1>1, <1>3
<1>5. OneDriver'
  BY <1>2, <1>4 DEF OneDriver
<1>6. NothingAhead'
  <2>1. ASSUME NEW t \in Tokens, t > runToken'  PROVE callbacks'[t] = 0
    <3>1. callbacks[t] = 0
      BY <1>1, <2>1 DEF IInv, NothingAhead, Tokens
    <3>2. callbacks'[t] \in Nat
      BY DEF TypeOK
    <3> QED BY <3>1, <3>2
  <2>2. Ticking' => slice'.token <= runToken'
    <3> SUFFICES ASSUME Ticking'  PROVE slice'.token <= runToken'
      OBVIOUS
    <3>1. slice'.token \in Nat
      BY <1>3, NoSliceIsNone DEF TypeOK, Ticking, Idle, Slice, Tokens
    <3> QED BY <1>1, <1>3, <3>1
  <2> QED BY <2>1, <2>2 DEF NothingAhead
<1>7. RoomToBump'
  BY <1>1 DEF RoomToBump
<1> QED BY <1>5, <1>6, <1>7 DEF Control

(* Every step keeps Control: cancellations by the user, by the guest and   *)
(* by a tick that finds no live hart; arming, firing and re-arming.        *)
LEMMA UserControl == IInv /\ TypeOK' /\ User => Control'
<1> SUFFICES ASSUME IInv, TypeOK', User  PROVE Control'
  OBVIOUS
<1> USE DEF control, machine, debug
<1>0. Idle => ~Ticking
  BY DEF Ticking
<1>1. CASE Run
  <2>1. /\ runToken \in Nat /\ runToken' = runToken + 1 /\ runToken' \in Tokens
        /\ runToken' <= MaxToken /\ slice' = slice /\ ~Ticking /\ ~Ticking'
    BY <1>0, <1>1, RunLoopAssumption DEF Run, Ticking, Idle, IInv, TypeOK, Tokens
  <2>2. callbacks' = [callbacks EXCEPT ![runToken'] = @ + 1]
    BY <1>1 DEF Run, Arm
  <2>3. callbacks[runToken'] = 0
    BY <2>1 DEF IInv, NothingAhead
  <2>4. callbacks'[runToken'] = 1
    BY <2>1, <2>2, <2>3 DEF IInv, TypeOK
  <2>5. ~TickOf(runToken)'
    BY <2>1 DEF TickOf, Ticking
  <2>6. OneDriver'
    BY <2>1, <2>4, <2>5 DEF OneDriver, Ticking
  <2>7. ASSUME NEW t \in Tokens, t > runToken'  PROVE callbacks'[t] = 0
    <3>1. t > runToken /\ t # runToken'
      BY <2>1, <2>7 DEF Tokens
    <3> QED BY <2>2, <3>1 DEF IInv, NothingAhead, TypeOK
  <2> QED BY <2>1, <2>6, <2>7 DEF Control, NothingAhead, RoomToBump
<1>2. CASE Pause \/ Reset
  <2>1. /\ ~running' /\ runToken' = runToken + 1 /\ callbacks' = callbacks
        /\ ~Ticking'
    BY <1>0, <1>2 DEF Pause, Reset, Ticking, Idle
  <2>2. runToken' \in Tokens /\ \A t \in Tokens : callbacks'[t] <= callbacks[t]
    BY <2>1 DEF TypeOK
  <2> QED BY <2>1, <2>2, Cancels
<1>3. ASSUME NEW n \in StepSizes, StepButton(n)  PROVE Control'
  <2>1. slice'.by = "step"
    BY <1>3 DEF StepButton, BeginSlice
  <2>2. SameTick
    BY <1>0, <1>3, <2>1 DEF StepButton, SameTick, Ticking
  <2> QED BY <1>3, <2>2, Continues DEF StepButton
<1>4. ASSUME UNCHANGED <<control, slice>>  PROVE Control'
  BY <1>4, Continues DEF SameTick, Ticking, Idle
<1>5. \/ Run \/ Pause \/ Reset \/ (\E n \in StepSizes : StepButton(n))
      \/ UNCHANGED <<control, slice>>
  BY DEF User, LoadFirmware, SetHartCount, AddBreakpoint, ClearBreakpoints, Inject
<1> QED BY <1>1, <1>2, <1>3, <1>4, <1>5

(* Firing a callback, live or stale, preserves the control invariant.      *)
LEMMA FireControl ==
    ASSUME IInv, TypeOK', NEW t \in Tokens, Fire(t)
    PROVE  Control'
<1>1. /\ ~Ticking /\ ~TickOf(runToken) /\ callbacks[t] > 0
      /\ callbacks' = [callbacks EXCEPT ![t] = @ - 1]
  BY DEF Fire, Ticking, TickOf
<1>2. /\ runToken \in Nat /\ MaxToken \in Nat /\ \A u \in Tokens : callbacks[u] \in Nat
      /\ \A u \in Tokens : callbacks'[u] \in Nat
  BY RunLoopAssumption DEF IInv, TypeOK, Tokens
<1>3. \A u \in Tokens : callbacks'[u] <= callbacks[u]
  BY <1>1, <1>2 DEF IInv, TypeOK
<1>4. NothingAhead /\ OneDriver /\ RoomToBump
  BY DEF IInv
<1>5. CASE ~running \/ t # runToken
  <2>1. UNCHANGED <<running, runToken, slice>>
    BY <1>5 DEF Fire
  <2>2. ~Ticking' /\ ~TickOf(runToken)'
    BY <1>1, <2>1 DEF Ticking, TickOf, Idle
  <2>3. runToken \in Tokens /\ callbacks'[runToken] <= callbacks[runToken]
    BY <1>3 DEF IInv, TypeOK
  <2>4. running => callbacks'[runToken] = callbacks[runToken]
    BY <1>1, <1>5, <2>3 DEF IInv, TypeOK
  <2>5. OneDriver'
    BY <1>1, <1>2, <1>4, <2>1, <2>2, <2>3, <2>4 DEF OneDriver, Ticking
  <2>6. NothingAhead' /\ RoomToBump'
    BY <1>2, <1>3, <1>4, <2>1, <2>2 DEF NothingAhead, RoomToBump
  <2> QED BY <2>5, <2>6 DEF Control
<1>6. CASE running /\ t = runToken /\ GoesOn(t, 0)
  <2>1. /\ UNCHANGED <<running, runToken>>
        /\ slice' \in Slice /\ slice'.by = "tick" /\ slice'.token = t
    BY <1>6, NextChunkTyped DEF Fire
  <2>2. Ticking' /\ TickOf(runToken)'
    BY <1>6, <2>1, NoSliceIsNone DEF Ticking, TickOf, Idle
  <2>3. callbacks[t] = 1
    BY <1>1, <1>4, <1>6 DEF OneDriver
  <2>4. callbacks'[t] = 0
    BY <1>1, <2>3 DEF IInv, TypeOK
  <2>5. OneDriver'
    BY <1>6, <2>1, <2>2, <2>4 DEF OneDriver
  <2>6. NothingAhead' /\ RoomToBump'
    BY <1>2, <1>3, <1>4, <1>6, <2>1, <2>2 DEF NothingAhead, RoomToBump
  <2> QED BY <2>5, <2>6 DEF Control
<1>7. CASE running /\ t = runToken /\ ~GoesOn(t, 0)
  <2>1. ~running' /\ runToken' = runToken + 1 /\ slice' = slice
    BY <1>7 DEF Fire
  <2>2. ~Ticking' /\ runToken' \in Tokens
    BY <1>1, <2>1 DEF Ticking, Idle, TypeOK
  <2> QED BY <1>3, <2>1, <2>2, Cancels
<1> QED BY <1>5, <1>6, <1>7

(* A slice in the same hands is the same tick.                             *)
LEMMA SameCallerTick ==
    ASSUME SameCaller
    PROVE  SameTick
BY NoSliceIsNone DEF SameCaller, SameTick, Ticking, Idle

(* Every step inside a slice, the end of the tick included, preserves the  *)
(* control invariant.                                                      *)
LEMMA InSliceControl == IInv /\ TypeOK' /\ InSlice => Control'
<1> SUFFICES ASSUME IInv, TypeOK', InSlice  PROVE Control'
  OBVIOUS
<1> USE DEF control, machine, debug
<1>0. runToken \in Nat /\ MaxToken \in Nat /\ TypeOK
  BY RunLoopAssumption DEF IInv, TypeOK, Tokens
<1>1. CASE SkipHalted \/ EndRound
  BY <1>0, <1>1, SliceMoves, SameCallerTick, Continues DEF SkipHalted, EndRound
<1>2. CASE HitBreakpoint
  <2>1. slice \in Slice
    BY <1>0, <1>2, SliceTyped DEF HitBreakpoint, InRound, Active
  <2>2. SameCaller
    BY <1>2, <2>1 DEF HitBreakpoint, Slice, SameCaller
  <2> QED BY <1>2, <2>2, SameCallerTick, Continues DEF HitBreakpoint
<1>3. CASE HartStep
  <2>1. SameTick
    BY <1>3, HartStepTyped, SameCallerTick
  <2>2. CASE PowerOff \/ Reboot
    <3>1. /\ ~running' /\ runToken' = runToken + 1 /\ runToken' \in Tokens
          /\ callbacks' = callbacks /\ runToken < MaxToken
      BY <2>2 DEF PowerOff, Reboot, TypeOK
    <3>2. \A t \in Tokens : callbacks'[t] <= callbacks[t]
      BY <3>1 DEF TypeOK
    <3>3. Ticking' => Ticking /\ slice'.token = slice.token /\ runToken < MaxToken
      BY <2>1, <3>1 DEF SameTick
    <3> QED BY <3>1, <3>2, <3>3, Cancels
  <2>3. CASE ~(PowerOff \/ Reboot)
    <3>1. UNCHANGED <<runToken, callbacks>> /\ (running' => running)
      BY <1>3, <2>3 DEF HartStep, StepHart, StopSelf, StartHart
    <3> QED BY <2>1, <3>1, Continues
  <2> QED BY <2>2, <2>3
<1>4. CASE EndStep
  <2>1. SameTick
    BY <1>4 DEF EndStep, SliceOver, SameTick, Ticking, Idle
  <2> QED BY <1>4, <2>1, Continues DEF EndStep
<1>5. CASE EndChunk
  <2>1. slice \in Slice /\ slice.by = "tick"
    BY <1>0, <1>5, SliceTyped DEF EndChunk, SliceOver
  <2>2. slice.token \in Tokens /\ Ran \in Nat /\ GoesOn(slice.token, Ran)
    BY <1>5, <2>1 DEF Slice, Ran, EndChunk, CanGoOn
  <2>3. slice' \in Slice /\ slice'.by = "tick" /\ slice'.token = slice.token
    BY <1>5, <2>2, NextChunkTyped DEF EndChunk
  <2>4. SameCaller
    BY <2>1, <2>3 DEF SameCaller
  <2> QED BY <1>5, <2>4, SameCallerTick, Continues DEF EndChunk
<1>6. CASE EndTick
  <2>1. /\ slice \in Slice /\ slice.token \in Tokens /\ Ticking
        /\ slice' = NoSlice /\ ~Ticking' /\ ~TickOf(runToken)'
    BY <1>0, <1>6, SliceTyped DEF EndTick, SliceOver, Slice, Ticking, TickOf, Idle
  <2>2. CASE ~AnyHartAlive
    <3>1. ~running' /\ runToken' = runToken + 1 /\ callbacks' = callbacks
      BY <1>6, <2>2 DEF EndTick
    <3>2. runToken' \in Tokens /\ \A t \in Tokens : callbacks'[t] <= callbacks[t]
      BY <3>1 DEF TypeOK
    <3> QED BY <2>1, <3>1, <3>2, Cancels
  <2>3. CASE AnyHartAlive /\ (~running \/ slice.token # runToken)
    <3>1. UNCHANGED <<running, runToken, callbacks>>
      BY <1>6, <2>3 DEF EndTick
    <3>2. ~running
      BY <2>1, <2>3 DEF IInv, OneDriver, Ticking
    <3>3. callbacks[runToken] \in Nat
      BY <1>0 DEF TypeOK
    <3>4. OneDriver'
      BY <2>1, <3>1, <3>2, <3>3 DEF IInv, OneDriver
    <3> QED BY <2>1, <3>1, <3>2, <3>4 DEF IInv, Control, NothingAhead, RoomToBump
  <2>4. CASE AnyHartAlive /\ running /\ slice.token = runToken
    <3>1. /\ UNCHANGED <<running, runToken>>
          /\ callbacks' = [callbacks EXCEPT ![runToken] = @ + 1]
      BY <1>6, <2>4 DEF EndTick, Arm
    <3>2. callbacks[runToken] = 0
      <4>1. TickOf(runToken)
        BY <2>1, <2>4 DEF TickOf, Ticking
      <4>2. callbacks[runToken] \in Nat
        BY <1>0 DEF TypeOK
      <4> QED BY <4>1, <4>2 DEF IInv, OneDriver
    <3>3. callbacks'[runToken'] = 1
      BY <1>0, <3>1, <3>2 DEF TypeOK
    <3>4. OneDriver'
      BY <2>1, <3>3 DEF OneDriver, Ticking
    <3>5. NothingAhead'
      BY <1>0, <2>1, <3>1 DEF IInv, NothingAhead, TypeOK, Tokens
    <3> QED BY <2>4, <3>1, <3>4, <3>5 DEF IInv, Control, RoomToBump
  <2> QED BY <2>2, <2>3, <2>4
<1> QED BY <1>1, <1>2, <1>3, <1>4, <1>5, <1>6 DEF InSlice

-----------------------------------------------------------------------------
(* The inductive invariant holds when the page has loaded.                 *)
LEMMA IInvInit == Init => IInv
<1> SUFFICES ASSUME Init PROVE IInv
  OBVIOUS
<1>1. 0 \in Tokens /\ 0 \in Pcs /\ 0 <= MaxToken /\ NoBreakpoint \in Breakpoint
  BY RunLoopAssumption DEF Tokens, Pcs, NoBreakpoint, Breakpoint
<1>2. ~Ticking /\ ~TickOf(runToken)
  BY DEF Init, Ticking, TickOf, Idle
<1>3. TypeOK
  BY <1>1 DEF Init, TypeOK
<1>4. OneDriver
  BY <1>1, <1>2 DEF Init, OneDriver
<1>5. NothingAhead /\ RoomToBump
  BY <1>1, <1>2 DEF Init, NothingAhead, RoomToBump
<1> QED BY <1>3, <1>4, <1>5 DEF IInv

(* The inductive invariant is preserved by every step.                     *)
LEMMA IInvStep == IInv /\ [Next]_vars => IInv'
<1> SUFFICES ASSUME IInv, [Next]_vars PROVE IInv'
  OBVIOUS
<1>1. TypeOK'
  <2>1. CASE UNCHANGED vars
    BY <2>1 DEF vars, IInv, TypeOK
  <2> QED BY <2>1, UserTyped, InSliceTyped, FireTyped DEF Next
<1>2. Control'
  <2>1. CASE UNCHANGED vars
    BY <1>1, <2>1, Continues DEF vars, SameTick, Ticking, Idle
  <2> QED BY <1>1, <2>1, UserControl, InSliceControl, FireControl DEF Next
<1> QED BY <1>1, <1>2 DEF IInv, Control

(* The inductive invariant holds throughout.                               *)
LEMMA Invariant == Spec => []IInv
BY IInvInit, IInvStep, PTL DEF Spec

(* The scheduler's fields keep their types, the bounded token included.    *)
THEOREM TypeCorrect == Spec => []TypeOK
<1>1. IInv => TypeOK
  BY DEF IInv
<1> QED BY <1>1, Invariant, PTL

(* A run is driven by exactly one callback or one tick, whatever mix of    *)
(* run, pause, reset, step, power-off, reboot and late callbacks happened. *)
THEOREM RunHasOneDriver == Spec => []OneDriver
<1>1. IInv => OneDriver
  BY DEF IInv
<1> QED BY <1>1, Invariant, PTL

-----------------------------------------------------------------------------
(* The scheduler implements the Run/Pause machine of Runner.               *)
LEMMA RunStates ==
    /\ ~running => RunState = "stopped"
    /\ running /\ TickOf(runToken) => RunState = "slicing"
    /\ running /\ ~TickOf(runToken) => RunState = "armed"
BY DEF RunState

(* What the run state becomes, from the emulator's fields.                 *)
LEMMA RunStatesNext ==
    /\ ~running' => RunState' = "stopped"
    /\ running' /\ TickOf(runToken)' => RunState' = "slicing"
    /\ running' /\ ~TickOf(runToken)' => RunState' = "armed"
BY DEF RunState

(* A step that keeps the run's token and its tick either leaves the run    *)
(* as it is or stops it.                                                   *)
LEMMA KeepsTick ==
    ASSUME IInv, running' => running /\ runToken' = runToken, SameTick
    PROVE  R!Stop \/ RunState' = RunState
<1>1. CASE running /\ ~running'
  BY <1>1, RunStates, RunStatesNext DEF R!Stop
<1>2. CASE ~running
  BY <1>2, RunStates, RunStatesNext
<1>3. CASE running /\ running'
  <2>1. TickOf(runToken)' <=> TickOf(runToken)
    BY <1>3 DEF SameTick, TickOf, Ticking
  <2> QED BY <1>3, <2>1, RunStates, RunStatesNext
<1> QED BY <1>1, <1>2, <1>3 DEF IInv, TypeOK

(* Every step of the scheduler is a step of the Run/Pause abstraction or   *)
(* leaves its state alone.                                                 *)
LEMMA StepImplements == IInv /\ [Next]_vars => [R!Next]_RunState
<1> SUFFICES ASSUME IInv, [Next]_vars PROVE R!Next \/ RunState' = RunState
  OBVIOUS
<1> USE DEF R!Next, control, machine, debug
<1>0. Idle => ~Ticking /\ \A t : ~TickOf(t)
  BY DEF Ticking, TickOf
<1>1. CASE UNCHANGED vars
  BY <1>1, KeepsTick DEF vars, SameTick, Ticking, Idle
<1>2. CASE Run
  <2>1. ~running /\ running' /\ ~TickOf(runToken)'
    BY <1>2 DEF Run, TickOf, Idle
  <2> QED BY <2>1, RunStates, RunStatesNext DEF R!Start
<1>3. CASE User /\ ~Run
  <2>1. running' => running /\ runToken' = runToken
    BY <1>3 DEF User, Pause, Reset, LoadFirmware, SetHartCount, StepButton,
                AddBreakpoint, ClearBreakpoints, Inject
  <2>2. ~Ticking
    BY <1>0, <1>3 DEF User, Pause, Reset, LoadFirmware, SetHartCount, StepButton,
                      AddBreakpoint, ClearBreakpoints, Inject
  <2>3. slice' = slice \/ slice'.by = "step"
    BY <1>3 DEF User, Pause, Reset, LoadFirmware, SetHartCount, StepButton,
                BeginSlice, AddBreakpoint, ClearBreakpoints, Inject
  <2>4. SameTick
    BY <2>2, <2>3 DEF SameTick, Ticking, Idle
  <2> QED BY <2>1, <2>4, KeepsTick
<1>4. ASSUME NEW t \in Tokens, Fire(t)  PROVE R!Next \/ RunState' = RunState
  <2>1. ~TickOf(runToken)
    BY <1>0, <1>4 DEF Fire
  <2>2. CASE running /\ t = runToken /\ GoesOn(t, 0)
    <3>1. /\ UNCHANGED <<running, runToken>>
          /\ slice' \in Slice /\ slice'.by = "tick" /\ slice'.token = t
      BY <1>4, <2>2, NextChunkTyped DEF Fire
    <3>2. TickOf(runToken)'
      BY <2>2, <3>1, NoSliceIsNone DEF TickOf, Idle
    <3> QED BY <2>1, <2>2, <3>1, <3>2, RunStates, RunStatesNext DEF R!Fire
  <2>3. CASE ~(running /\ t = runToken /\ GoesOn(t, 0))
    <3>1. /\ running' => running /\ runToken' = runToken
          /\ slice' = slice
      BY <1>4, <2>3 DEF Fire
    <3>2. SameTick
      BY <3>1 DEF SameTick, Ticking, Idle
    <3> QED BY <3>1, <3>2, KeepsTick
  <2> QED BY <2>2, <2>3
<1>5. ASSUME InSlice, SameTick  PROVE R!Next \/ RunState' = RunState
  <2>1. running' => running /\ runToken' = runToken
    BY <1>5 DEF InSlice, SkipHalted, EndRound, HitBreakpoint, HartStep, StepHart,
                StopSelf, StartHart, PowerOff, Reboot, EndStep, EndChunk,
                NextChunk, EndTick, Arm
  <2> QED BY <1>5, <2>1, KeepsTick
<1>6. CASE EndTick
  <2>1. Ticking /\ ~TickOf(runToken)'
    BY <1>6, SliceTyped DEF EndTick, SliceOver, IInv, Ticking, TickOf, Idle
  <2>2. CASE running'
    <3>1. running /\ runToken' = runToken /\ slice.token = runToken
      BY <1>6, <2>1, <2>2 DEF EndTick, IInv, OneDriver, Ticking, Arm
    <3>2. TickOf(runToken)
      BY <2>1, <3>1 DEF TickOf, Ticking
    <3> QED BY <2>1, <2>2, <3>1, <3>2, RunStates, RunStatesNext DEF R!Rearm
  <2>3. CASE ~running'
    <3>1. RunState # "stopped" => R!Stop
      BY <2>3, RunStatesNext DEF R!Stop
    <3> QED BY <2>3, <3>1, RunStatesNext
  <2> QED BY <2>2, <2>3
<1>7. CASE InSlice /\ ~EndTick
  <2>1. SameTick
    <3>1. CASE SkipHalted \/ EndRound
      BY <3>1, SliceMoves, SameCallerTick DEF IInv
    <3>2. CASE HitBreakpoint
      <4>1. slice \in Slice
        BY <3>2, SliceTyped DEF IInv, HitBreakpoint, InRound, Active
      <4> QED BY <3>2, <4>1, SameCallerTick DEF HitBreakpoint, Slice, SameCaller
    <3>3. CASE HartStep
      BY <3>3, HartStepTyped, SameCallerTick
    <3>4. CASE EndStep
      BY <3>4 DEF EndStep, SliceOver, SameTick, Ticking, Idle
    <3>5. CASE EndChunk
      <4>1. slice \in Slice /\ slice.by = "tick"
        BY <3>5, SliceTyped DEF IInv, EndChunk, SliceOver
      <4>2. slice.token \in Tokens /\ Ran \in Nat /\ GoesOn(slice.token, Ran)
        BY <3>5, <4>1 DEF Slice, Ran, EndChunk, CanGoOn
      <4>3. slice' \in Slice /\ slice'.by = "tick" /\ slice'.token = slice.token
        BY <3>5, <4>2, NextChunkTyped DEF EndChunk
      <4> QED BY <4>1, <4>3, SameCallerTick DEF SameCaller
    <3> QED BY <1>7, <3>1, <3>2, <3>3, <3>4, <3>5 DEF InSlice
  <2> QED BY <1>5, <1>7, <2>1
<1> QED BY <1>1, <1>2, <1>3, <1>4, <1>6, <1>7 DEF Next

(* Seen through RunState, every behaviour of the scheduler is one of the   *)
(* Run/Pause machine: nothing but Run starts it, a tick is fired only from *)
(* an armed callback, and only its own end arms the next.                  *)
THEOREM ImplementsRunnerSafely == Spec => R!Spec
<1>1. Init => R!Init
  BY DEF Init, R!Init, RunState
<1> QED BY <1>1, Invariant, StepImplements, PTL DEF Spec, R!Spec
-----------------------------------------------------------------------------
(* Breakpoints.  A slice of a single round checks none: that is what the   *)
(* Step button needs, but a tick must never cut its last chunk down to one *)
(* round.  With a single hart a chunk that goes on has run all its rounds, *)
(* so a tick has run whole micro-chunks and the rest is MaxSteps less a    *)
(* multiple of MicroChunk: not 1 for the 50000 and 1024 of the code.       *)
OneHart == NHarts = 1
LeavesMoreThanOne ==
    /\ MicroChunk > 1
    /\ \A k \in Nat : MaxSteps # k * MicroChunk + 1

(* The chunk is the rest of the tick or a full one, behind full ones.      *)
Chunked ==
    /\ slice.total < MaxSteps
    /\ slice.n = Smaller(MicroChunk, MaxSteps - slice.total)
    /\ \E k \in Nat : slice.total = k * MicroChunk

(* The one hart has run in every round so far, unless it is halted or the  *)
(* slice was stopped.                                                      *)
EveryRoundRan ==
    /\ ~slice.over => slice.round \in 1 .. slice.n
    /\ ~slice.over /\ slice.hart = 1 => ~slice.progress /\ slice.ran = slice.round - 1
    /\ ~slice.over /\ slice.hart = 2 =>
          IF slice.progress THEN slice.ran = slice.round ELSE halted[1]
    /\ slice.over => stopped \/ halted[1] \/ slice.ran = slice.n

WholeChunks == Ticking => Chunked /\ EveryRoundRan

(* A chunk of a tick is longer than one round.                             *)
LEMMA ChunkIsLonger ==
    ASSUME OneHart, LeavesMoreThanOne, slice \in Slice, Chunked
    PROVE  slice.n # 1
<1>1. PICK k \in Nat : slice.total = k * MicroChunk
  BY DEF Chunked
<1>2. k * MicroChunk \in Nat
  BY RunLoopAssumption
<1>3. MaxSteps # k * MicroChunk + 1
  BY DEF LeavesMoreThanOne
<1> DEFINE m == k * MicroChunk
<1>4. m \in Nat /\ slice.total = m /\ MaxSteps # m + 1
  BY <1>1, <1>2, <1>3
<1> HIDE DEF m
<1> QED BY <1>4, RunLoopAssumption DEF LeavesMoreThanOne, Chunked, Smaller, Slice

(* A chunk that begins behind whole chunks is one of them.                 *)
LEMMA ChunkBegins ==
    ASSUME OneHart, NEW token \in Tokens, NEW total \in Nat, total < MaxSteps,
           NEW k \in Nat, total = k * MicroChunk, NextChunk(token, total)
    PROVE  Chunked' /\ EveryRoundRan'
<1>1. /\ slice'.n = Smaller(MicroChunk, MaxSteps - total) /\ slice'.total = total
      /\ slice'.round = 1 /\ slice'.hart = 1 /\ slice'.ran = 0
      /\ slice'.progress = FALSE /\ slice'.over = FALSE
  BY DEF NextChunk, BeginSlice
<1>2. Smaller(MicroChunk, MaxSteps - total) \in Nat \ {0}
  BY RunLoopAssumption DEF Smaller
<1> QED BY <1>1, <1>2 DEF Chunked, EveryRoundRan

(* The chunk after a chunk that ran and was not stopped: it ran full.      *)
LEMMA ChunkFollows ==
    ASSUME OneHart, TypeOK, Ticking, WholeChunks, slice.over, CanGoOn
    PROVE  \E k \in Nat : Ran = k * MicroChunk
<1>1. slice \in Slice /\ Chunked /\ EveryRoundRan
  BY SliceTyped DEF WholeChunks
<1>2. ~halted[1] /\ ~stopped /\ Ran < MaxSteps
  BY DEF CanGoOn, GoesOn, AnyHartAlive, Harts, OneHart
<1>3. slice.ran = slice.n
  BY <1>1, <1>2 DEF EveryRoundRan
<1>4. PICK k \in Nat : slice.total = k * MicroChunk
  BY <1>1 DEF Chunked
<1>5. slice.n = MicroChunk
  BY <1>1, <1>2, <1>3, RunLoopAssumption DEF Chunked, Smaller, Ran, Slice
<1>6. Ran = k * MicroChunk + MicroChunk
  BY <1>3, <1>4, <1>5 DEF Ran
<1>7. k * MicroChunk + MicroChunk = (k + 1) * MicroChunk
  BY RunLoopAssumption
<1> QED BY <1>6, <1>7

(* What a step within the slice leaves of it.                              *)
SameChunk == slice'.n = slice.n /\ slice'.total = slice.total /\ slice'.round = slice.round

(* A hart's step counts one more step in its round.                        *)
LEMMA StepsCount ==
    ASSUME OneHart, TypeOK, WholeChunks, Ticking, NEW watch \in BOOLEAN, Stepped(watch),
           watch \/ watchHit => stopped'
    PROVE  Chunked' /\ EveryRoundRan'
<1>1. slice \in Slice /\ Chunked /\ EveryRoundRan
  BY SliceTyped DEF WholeChunks
<1>2. /\ SameChunk /\ slice'.hart = slice.hart + 1 /\ slice'.ran = slice.ran + 1
      /\ slice'.progress = TRUE /\ slice'.over = (watch \/ watchHit)
  BY <1>1 DEF Stepped, SameChunk, Slice
<1>3. slice.hart = 1 /\ ~slice.over
  BY <1>1 DEF Stepped, InRound, Active, Slice, OneHart
<1>4. Chunked'
  BY <1>1, <1>2 DEF Chunked, SameChunk
<1>5. /\ slice.ran = slice.round - 1 /\ slice.round \in 1 .. slice.n
      /\ slice.n \in Nat /\ slice.ran \in Nat
  BY <1>1, <1>3 DEF EveryRoundRan, Slice
<1>6. slice'.ran = slice'.round /\ slice'.round \in 1 .. slice'.n /\ slice'.hart = 2
  BY <1>2, <1>3, <1>5 DEF SameChunk
<1>7. slice'.over => stopped'
  BY <1>2
<1> QED BY <1>2, <1>4, <1>6, <1>7 DEF EveryRoundRan

(* Whole chunks hold when the page has loaded, and every step keeps them.  *)
LEMMA WholeChunksStep ==
    ASSUME OneHart, IInv, IInv', WholeChunks, [Next]_vars
    PROVE  WholeChunks'
<1> USE DEF control, machine, debug
<1>0. TypeOK
  BY DEF IInv
<1>1. CASE ~Ticking'
  BY <1>1 DEF WholeChunks
<1>2. CASE UNCHANGED <<slice, stopped, halted>>
  BY <1>2 DEF WholeChunks, Ticking, Idle, Chunked, EveryRoundRan
<1>3. CASE User
  <2>1. (slice' = slice /\ ~Ticking) \/ slice'.by = "step"
    BY <1>3 DEF User, Run, Pause, Reset, LoadFirmware, SetHartCount, StepButton,
                BeginSlice, AddBreakpoint, ClearBreakpoints, Inject, Ticking
  <2> QED BY <1>1, <2>1 DEF Ticking, Idle
<1>4. ASSUME NEW t \in Tokens, Fire(t)  PROVE WholeChunks'
  <2>1. CASE running /\ t = runToken /\ GoesOn(t, 0)
    <3>1. NextChunk(t, 0) /\ 0 < MaxSteps /\ 0 = 0 * MicroChunk
      BY <1>4, <2>1, RunLoopAssumption DEF Fire, GoesOn
    <3> QED BY <3>1, ChunkBegins DEF WholeChunks
  <2>2. CASE ~(running /\ t = runToken /\ GoesOn(t, 0))
    <3>1. slice' = slice /\ ~Ticking
      BY <1>4, <2>2 DEF Fire, Ticking
    <3> QED BY <1>1, <3>1 DEF Ticking, Idle
  <2> QED BY <2>1, <2>2
<1>5. ASSUME InSlice, Ticking, Ticking'  PROVE Chunked' /\ EveryRoundRan'
  <2>0. slice \in Slice /\ Chunked /\ EveryRoundRan
    BY <1>0, <1>5, SliceTyped DEF WholeChunks
  <2>1. CASE SkipHalted
    <3>1. /\ SameChunk /\ slice'.hart = slice.hart + 1 /\ slice'.ran = slice.ran
          /\ slice'.progress = slice.progress /\ slice'.over = slice.over
          /\ UNCHANGED <<halted, stopped>>
      BY <2>0, <2>1 DEF SkipHalted, SameChunk, Slice
    <3>2. slice.hart = 1 /\ halted[1] /\ ~slice.over
      BY <2>0, <2>1 DEF SkipHalted, InRound, Active, Here, Slice, OneHart
    <3>3. ~slice.progress /\ slice.round \in 1 .. slice.n
      BY <2>0, <3>2 DEF EveryRoundRan
    <3> QED BY <2>0, <3>1, <3>2, <3>3 DEF Chunked, EveryRoundRan, SameChunk
  <2>2. CASE HitBreakpoint
    <3>1. /\ SameChunk /\ slice'.over = TRUE /\ stopped' = TRUE
      BY <2>0, <2>2 DEF HitBreakpoint, SameChunk, Slice
    <3> QED BY <2>0, <3>1 DEF Chunked, EveryRoundRan, SameChunk
  <2>3. CASE HartStep
    <3>1. PICK watch \in BOOLEAN : Stepped(watch) /\ (watch \/ watchHit => stopped')
      BY <2>3, Zenon DEF HartStep, StepHart, StopSelf, StartHart, PowerOff, Reboot
    <3> QED BY <1>0, <1>5, <3>1, StepsCount
  <2>4. CASE EndRound
    <3>1. slice.hart = 2 /\ ~slice.over /\ UNCHANGED <<halted, stopped>>
      BY <2>0, <2>4 DEF EndRound, Active, Slice, OneHart
    <3>2. /\ slice.round \in 1 .. slice.n /\ slice.n \in Nat
          /\ IF slice.progress THEN slice.ran = slice.round ELSE halted[1]
      BY <2>0, <3>1 DEF EveryRoundRan, Slice
    <3>3. CASE slice.progress /\ slice.round < slice.n
      <4>1. slice' = [slice EXCEPT !.round = @ + 1, !.hart = 1, !.progress = FALSE]
        BY <2>4, <3>3 DEF EndRound
      <4>2. /\ slice'.n = slice.n /\ slice'.total = slice.total
            /\ slice'.round = slice.round + 1 /\ slice'.hart = 1 /\ slice'.ran = slice.ran
            /\ slice'.progress = FALSE /\ slice'.over = slice.over
        BY <2>0, <4>1 DEF Slice
      <4> QED BY <2>0, <3>1, <3>2, <3>3, <4>2 DEF Chunked, EveryRoundRan
    <3>4. CASE ~(slice.progress /\ slice.round < slice.n)
      <4>1. slice' = [slice EXCEPT !.over = TRUE]
        BY <2>4, <3>4 DEF EndRound
      <4>2. SameChunk /\ slice'.ran = slice.ran /\ slice'.over = TRUE
        BY <2>0, <4>1 DEF Slice, SameChunk
      <4>3. halted[1] \/ slice.ran = slice.n
        BY <3>2, <3>4
      <4> QED BY <2>0, <3>1, <4>2, <4>3 DEF Chunked, EveryRoundRan, SameChunk
    <3> QED BY <3>3, <3>4
  <2>5. CASE EndChunk
    <3>1. slice.over /\ CanGoOn /\ NextChunk(slice.token, Ran)
      BY <2>5 DEF EndChunk, SliceOver
    <3>2. slice.token \in Tokens /\ Ran \in Nat /\ Ran < MaxSteps
      BY <2>0, <3>1 DEF Slice, Ran, CanGoOn, GoesOn
    <3>3. PICK k \in Nat : Ran = k * MicroChunk
      BY <1>0, <1>5, <3>1, ChunkFollows
    <3> HIDE DEF Ran
    <3> QED BY <3>1, <3>2, <3>3, ChunkBegins
  <2>6. CASE EndStep \/ EndTick
    BY <1>5, <2>6 DEF EndStep, EndTick, Ticking, Idle
  <2> QED BY <1>5, <2>1, <2>2, <2>3, <2>4, <2>5, <2>6 DEF InSlice
<1>6. ASSUME InSlice, ~Ticking  PROVE ~Ticking'
  <2>1. CASE SkipHalted \/ EndRound
    BY <1>0, <1>6, <2>1, SliceMoves, SameCallerTick DEF SameTick
  <2>2. CASE HitBreakpoint
    <3>1. slice \in Slice
      BY <1>0, <2>2, SliceTyped DEF HitBreakpoint, InRound, Active
    <3>2. SameCaller
      BY <2>2, <3>1 DEF HitBreakpoint, Slice, SameCaller
    <3> QED BY <1>6, <3>2, SameCallerTick DEF SameTick
  <2>3. CASE HartStep
    BY <1>6, <2>3, HartStepTyped, SameCallerTick DEF SameTick
  <2>4. CASE EndStep \/ EndTick
    BY <2>4 DEF EndStep, EndTick, Ticking, Idle
  <2>5. ~EndChunk
    BY <1>6 DEF EndChunk, SliceOver, Ticking
  <2> QED BY <1>6, <2>1, <2>2, <2>3, <2>4, <2>5 DEF InSlice
<1>7. CASE UNCHANGED vars
  BY <1>2, <1>7 DEF vars
<1>8. CASE InSlice
  BY <1>5, <1>6, <1>8 DEF WholeChunks
<1> QED BY <1>3, <1>4, <1>7, <1>8 DEF Next

NoDueStep ==
    (/\ ~Idle /\ slice.by = "tick"
     /\ slice' # NoSlice /\ slice'.ran = slice.ran + 1)
    => ~(/\ BreakpointAt(Here)
         /\ breakpoints[pc[Here]].after <= Hits(breakpoints[pc[Here]]))

(* Only a hart's step counts, and it is taken past no breakpoint that is   *)
(* due, as the slice has more than one round.                              *)
LEMMA NoStepPastBreakpoint ==
    ASSUME OneHart, LeavesMoreThanOne, IInv, WholeChunks, [Next]_vars
    PROVE  NoDueStep \/ UNCHANGED vars
<1> SUFFICES ASSUME Ticking, slice' # NoSlice, slice'.ran = slice.ran + 1
             PROVE  ~(/\ BreakpointAt(Here)
                      /\ breakpoints[pc[Here]].after <= Hits(breakpoints[pc[Here]]))
  BY DEF NoDueStep, Ticking
<1> USE DEF control, machine, debug
<1>0. TypeOK /\ slice \in Slice /\ Chunked
  BY SliceTyped DEF IInv, WholeChunks
<1>1. slice.ran \in Nat
  BY <1>0 DEF Slice
<1>2. HartStep
  <2>1. ~User /\ \A t \in Tokens : ~Fire(t)
    BY DEF Ticking, User, Run, Pause, Reset, LoadFirmware, SetHartCount, StepButton,
           AddBreakpoint, ClearBreakpoints, Inject, Fire
  <2>2. ~SkipHalted /\ ~HitBreakpoint
    BY <1>0, <1>1 DEF SkipHalted, HitBreakpoint, Slice
  <2>3. ~EndRound
    <3> SUFFICES ASSUME EndRound PROVE FALSE
      OBVIOUS
    <3>1. slice'.ran = slice.ran
      BY <1>0 DEF EndRound, Slice
    <3> QED BY <1>1, <3>1
  <2>4. ~EndStep /\ ~EndTick
    BY DEF EndStep, EndTick
  <2>5. ~EndChunk
    <3> SUFFICES ASSUME EndChunk PROVE FALSE
      OBVIOUS
    <3>1. slice'.ran = 0
      BY DEF EndChunk, NextChunk, BeginSlice
    <3> QED BY <1>1, <3>1
  <2>6. slice' # slice
    BY <1>1
  <2> QED BY <2>1, <2>2, <2>3, <2>4, <2>5, <2>6 DEF Next, InSlice, vars
<1>3. ~StopsAt(Here)
  BY <1>2 DEF HartStep, StepHart, StopSelf, StartHart, PowerOff, Reboot, Stepped
<1>4. slice.n # 1
  BY <1>0, ChunkIsLonger
<1> QED BY <1>3, <1>4 DEF StopsAt, Checked

(* With one hart, and chunks that leave no rest of one round, a run never  *)
(* steps past a breakpoint that is due, wherever a chunk or a tick ends    *)
(* and whatever the guest and the user do in between.                      *)
THEOREM RunStops ==
    ASSUME OneHart, LeavesMoreThanOne
    PROVE  Spec => RunStopsAtBreakpoint
<1>1. Init => WholeChunks
  BY DEF Init, WholeChunks, Ticking, Idle
<1>2. IInv /\ IInv' /\ WholeChunks /\ [Next]_vars => WholeChunks'
  BY WholeChunksStep
<1>3. IInv /\ WholeChunks /\ [Next]_vars => [NoDueStep]_vars
  BY NoStepPastBreakpoint
<1>4. [][NoDueStep]_vars => RunStopsAtBreakpoint
  BY DEF NoDueStep, RunStopsAtBreakpoint
<1> QED BY <1>1, <1>2, <1>3, <1>4, Invariant, PTL DEF Spec
=============================================================================
