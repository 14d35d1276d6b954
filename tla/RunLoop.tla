------------------------------ MODULE RunLoop ------------------------------
(***************************************************************************)
(* The time-sliced scheduler of cmd/rvwasm/main.go: run() arms a setTimeout *)
(* callback that carries the current run token, the callback runs a tick   *)
(* (a time-boxed sequence of micro-chunks of rounds, each round stepping   *)
(* every hart that is not halted), and the tick arms the next callback.    *)
(* pause, reset, power-off and reboot cancel by bumping the token: stale   *)
(* callbacks find it changed and do nothing.  The browser runs one event   *)
(* at a time, so user operations happen only while no slice is active.     *)
(***************************************************************************)
EXTENDS Integers, FiniteSets, Functions

CONSTANTS
    NHarts,       \* number of harts; runSlice steps them in order 1..NHarts
    NPc,          \* pcs 0..NPc-1; 0 is the entry point
    MicroChunk,   \* rounds per micro-chunk (1024 in the code)
    MaxSteps,     \* hart steps per tick (50000 in the code)
    StepSizes,    \* arguments of the Step buttons
    HitLimits,    \* AfterHits conditions of breakpoints, 0 for none
    MaxToken,     \* bound: token values
    MaxHits       \* bound: hit counts saturate here, above every HitLimit

ASSUME RunLoopAssumption ==
    /\ NHarts \in Nat \ {0}
    /\ NPc \in Nat \ {0}
    /\ MicroChunk \in Nat \ {0}
    /\ MaxSteps \in Nat \ {0}
    /\ StepSizes \subseteq Nat \ {0}
    /\ HitLimits \subseteq 0 .. MaxHits
    /\ MaxToken \in Nat
    /\ MaxHits \in Nat

Harts == 1 .. NHarts
Pcs == 0 .. NPc - 1
Tokens == 0 .. MaxToken + 1

VARIABLES
    running, runToken, runPending, firmware,   \* Emulator fields
    stopped,      \* stopReason # ""
    callbacks,    \* callbacks the browser holds: [Tokens -> Nat]
    halted,       \* [Harts -> BOOLEAN]
    pc,           \* [Harts -> Pcs]
    breakpoints,  \* [Pcs -> Breakpoint], a pc without one has set = FALSE
    watchHit,     \* bus.LastWatchpoint() # ""
    slice         \* the active slice, or NoSlice

control == <<running, runToken, runPending, callbacks>>
machine == <<halted, pc>>
debug == <<breakpoints, watchHit, stopped>>
vars == <<running, runToken, runPending, firmware, stopped, callbacks,
          halted, pc, breakpoints, watchHit, slice>>

Breakpoint == [set : BOOLEAN, after : 0 .. MaxHits, hart : 0 .. NHarts,
               hits : 0 .. MaxHits]
NoBreakpoint == [set |-> FALSE, after |-> 0, hart |-> 0, hits |-> 0]

(* A slice: who called it, the caller's token, the rounds it was asked     *)
(* for, the round and hart it is at, what it and its tick have run.        *)
Slice == [by : {"tick", "step"}, token : Tokens, n : Nat, round : Nat,
          hart : 1 .. NHarts + 1, ran : Nat, total : Nat,
          progress : BOOLEAN, over : BOOLEAN]
NoSlice == [by |-> "none"]

Idle == slice = NoSlice
AnyHartAlive == \E h \in Harts : ~halted[h]

Smaller(a, b) == IF a < b THEN a ELSE b

BeginSlice(by, token, n, total) ==
    [by |-> by, token |-> token, n |-> n, round |-> 1, hart |-> 1,
     ran |-> 0, total |-> total, progress |-> FALSE, over |-> FALSE]

Init ==
    /\ running = FALSE
    /\ runToken = 0
    /\ runPending = 0
    /\ firmware = FALSE
    /\ stopped = FALSE
    /\ callbacks = [t \in Tokens |-> 0]
    /\ halted = [h \in Harts |-> FALSE]
    /\ pc = [h \in Harts |-> 0]
    /\ breakpoints = [p \in Pcs |-> NoBreakpoint]
    /\ watchHit = FALSE
    /\ slice = NoSlice

-----------------------------------------------------------------------------
(* The user's operations.                                                  *)

ResetHarts ==
    /\ halted' = [h \in Harts |-> FALSE]
    /\ pc' = [h \in Harts |-> 0]

(* scheduleRunTick.                                                        *)
Arm(token) ==
    /\ callbacks' = [callbacks EXCEPT ![token] = @ + 1]
    /\ runPending' = runPending + 1

Run_KeepToken ==
    /\ Idle /\ ~running /\ firmware
    /\ running' = TRUE
    /\ UNCHANGED runToken
    /\ Arm(runToken)
    /\ UNCHANGED <<firmware, machine, debug, slice>>

Run ==
    /\ Idle /\ ~running /\ firmware
    /\ runToken < MaxToken
    /\ running' = TRUE
    /\ runToken' = runToken + 1
    /\ Arm(runToken')
    /\ UNCHANGED <<firmware, machine, debug, slice>>

Pause ==
    /\ Idle
    /\ runToken < MaxToken
    /\ running' = FALSE
    /\ runToken' = runToken + 1
    /\ UNCHANGED <<runPending, firmware, callbacks, machine, debug, slice>>

Reset ==
    /\ Idle
    /\ runToken < MaxToken
    /\ running' = FALSE
    /\ runToken' = runToken + 1
    /\ ResetHarts
    /\ UNCHANGED <<runPending, firmware, callbacks, debug, slice>>

(* Step and Step 1k: a slice of n rounds, whether or not a run is on.      *)
StepButton(n) ==
    /\ Idle
    /\ stopped' = FALSE
    /\ slice' = BeginSlice("step", 0, n, 0)
    /\ UNCHANGED <<control, firmware, machine, breakpoints, watchHit>>

LoadFirmware ==
    /\ Idle
    /\ firmware' = TRUE
    /\ ResetHarts
    /\ UNCHANGED <<control, debug, slice>>

(* setHartCount rebuilds the machine; refused during a run.                *)
SetHartCount ==
    /\ Idle /\ ~running
    /\ firmware' = FALSE
    /\ stopped' = FALSE
    /\ watchHit' = FALSE
    /\ ResetHarts
    /\ UNCHANGED <<control, breakpoints, slice>>

AddBreakpoint(p, after, h) ==
    /\ Idle
    /\ breakpoints' = [breakpoints EXCEPT
          ![p] = [set |-> TRUE, after |-> after, hart |-> h, hits |-> @.hits]]
    /\ UNCHANGED <<control, firmware, machine, watchHit, stopped, slice>>

ClearBreakpoints ==
    /\ Idle
    /\ breakpoints' = [p \in Pcs |-> NoBreakpoint]
    /\ stopped' = FALSE
    /\ UNCHANGED <<control, firmware, machine, watchHit, slice>>

(* Input injected from the UI: a virtio device copies it to guest memory   *)
(* over the bus, which can hit a write watchpoint outside any slice.       *)
Inject ==
    /\ Idle
    /\ watchHit' = TRUE
    /\ UNCHANGED <<control, firmware, machine, breakpoints, stopped, slice>>

-----------------------------------------------------------------------------
(* The browser fires a callback; a live one starts a tick.                 *)

(* The head of runSliceTimeboxed's loop.                                   *)
GoesOn(token, total) == running /\ AnyHartAlive /\ total < MaxSteps

NextChunk(token, total) ==
    /\ stopped' = FALSE
    /\ slice' = BeginSlice("tick", token, Smaller(MicroChunk, MaxSteps - total), total)

Fire_KeepStale(token) ==
    /\ Idle
    /\ callbacks[token] > 0
    /\ IF ~running \/ token # runToken
       THEN UNCHANGED <<running, runToken, runPending, stopped, callbacks, slice>>
       ELSE /\ callbacks' = [callbacks EXCEPT ![token] = @ - 1]
            /\ runPending' = runPending - 1
            /\ IF GoesOn(token, 0)
               THEN NextChunk(token, 0) /\ UNCHANGED <<running, runToken>>
               ELSE /\ running' = FALSE
                    /\ runToken' = runToken + 1
                    /\ UNCHANGED <<stopped, slice>>
    /\ UNCHANGED <<firmware, machine, breakpoints, watchHit>>

Fire(token) ==
    /\ Idle
    /\ callbacks[token] > 0
    /\ callbacks' = [callbacks EXCEPT ![token] = @ - 1]
    /\ runPending' = IF runPending > 0 THEN runPending - 1 ELSE 0
    /\ IF ~running \/ token # runToken
       THEN UNCHANGED <<running, runToken, stopped, slice>>
       ELSE IF GoesOn(token, 0)
       THEN NextChunk(token, 0) /\ UNCHANGED <<running, runToken>>
       ELSE /\ running' = FALSE          \* every hart is halted
            /\ runToken' = runToken + 1
            /\ UNCHANGED <<stopped, slice>>
    /\ UNCHANGED <<firmware, machine, breakpoints, watchHit>>

-----------------------------------------------------------------------------
(* runSlice, one hart at a time.                                           *)

Active == ~Idle /\ ~slice.over
InRound == Active /\ slice.hart <= NHarts
Here == slice.hart

SkipHalted ==
    /\ InRound /\ halted[Here]
    /\ slice' = [slice EXCEPT !.hart = @ + 1]
    /\ UNCHANGED <<control, firmware, machine, debug>>

(* checkBreakpoint: the hit is counted, the stop waits for AfterHits.      *)
BreakpointAt(h) ==
    /\ breakpoints[pc[h]].set
    /\ breakpoints[pc[h]].hart \in {0, h}

Hits(b) == Smaller(b.hits + 1, MaxHits)

Checked(h) == slice.n # 1 /\ BreakpointAt(h)

StopsAt_OffByOne(h) ==
    /\ Checked(h)
    /\ breakpoints[pc[h]].after < Hits(breakpoints[pc[h]])

StopsAt(h) ==
    /\ Checked(h)
    /\ breakpoints[pc[h]].after <= Hits(breakpoints[pc[h]])

CountHit(h) ==
    breakpoints' = IF Checked(h)
                   THEN [breakpoints EXCEPT ![pc[h]].hits = Hits(breakpoints[pc[h]])]
                   ELSE breakpoints

HitBreakpoint ==
    /\ InRound /\ ~halted[Here] /\ StopsAt(Here)
    /\ CountHit(Here)
    /\ stopped' = TRUE
    /\ running' = FALSE
    /\ slice' = [slice EXCEPT !.over = TRUE]
    /\ UNCHANGED <<runToken, runPending, firmware, callbacks, machine, watchHit>>

(* The hart steps.  Besides moving its pc the guest may stop itself,       *)
(* start another hart, ask for a shutdown by SBI, or hit a watchpoint.     *)
Stepped(watch) ==
    /\ InRound /\ ~halted[Here] /\ ~StopsAt(Here)
    /\ CountHit(Here)
    /\ slice' = [slice EXCEPT !.hart = @ + 1, !.ran = @ + 1,
                              !.progress = TRUE, !.over = watch \/ watchHit]
    /\ watchHit' = FALSE

StepHart(next, watch) ==
    /\ Stepped(watch)
    /\ pc' = [pc EXCEPT ![Here] = next]
    /\ running' = (running /\ ~(watch \/ watchHit))
    /\ stopped' = (stopped \/ watch \/ watchHit)
    /\ UNCHANGED <<runToken, runPending, firmware, callbacks, halted>>

StopSelf(srst) ==
    /\ Stepped(FALSE)
    /\ halted' = [halted EXCEPT ![Here] = TRUE]
    /\ running' = (running /\ ~srst /\ ~watchHit)
    /\ stopped' = (stopped \/ watchHit)
    /\ UNCHANGED <<runToken, runPending, firmware, callbacks, pc>>

StartHart(h, p, next) ==
    /\ Stepped(FALSE)
    /\ halted' = [halted EXCEPT ![h] = FALSE]
    /\ pc' = [pc EXCEPT ![Here] = next, ![h] = p]
    /\ running' = (running /\ ~watchHit)
    /\ stopped' = (stopped \/ watchHit)
    /\ UNCHANGED <<runToken, runPending, firmware, callbacks>>

(* A store to the syscon register: requestSystemPoweroff and Reboot.       *)
PowerOff ==
    /\ Stepped(FALSE)
    /\ runToken < MaxToken
    /\ stopped' = TRUE
    /\ running' = FALSE
    /\ runToken' = runToken + 1
    /\ halted' = [h \in Harts |-> TRUE]
    /\ UNCHANGED <<runPending, firmware, callbacks, pc>>

Reboot ==
    /\ Stepped(FALSE)
    /\ runToken < MaxToken
    /\ stopped' = TRUE
    /\ running' = FALSE
    /\ runToken' = runToken + 1
    /\ ResetHarts
    /\ UNCHANGED <<runPending, firmware, callbacks>>

(* The end of a round: another one if some hart ran and rounds are left.   *)
EndRound ==
    /\ Active /\ slice.hart > NHarts
    /\ slice' = IF slice.progress /\ slice.round < slice.n
                THEN [slice EXCEPT !.round = @ + 1, !.hart = 1, !.progress = FALSE]
                ELSE [slice EXCEPT !.over = TRUE]
    /\ UNCHANGED <<control, firmware, machine, debug>>

-----------------------------------------------------------------------------
(* The end of a slice: back to the user, or on with the tick.              *)

SliceOver(by) == ~Idle /\ slice.over /\ slice.by = by

EndStep ==
    /\ SliceOver("step")
    /\ slice' = NoSlice
    /\ UNCHANGED <<control, firmware, machine, debug>>

Ran == slice.total + slice.ran
CanGoOn == slice.ran > 0 /\ ~stopped /\ GoesOn(slice.token, Ran)

(* Time is left in the box.                                                *)
EndChunk ==
    /\ SliceOver("tick")
    /\ CanGoOn
    /\ NextChunk(slice.token, Ran)
    /\ UNCHANGED <<control, firmware, machine, breakpoints, watchHit>>

(* Out of time or of steps, or stopped: the rest of runTick.               *)
EndTick_NoRearm ==
    /\ SliceOver("tick")
    /\ slice' = NoSlice
    /\ IF ~AnyHartAlive
       THEN running' = FALSE /\ runToken' = runToken + 1
       ELSE UNCHANGED <<running, runToken>>
    /\ UNCHANGED <<callbacks, runPending, firmware, machine, debug>>

EndTick ==
    /\ SliceOver("tick")
    /\ slice' = NoSlice
    /\ IF ~AnyHartAlive
       THEN /\ running' = FALSE
            /\ runToken' = runToken + 1
            /\ UNCHANGED <<callbacks, runPending>>
       ELSE IF ~running \/ slice.token # runToken
       THEN UNCHANGED control
       ELSE Arm(slice.token) /\ UNCHANGED <<running, runToken>>
    /\ UNCHANGED <<firmware, machine, debug>>

User ==
    \/ Run \/ Pause \/ Reset \/ LoadFirmware \/ SetHartCount
    \/ \E n \in StepSizes : StepButton(n)
    \/ \E p \in Pcs, after \in HitLimits, h \in 0 .. NHarts :
          AddBreakpoint(p, after, h)
    \/ ClearBreakpoints \/ Inject

HartStep ==
    \/ \E next \in Pcs, watch \in BOOLEAN : StepHart(next, watch)
    \/ \E srst \in BOOLEAN : StopSelf(srst)
    \/ \E h \in Harts, p, next \in Pcs : StartHart(h, p, next)
    \/ PowerOff \/ Reboot

InSlice == SkipHalted \/ HitBreakpoint \/ HartStep \/ EndRound
           \/ EndStep \/ EndChunk \/ EndTick

Next == User \/ InSlice \/ (\E t \in Tokens : Fire(t))

Spec == Init /\ [][Next]_vars

(* A slice is a loop of the program and always goes on; the browser fires  *)
(* every timer it was given, even if the user keeps the event loop busy    *)
(* with clicks (strong fairness: a click makes the machine busy for one    *)
(* slice, and between slices the timer is due).  Nothing is assumed of the *)
(* user or of the guest.                                                   *)
FairSpec ==
    /\ Spec
    /\ WF_vars(InSlice)
    /\ \A t \in Tokens : SF_vars(Fire(t))

-----------------------------------------------------------------------------
TypeOK ==
    /\ running \in BOOLEAN
    /\ runToken \in Tokens
    /\ runPending \in Nat
    /\ firmware \in BOOLEAN
    /\ stopped \in BOOLEAN
    /\ callbacks \in [Tokens -> Nat]
    /\ halted \in [Harts -> BOOLEAN]
    /\ pc \in [Harts -> Pcs]
    /\ breakpoints \in [Pcs -> Breakpoint]
    /\ watchHit \in BOOLEAN
    /\ slice \in Slice \cup {NoSlice}

TickOf(token) == ~Idle /\ slice.by = "tick" /\ slice.token = token

(* One driver: a run is carried by exactly one callback in the browser or  *)
(* one tick being executed, never two chains interleaved, never none (a    *)
(* run nobody drives), whatever mix of Run, Pause, Reset, Step, power-off  *)
(* and late callbacks led here; while it runs, the active tick is its own. *)
OneDriver ==
    /\ callbacks[runToken] + (IF TickOf(runToken) THEN 1 ELSE 0) <= 1
    /\ running => callbacks[runToken] = 1 \/ TickOf(runToken)
    /\ running /\ ~Idle /\ slice.by = "tick" => slice.token = runToken

(* "Run stops at a breakpoint": a tick never steps a hart whose pc has a   *)
(* breakpoint that applies to it and whose hit count is due.               *)
RunStopsAtBreakpoint ==
    [][(/\ ~Idle /\ slice.by = "tick"
        /\ slice' # NoSlice /\ slice'.ran = slice.ran + 1)
       => ~(/\ BreakpointAt(Here)
            /\ breakpoints[pc[Here]].after <= Hits(breakpoints[pc[Here]]))]_vars

(* A cancelled callback does not stay: every callback that is not the      *)
(* current run's is eventually delivered and dropped.                      *)
StaleCallbacksDrain ==
    \A t \in Tokens : callbacks[t] > 0 /\ t # runToken ~> callbacks[t] = 0

(* The scheduler implements the Run/Pause abstraction: one chain, armed    *)
(* callbacks fire, ticks end.                                              *)
RunState == IF ~running THEN "stopped"
            ELSE IF TickOf(runToken) THEN "slicing" ELSE "armed"

R == INSTANCE Runner WITH state <- RunState

ImplementsRunner == R!FairSpec
=============================================================================
