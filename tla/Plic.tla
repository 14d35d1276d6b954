-------------------------------- MODULE Plic --------------------------------
(***************************************************************************)
(* The platform-level interrupt controller of internal/dev/plic.go.        *)
(*                                                                         *)
(* A device drives its source through SetIRQ; each interrupt context (two  *)
(* per hart: even M-mode, odd S-mode) sees one line, which the controller  *)
(* re-computes by update() and hands to the Notify callback; guest         *)
(* software writes priorities, enables and thresholds, claims the best     *)
(* source and completes it.  `line' is what Notify last delivered.         *)
(***************************************************************************)
EXTENDS Naturals, FiniteSets, SequencesExt

CONSTANTS
    Contexts,     \* the interrupt contexts, 0 .. 2*harts-1
    Sources,      \* the source ids a device may drive
    MaxPrio,      \* largest priority or threshold software writes
    WordBits,     \* sources per 32-bit enable word
    MaxRaises     \* bound: raises of a source that the history counts

ASSUME PlicAssumption ==
    /\ Sources \subseteq Nat \ {0}
    /\ MaxPrio \in Nat \ {0}
    /\ WordBits \in Nat \ {0}
    /\ MaxRaises \in Nat

VARIABLES
    priority,     \* [Sources -> 0..MaxPrio]
    pending,      \* the sources whose pending bit is set
    enable,       \* [Contexts -> SUBSET Sources]
    threshold,    \* [Contexts -> 0..MaxPrio]
    line,         \* [Contexts -> BOOLEAN], the last value given to Notify
    raises,       \* history: how often each source went from idle to pending
    claims        \* history: how often each source was handed out by a claim

config == <<priority, enable, threshold>>
plicVars == <<priority, pending, enable, threshold, line, raises, claims>>

Prios == 0 .. MaxPrio

-----------------------------------------------------------------------------
(* best(): what a claim by context c would return, 0 if nothing.           *)

Eligible(c) == {s \in Sources : /\ s \in pending
                                /\ s \in enable[c]
                                /\ priority[s] # 0
                                /\ priority[s] > threshold[c]}

Outranks(s, t) == \/ priority[s] > priority[t]
                  \/ priority[s] = priority[t] /\ s <= t

Best(c) ==
    IF Eligible(c) = {} THEN 0
    ELSE CHOOSE s \in Eligible(c) : \A t \in Eligible(c) : Outranks(s, t)

-----------------------------------------------------------------------------
PlicInit ==
    /\ priority = [s \in Sources |-> 1]
    /\ pending = {}
    /\ enable = [c \in Contexts |-> {}]
    /\ threshold = [c \in Contexts |-> 0]
    /\ line = [c \in Contexts |-> FALSE]
    /\ raises = [s \in Sources |-> 0]
    /\ claims = [s \in Sources |-> 0]

(* update(): every context is notified, whether its line changed or not.   *)
PlicUpdate == line' = [c \in Contexts |-> Best(c)' # 0]

(* A device raises or lowers its source.                                   *)
SetIRQ(s, set) ==
    /\ set /\ s \notin pending => raises[s] < MaxRaises
    /\ pending' = IF set THEN pending \cup {s} ELSE pending \ {s}
    /\ raises' = IF set /\ s \notin pending
                 THEN [raises EXCEPT ![s] = @ + 1] ELSE raises
    /\ UNCHANGED <<config, claims>>
    /\ PlicUpdate

(* Register writes.  An enable register holds the sources of one word.     *)
WritePriority(s, p) ==
    /\ priority' = [priority EXCEPT ![s] = p]
    /\ UNCHANGED <<pending, enable, threshold, raises, claims>>
    /\ PlicUpdate

Word(w) == {s \in Sources : s \div WordBits = w}

WriteEnable_NoUpdate(c, w, S) ==
    /\ enable' = [enable EXCEPT ![c] = (@ \ Word(w)) \cup S]
    /\ UNCHANGED <<priority, pending, threshold, line, raises, claims>>

WriteEnable(c, w, S) ==
    /\ enable' = [enable EXCEPT ![c] = (@ \ Word(w)) \cup S]
    /\ UNCHANGED <<priority, pending, threshold, raises, claims>>
    /\ PlicUpdate

WriteThreshold(c, t) ==
    /\ threshold' = [threshold EXCEPT ![c] = t]
    /\ UNCHANGED <<priority, pending, enable, raises, claims>>
    /\ PlicUpdate

(* A read of the claim register hands out the best source and un-pends it. *)

Claim_KeepPending(c) ==
    /\ claims' = IF Best(c) = 0 THEN claims
                 ELSE [claims EXCEPT ![Best(c)] = @ + 1]
    /\ UNCHANGED <<config, pending, raises>>
    /\ PlicUpdate

Claim(c) ==
    /\ pending' = pending \ {Best(c)}
    /\ claims' = IF Best(c) = 0 THEN claims
                 ELSE [claims EXCEPT ![Best(c)] = @ + 1]
    /\ UNCHANGED <<config, raises>>
    /\ PlicUpdate

(* A write of the claim/complete register: the id is ignored, the lines    *)
(* are only re-computed.                                                   *)
Complete(c, id) ==
    /\ UNCHANGED <<config, pending, raises, claims>>
    /\ PlicUpdate

PlicNext ==
    \/ \E s \in Sources, b \in BOOLEAN : SetIRQ(s, b)
    \/ \E s \in Sources, p \in Prios : WritePriority(s, p)
    \/ \E c \in Contexts, w \in {s \div WordBits : s \in Sources} :
          \E S \in SUBSET Word(w) : WriteEnable(c, w, S)
    \/ \E c \in Contexts, t \in Prios : WriteThreshold(c, t)
    \/ \E c \in Contexts : Claim(c)
    \/ \E c \in Contexts, id \in Sources : Complete(c, id)

PlicSpec == PlicInit /\ [][PlicNext]_plicVars

-----------------------------------------------------------------------------
PlicTypeOK ==
    /\ priority \in [Sources -> Prios]
    /\ pending \subseteq Sources
    /\ enable \in [Contexts -> SUBSET Sources]
    /\ threshold \in [Contexts -> Prios]
    /\ line \in [Contexts -> BOOLEAN]
    /\ raises \in [Sources -> Nat]
    /\ claims \in [Sources -> Nat]

(* Every context's line is up exactly when a claim by it would return a    *)
(* source, whatever order of device and register operations led here: no   *)
(* path of plic.go changes an input of best() without calling update().    *)
LineMirrorsBest == \A c \in Contexts : line[c] <=> Eligible(c) # {}

(* One raise of a source is handed out at most once over all the contexts  *)
(* it is enabled for, even when several harts see their line and race to   *)
(* the claim register (claim() clears the pending bit it returns).         *)
AtMostOneClaimPerRaise ==
    \A s \in Sources : claims[s] + (IF s \in pending THEN 1 ELSE 0) <= raises[s]
=============================================================================
