---------------------------- MODULE RequestQueue ----------------------------
(***************************************************************************)
(* What a virtio queue promises its driver, without rings and indices: a   *)
(* request that is posted is completed once and in order, a completion is  *)
(* collected once and in order, and only a reset loses any.  A queue the   *)
(* device wants to serve completes its first request, and a completion is  *)
(* not left lying: the driver is told in time to collect it.               *)
(***************************************************************************)
EXTENDS Naturals, Sequences

CONSTANTS
    Queues,       \* the queues of the device
    Heads         \* the requests: descriptor chains, named by their head

VARIABLES
    posted,       \* [Queues -> Seq(Heads)], requests the device has not done
    done,         \* [Queues -> Seq(Heads)], completions not yet collected
    wanted        \* [Queues -> BOOLEAN], the device is able to serve the queue

vars == <<posted, done, wanted>>

Outstanding(q) == {posted[q][i] : i \in 1 .. Len(posted[q])}
                     \cup {done[q][i] : i \in 1 .. Len(done[q])}

Init == /\ posted = [q \in Queues |-> <<>>]
        /\ done = [q \in Queues |-> <<>>]
        /\ wanted = [q \in Queues |-> FALSE]

Post(q, h) == /\ h \notin Outstanding(q)
              /\ posted' = [posted EXCEPT ![q] = Append(@, h)]
              /\ UNCHANGED done

(* One visit of the device may complete any number, on several queues.     *)
Serve == \A q \in Queues : \E n \in 0 .. Len(posted[q]) :
            /\ posted'[q] = SubSeq(posted[q], n + 1, Len(posted[q]))
            /\ done'[q] = done[q] \o SubSeq(posted[q], 1, n)

Collect(q) == /\ done[q] # <<>>
              /\ done' = [done EXCEPT ![q] = Tail(@)]
              /\ UNCHANGED posted

Drop(Q) == /\ posted' = [q \in Queues |-> IF q \in Q THEN <<>> ELSE posted[q]]
           /\ done' = [q \in Queues |-> IF q \in Q THEN <<>> ELSE done[q]]

Next == /\ wanted' \in [Queues -> BOOLEAN]
        /\ \/ \E q \in Queues, h \in Heads : Post(q, h)
           \/ Serve
           \/ \E q \in Queues : Collect(q)
           \/ \E Q \in SUBSET Queues : Drop(Q)

Spec == Init /\ [][Next]_vars

(* While the device is able to serve a queue with requests, it serves      *)
(* them; while there are completions, they are collected.  A queue holds   *)
(* finitely many, so that one that keeps moving delays none for ever.      *)
Live == \A q \in Queues :
           /\ \/ []<>(posted[q] = <<>> \/ ~wanted[q])
              \/ []<><<posted'[q] # posted[q]>>_vars
           /\ []<>(done[q] = <<>>) \/ []<><<done'[q] # done[q]>>_vars

LiveSpec == Spec /\ Live
=============================================================================
