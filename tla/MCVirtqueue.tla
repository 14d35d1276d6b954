----------------------------- MODULE MCVirtqueue -----------------------------
(* The six devices with small queues.  Two slots and indices modulo four   *)
(* make slots and indices wrap at different places and let one visit       *)
(* complete several requests; two queues share one interrupt.              *)
EXTENDS Virtqueue

Plain == {"VERSION_1"}
Event == {"VERSION_1", "EVENT_IDX"}
Unknown == {"VERSION_1", "OTHER"}

On(kind, n0, n1, mod, feats, sloppy) ==
    [kind |-> kind, num |-> [q \in {0, 1} |-> IF q = 0 THEN n0 ELSE n1],
     idxMod |-> mod, features |-> feats, sloppy |-> sloppy]

MCSetups == {On("blk", 2, 0, 4, Event, FALSE),
             On("net", 2, 0, 4, Plain, FALSE),
             On("input", 1, 1, 2, Event, FALSE),
             On("gpu", 1, 1, 2, Plain, FALSE),
             On("console", 1, 0, 2, Event, TRUE),
             On("net", 1, 0, 2, Plain, TRUE),
             On("rng", 1, 0, 2, Unknown, TRUE)}

(* A driver that keeps its used event where the virtio standard puts it.   *)
MCStandard == {On("blk", 2, 0, 4, Event, FALSE)}
=============================================================================
