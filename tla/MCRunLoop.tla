------------------------------ MODULE MCRunLoop ------------------------------
(* The runs of RunLoop give every constant in their cfg; the chunk, tick   *)
(* and step sizes are scaled so that, as in the code, a tick is not a      *)
(* whole number of chunks and leaves a remainder larger than one.          *)
EXTENDS RunLoop
=============================================================================
