------------------------------ MODULE MCClint ------------------------------
(* Two harts and a 2-bit timer that wraps within the runs.                 *)
EXTENDS Clint

MCHarts == {0, 1}
MCMsipValues == {0, 1, 2}
=============================================================================
