------------------------------- MODULE MCPlic -------------------------------
(* Two contexts that compete for two sources, each raised up to twice.     *)
EXTENDS Plic

MCContexts == {0, 1}
MCSources == {1, 2}
=============================================================================
