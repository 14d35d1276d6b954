----------------------------- MODULE MCPlatform -----------------------------
(* One hart (two PLIC contexts), one device, a timer that wraps.           *)
EXTENDS Platform

MCHarts == {0}
MCContexts == {0, 1}
MCSources == {1}
MCMsipValues == {0, 1}
=============================================================================
