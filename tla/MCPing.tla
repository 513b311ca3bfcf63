------------------------------- MODULE MCPing -------------------------------
(***************************************************************************)
(* Four probes over three sequence numbers, so that the numbers wrap while  *)
(* a probe may still be waited for.                                        *)
(***************************************************************************)
EXTENDS Ping
=============================================================================
