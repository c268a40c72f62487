-------------------------- MODULE MCRealtimeSession --------------------------
(* A page of the list and one of the market, of which a session serves one. *)
EXTENDS RealtimeSession
=============================================================================
