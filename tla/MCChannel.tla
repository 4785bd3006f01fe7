----------------------------- MODULE MCChannel -----------------------------
(***************************************************************************)
(* A Channel with a window of one over three sequence numbers, which wrap. *)
(***************************************************************************)
EXTENDS Channel

CONSTANT known    \* a registered message type
=============================================================================
