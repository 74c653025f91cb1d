---------------------------- MODULE MCForwarder ----------------------------
(* A small instance of Forwarder for TLC: two sessions of one token, a     *)
(* request and a WebSocket.                                                *)
EXTENDS Forwarder, TLC

CONSTANTS s1, s2, h, w, token

MCTokenOf == s1 :> token @@ s2 :> token
=============================================================================
