-------------------------- MODULE MCWebSocketServer --------------------------
(***************************************************************************)
(* Instances of WebSocketServer for TLC.                                   *)
(***************************************************************************)
EXTENDS WebSocketServer, TLC

(* Uids are drawn at random and only compared.                             *)
Uids == Permutations(Tag)
=============================================================================
