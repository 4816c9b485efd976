-------------------------- MODULE MCWebSocketRouter --------------------------
(* WebSocketRouter with two pages, one of which can be reloaded, and two     *)
(* concurrent requests.                                                      *)
EXTENDS WebSocketRouter
=============================================================================
