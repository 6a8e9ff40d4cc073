-------------------------- MODULE MCRequestDispatch --------------------------
(* A small instance of WebSocketTurns.                                      *)
EXTENDS WebSocketTurns

\* The conditions the retry policy names.
Transient == {"connect_failure", "provider_5xx"}
=============================================================================
