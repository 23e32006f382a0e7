-------------------------- MODULE MCServerRequests --------------------------
(* Two clients, one of which comes and goes; a request whose messages may  *)
(* fail to be sent, and a dynamic tool call.                               *)
EXTENDS ServerRequests

CONSTANTS c1, c2, ask1, ask2
=============================================================================
