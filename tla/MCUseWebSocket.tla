--------------------------- MODULE MCUseWebSocket ---------------------------
(***************************************************************************)
(* Two sockets, as many as a development build has alive.                  *)
(***************************************************************************)
EXTENDS UseWebSocket
=============================================================================
