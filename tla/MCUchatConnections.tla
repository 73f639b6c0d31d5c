------------------------- MODULE MCUchatConnections -------------------------
(***************************************************************************)
(* Instances of UchatConnections for TLC.                                  *)
(***************************************************************************)
EXTENDS UchatConnections

\* Two clients, two starts and one fault never use more connections at a time, so
\* this bound never keeps a client from connecting.
EnoughConnections == 5
=============================================================================
