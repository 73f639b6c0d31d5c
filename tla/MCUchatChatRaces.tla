-------------------------- MODULE MCUchatChatRaces --------------------------
(***************************************************************************)
(* Instances of UchatChatRaces for TLC, of the same small sets as those of *)
(* UchatServer.                                                            *)
(***************************************************************************)
EXTENDS UchatChatRaces, MCUchatServer
=============================================================================
