------------------------ MODULE MCUchatClientSession ------------------------
(***************************************************************************)
(* Instances of UchatClientSession for TLC.                                *)
(***************************************************************************)
EXTENDS UchatClientSession

OneUser == <<[username |-> "ann", password |-> "d1"]>>
TwoUsers == OneUser \o <<[username |-> "bob", password |-> "d1"]>>
=============================================================================
