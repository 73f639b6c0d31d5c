------------------------- MODULE MCUchatMessageView -------------------------
(***************************************************************************)
(* Instances of UchatMessageView for TLC.                                  *)
(***************************************************************************)
EXTENDS UchatMessageView

User(name) == [username |-> name, password |-> "digest"]
TwoUsers == <<User("ann"), User("bob")>>
ThreeUsers == <<User("ann"), User("bob"), User("eve")>>
=============================================================================
