------------------------ MODULE MCUchatMessageEntry ------------------------
(***************************************************************************)
(* Instances of UchatMessageEntry for TLC: a chat of ann and bob, in which *)
(* both have written or nobody has, and eve, who has no chat.              *)
(***************************************************************************)
EXTENDS UchatMessageEntry

User(name) == [username |-> name, password |-> "digest"]
Users == <<User("ann"), User("bob"), User("eve")>>
OneChat == {<<1, 1>>, <<1, 2>>}
Post(user, body) == [user_id |-> user, chat_id |-> 1, body |-> body,
                     updated |-> FALSE, deleted |-> FALSE]
NoMessages == << >>
TwoMessages == <<Post(1, "x"), Post(2, "x")>>
=============================================================================
