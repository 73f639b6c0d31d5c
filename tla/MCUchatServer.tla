--------------------------- MODULE MCUchatServer ---------------------------
(***************************************************************************)
(* Instances of UchatServer for TLC: names, ids and bodies are small sets, *)
(* and a digest is a password under another name.                          *)
(***************************************************************************)
EXTENDS UchatServer, TLC

SessionSymmetry == Permutations(Sessions)
MCDigests == {"sha256(p1)", "sha256(p2)"}
MCSha256p1 == "p1" :> "sha256(p1)"

\* Files that earlier executions of the server have left.
OneUser == <<[username |-> "ann", password |-> "sha256(p1)"]>>
\* ann, whose password only UPDATE_USER can make a known one.
ForgottenUser == <<[username |-> "ann", password |-> "sha256(p2)"]>>
TwoUsers == OneUser \o <<[username |-> "bob", password |-> "sha256(p1)"]>>

ChatRequests == {"LOGIN", "ADD_CHAT", "GET_CHATS", "GET_USERS_FOR_SEARCH"}
AccountAndChatRequests == ChatRequests \cup {"REGISTER", "UPDATE_USER", "LOGOUT"}
MessageRequests == {"LOGIN", "ADD_MESSAGE", "UPDATE_MESSAGE", "DELETE_MESSAGE",
                    "GET_MESSAGES"}
=============================================================================
