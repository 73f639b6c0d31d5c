--------------------------- MODULE UchatChatRaces ---------------------------
(***************************************************************************)
(* When the uChat server comes to hold two chats of the same two users.    *)
(* database_add_chat_entry looks for a chat and inserts one in separate    *)
(* transactions, so nothing prevents it (UchatServer's OneChatPerPair does *)
(* not hold).  This module adds a history to the threads of UchatServer,   *)
(* which changes none of their steps: the pairs of users whose chat two    *)
(* threads create at one time, or whose chat the look-up has missed.       *)
(***************************************************************************)
EXTENDS UchatServer

VARIABLE raced      \* history: the pairs of which another chat may come, or has

racesVars == <<vars, raced>>

\* The look-up has found no chat, and the chat that is being made is not complete; with
\* the user himself for invitee it never will be.
Creates(s) ==
    /\ pc[s] \in {"insert_chat", "insert_current_user", "insert_invitee_user"}
    /\ client_info[s].id # req[s].invitee_user_id

Pair(s) == {client_info[s].id, req[s].invitee_user_id}

Pairs == {Pair(s) : s \in {t \in Sessions : Creates(t)}}

IsCreatedTwice(pair) ==
    \E s, t \in Sessions :
        s # t /\ Creates(s) /\ Creates(t) /\ Pair(s) = pair /\ Pair(t) = pair

\* The look-up fails, which reads as "no such chat", though there is one.
IsMissed(pair) ==
    \E s \in Sessions :
        /\ CheckChatUnread(s) /\ Pair(s) = pair
        /\ ChatExists(client_info[s].id, req[s].invitee_user_id)

HasTwoChats(pair) ==
    \E c, d \in CompleteChats : c # d /\ ChatMembers(c) = pair /\ ChatMembers(d) = pair

RacesInit == Init /\ raced = {}

\* A race of which no chat came is forgotten.
RacesNext ==
    /\ Next
    /\ raced' =
          {p \in raced \cup Pairs' :
              /\ p \in raced \/ IsCreatedTwice(p)' \/ IsMissed(p)
              /\ p \in Pairs' \/ HasTwoChats(p)'}

RacesSpec == RacesInit /\ [][RacesNext]_racesVars

----------------------------------------------------------------------------
(* Properties *)

\* Two chats of the same two users come of nothing but two threads that create one at
\* the same time, or a look-up that failed (database.c:272): whatever else the threads
\* do, and however often the server dies between the INSERTs, the check for "Chat with
\* the selected user already exists" holds from one ADD_CHAT to the next, also if it is
\* the invitee who sends it.
OnlyRacesDuplicate ==
    \A c, d \in CompleteChats :
        ChatMembers(c) = ChatMembers(d) => c = d \/ ChatMembers(c) \in raced
=============================================================================
