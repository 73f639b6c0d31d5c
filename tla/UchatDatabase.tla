--------------------------- MODULE UchatDatabase ---------------------------
(***************************************************************************)
(* The sqlite file behind the uChat server (server/src/database).  One     *)
(* operator per SQL statement of database.c: a query returns rows of the   *)
(* current state, a write is an action on the tables.  Every statement     *)
(* runs in its own autocommit transaction, so the statement is the atom.   *)
(*                                                                         *)
(* Nothing is ever deleted and every primary key is AUTOINCREMENT, so a    *)
(* table is a sequence whose positions are the row ids.  The chats table   *)
(* keeps no column that anything reads (title is always the text NULL), so *)
(* only its number of rows remains; users_chats is the set of its UNIQUE   *)
(* (chat_id, user_id) pairs.  Time stamps are reduced to set / not set.    *)
(***************************************************************************)
EXTENDS Naturals, Sequences

CONSTANTS Usernames, Digests, Bodies

VARIABLES users, chats, members, messages

tables == <<users, chats, members, messages>>

UserRow == [username : Usernames, password : Digests]

MessageRow == [user_id : Nat, chat_id : Nat, body : Bodies,
               updated : BOOLEAN, deleted : BOOLEAN]

DatabaseTypeOK ==
    /\ users \in Seq(UserRow)
    /\ chats \in Nat
    /\ members \in SUBSET ((1..chats) \X Nat)
    /\ messages \in Seq(MessageRow)

----------------------------------------------------------------------------
(* users *)

UserIds == DOMAIN users

UserOut(i) == [id |-> i, username |-> users[i].username]

database_fetch_user_data(username) ==
    {i \in UserIds : users[i].username = username}

\* The column users.username is UNIQUE.
database_add_user(username, password) ==
    /\ database_fetch_user_data(username) = {}
    /\ users' = Append(users, [username |-> username, password |-> password])
    /\ UNCHANGED <<chats, members, messages>>

\* WHERE id = ? matches no row when id is not a user's: still SQLITE_OK.
database_update_user(id, password) ==
    /\ users' = [i \in UserIds |->
                    IF i = id THEN [users[i] EXCEPT !.password = password]
                              ELSE users[i]]
    /\ UNCHANGED <<chats, members, messages>>

database_fetch_username(id) == {users[i].username : i \in UserIds \cap {id}}

----------------------------------------------------------------------------
(* chats and users_chats *)

UserChats(id) == {c \in 1..chats : <<c, id>> \in members}

ChatMembers(c) == {p[2] : p \in {q \in members : q[1] = c}}

\* The query before "Chat with the selected user already exists".
ChatExists(id, invitee) == \E c \in UserChats(id) : <<c, invitee>> \in members

database_fetch_user_list(id) ==
    {UserOut(v) : v \in {w \in UserIds : w # id /\ ~ChatExists(id, w)}}

InsertChat ==
    /\ chats' = chats + 1
    /\ UNCHANGED <<users, members, messages>>

InsertMember(c, id) ==
    /\ <<c, id>> \notin members
    /\ members' = members \cup {<<c, id>>}
    /\ UNCHANGED <<users, chats, messages>>

\* The users who name chat c for its member id; none of them: a NULL title.
TitleUsers(c, id) == {v \in UserIds : v # id /\ <<c, v>> \in members}

ChatOut(c, id) ==
    {[id |-> c, title |-> users[v].username] : v \in TitleUsers(c, id)}

database_fetch_user_chats(id) == UNION {ChatOut(c, id) : c \in UserChats(id)}

----------------------------------------------------------------------------
(* messages *)

MessageIds == DOMAIN messages

\* LEFT JOIN users: the username of a row whose author is not a user is NULL, {}.
MessageOut(m) ==
    [id |-> m, username |-> database_fetch_username(messages[m].user_id), row |-> messages[m]]

ChatMessages(c) == {m \in MessageIds : messages[m].chat_id = c}

database_fetch_chat_messages(c) == {MessageOut(m) : m \in ChatMessages(c)}

InsertMessage(id, c, body) ==
    /\ messages' = Append(messages, [user_id |-> id, chat_id |-> c, body |-> body,
                                     updated |-> FALSE, deleted |-> FALSE])
    /\ UNCHANGED <<users, chats, members>>

\* [mutant] an edit also clears deleted_at
UpdateMessageRevives(m, body) ==
    /\ messages' = [i \in MessageIds |->
                       IF i = m THEN [messages[i] EXCEPT !.body = body,
                                          !.updated = TRUE, !.deleted = FALSE]
                                ELSE messages[i]]
    /\ UNCHANGED <<users, chats, members>>

\* Neither UPDATE looks at the row's author, its chat or whether it is deleted.
UpdateMessage(m, body) ==
    /\ messages' = [i \in MessageIds |->
                       IF i = m THEN [messages[i] EXCEPT !.body = body,
                                                         !.updated = TRUE]
                                ELSE messages[i]]
    /\ UNCHANGED <<users, chats, members>>

RemoveMessage(m) ==
    /\ messages' = [i \in MessageIds |->
                       IF i = m THEN [messages[i] EXCEPT !.deleted = TRUE]
                                ELSE messages[i]]
    /\ UNCHANGED <<users, chats, members>>
=============================================================================
