----------------------------- MODULE UchatServer -----------------------------
(***************************************************************************)
(* The worker threads of the uChat server (server/src/api): one thread per *)
(* connection runs manage_thread, which reads a request, calls its handler *)
(* and writes the handler's response.  A handler is a chain of database    *)
(* calls, and every SQL statement of a call is one step here, because the  *)
(* threads share nothing but the sqlite file and each call opens its own   *)
(* connection to it.                                                       *)
(*                                                                         *)
(* pc[s] names the statement the thread of session s executes next, "recv" *)
(* when it waits in SSL_read and "respond" when the response is built but  *)
(* not written.  A session of a closed connection keeps nothing.           *)
(***************************************************************************)
EXTENDS UchatDatabase

CONSTANTS
    Sessions,       \* connections, each with its worker thread
    Passwords,
    Sha256,         \* SHA-256 on Passwords
    InviteeIds,     \* the user ids that ADD_CHAT requests name
    ChatIds,        \* the chat ids that requests name
    NamedMessages,  \* the message ids that requests name
    RequestTypes,   \* the request types the clients send
    MalformedTypes, \* those they also send with other fields than expected
    GarbageIds,     \* what t_client_info.id may hold before it is assigned
    Garbage,        \* what t_client_info.username points at before then
    InitUsers,      \* the rows of users when the server is first started
    MaxChats,       \* bound: no ADD_CHAT is sent once chats has this many rows
    MaxMessages     \* bound: the same for ADD_MESSAGE and messages

VARIABLES conn, client_info, pc, req, row, out

session == <<conn, client_info, pc, req, row, out>>
vars == <<tables, session>>

\* [mutant] the password is stored as it is
PlainPassword(password) == password

encrypt_password(password) == Sha256[password]

ASSUME ServerAssumption ==
    /\ Sha256 \in [Passwords -> Digests]
    /\ \A p, q \in Passwords : Sha256[p] = Sha256[q] => p = q
    /\ InviteeIds \cup ChatIds \cup NamedMessages \subseteq Nat
    /\ GarbageIds \subseteq Nat
    /\ Garbage \notin Usernames
    /\ InitUsers \in Seq(UserRow)
    /\ \A i, j \in DOMAIN InitUsers :
          InitUsers[i].username = InitUsers[j].username => i = j
    /\ MaxChats \in Nat
    /\ MaxMessages \in Nat

----------------------------------------------------------------------------
(* Requests and responses *)

\* The statement a handler starts with, for the types that have a handler.
FirstStatement ==
    [REGISTER             |-> "add_user",
     LOGIN                |-> "fetch_user",
     UPDATE_USER          |-> "update_user",
     GET_USERS_FOR_SEARCH |-> "fetch_user_list",
     ADD_CHAT             |-> "fetch_username",
     GET_CHATS            |-> "fetch_user_chats",
     GET_MESSAGES         |-> "fetch_chat_messages",
     ADD_MESSAGE          |-> "insert_message",
     UPDATE_MESSAGE       |-> "update_message",
     DELETE_MESSAGE       |-> "remove_message"]

HandledTypes == DOMAIN FirstStatement

\* Both are read and dropped: handle_client_request answers neither.
SilentTypes == {"LOGOUT", "UNKNOWN_REQUEST"}

\* Requests of these types are answered ERROR_JSON when "data" (for LOGIN,
\* "credentials") is not as expected; the others never look at it.
ParsedTypes == HandledTypes \ {"GET_USERS_FOR_SEARCH", "GET_CHATS"}

AllRequests ==
    [type : {"REGISTER", "LOGIN"}, username : Usernames, password : Passwords]
    \cup [type : {"UPDATE_USER"}, password : Passwords]
    \cup [type : {"GET_USERS_FOR_SEARCH", "GET_CHATS"} \cup SilentTypes]
    \cup [type : {"ADD_CHAT"}, invitee_user_id : InviteeIds]
    \cup [type : {"GET_MESSAGES"}, chat_id : ChatIds]
    \cup [type : {"ADD_MESSAGE"}, chat_id : ChatIds, body : Bodies]
    \cup [type : {"UPDATE_MESSAGE"}, message_id : NamedMessages, body : Bodies]
    \cup [type : {"DELETE_MESSAGE"}, message_id : NamedMessages]
    \cup [type : ParsedTypes \cap MalformedTypes, malformed : {TRUE}]

Requests == {r \in AllRequests : r.type \in RequestTypes}

NoRequest == [type |-> "NONE"]

IsMalformed(r) == "malformed" \in DOMAIN r

Response(status, data) == [status |-> status, data |-> data]
NoResponse == Response("NONE", {})

NoClient == [id |-> 0, username |-> Garbage]

----------------------------------------------------------------------------
(* The steps of a thread *)

Goto(s, label) == pc' = [pc EXCEPT ![s] = label]

Respond(s, status, data) ==
    /\ Goto(s, "respond")
    /\ out' = [out EXCEPT ![s] = Response(status, data)]

\* What every handler answers when a database call returns NULL or false.
RespondFailure(s) ==
    Respond(s, IF req[s].type = "LOGIN" THEN "ERROR_INVALID_CREDENTIALS"
                                        ELSE "ERROR_DB", {})

RespondRows(s, rows) ==
    IF rows = {} THEN RespondFailure(s) ELSE Respond(s, "SUCCESS", rows)

\* [mutant] a session that logs in again keeps its first username
IdentifyById(s, i) ==
    client_info' = [client_info EXCEPT ![s].id = i,
                       ![s].username = IF @ = Garbage THEN users[i].username ELSE @]

\* client_info->id and client_info->username, always assigned together.
Identify(s, i) == client_info' = [client_info EXCEPT ![s] = UserOut(i)]

Init ==
    /\ users = InitUsers /\ chats = 0 /\ members = {} /\ messages = << >>
    /\ conn = [s \in Sessions |-> "closed"]
    /\ client_info = [s \in Sessions |-> NoClient]
    /\ pc = [s \in Sessions |-> "recv"]
    /\ req = [s \in Sessions |-> NoRequest]
    /\ row = [s \in Sessions |-> 0]
    /\ out = [s \in Sessions |-> NoResponse]

\* accept, malloc of t_client_info, handshake, pthread_create: only the socket
\* and the SSL object are assigned, id and username hold whatever was there.
Connect(s) ==
    /\ conn[s] = "closed"
    /\ conn' = [conn EXCEPT ![s] = "open"]
    /\ \E g \in GarbageIds :
          client_info' = [client_info EXCEPT ![s] = [id |-> g, username |-> Garbage]]
    /\ UNCHANGED <<tables, pc, req, row, out>>

\* The peer closes; the thread notices when it next reads or writes.
PeerCloses(s) ==
    /\ conn[s] = "open"
    /\ conn' = [conn EXCEPT ![s] = "gone"]
    /\ UNCHANGED <<tables, client_info, pc, req, row, out>>

\* SSL_read fails: pthread_exit.
ThreadExits(s) ==
    /\ conn[s] = "gone" /\ pc[s] = "recv"
    /\ conn' = [conn EXCEPT ![s] = "closed"]
    /\ client_info' = [client_info EXCEPT ![s] = NoClient]
    /\ UNCHANGED <<tables, pc, req, row, out>>

\* The process ends, and with it every thread; the file keeps what was written.
Die ==
    /\ conn' = [s \in Sessions |-> "closed"]
    /\ client_info' = [s \in Sessions |-> NoClient]
    /\ pc' = [s \in Sessions |-> "recv"]
    /\ req' = [s \in Sessions |-> NoRequest]
    /\ row' = [s \in Sessions |-> 0]
    /\ out' = [s \in Sessions |-> NoResponse]
    /\ UNCHANGED tables

Crash == Die

WithinBounds(r) ==
    /\ r.type = "ADD_CHAT" => chats < MaxChats
    /\ r.type = "ADD_MESSAGE" => Len(messages) < MaxMessages

\* fetch_client_data, identify_request_type, the parsing of the handler.
Receive(s, r) ==
    /\ conn[s] = "open" /\ pc[s] = "recv" /\ WithinBounds(r)
    /\ IF r.type \in SilentTypes
       THEN UNCHANGED <<pc, req, out>>
       ELSE /\ req' = [req EXCEPT ![s] = r]
            /\ IF IsMalformed(r)
               THEN Respond(s, "ERROR_JSON", {})
               ELSE Goto(s, FirstStatement[r.type]) /\ UNCHANGED out
    /\ UNCHANGED <<tables, conn, client_info, row>>

\* SSL_write of the response, to a peer that may be gone, and the next read.
WriteResponse(s) ==
    /\ pc[s] = "respond"
    /\ Goto(s, "recv")
    /\ req' = [req EXCEPT ![s] = NoRequest]
    /\ row' = [row EXCEPT ![s] = 0]
    /\ out' = [out EXCEPT ![s] = NoResponse]
    /\ UNCHANGED <<tables, conn, client_info>>

\* Any database call may fail (no busy timeout is set, and the file may be
\* locked by another connection): the statement changes nothing.
DatabaseFails(s) ==
    /\ pc[s] \notin {"recv", "respond"}
    /\ RespondFailure(s)
    /\ UNCHANGED <<tables, conn, client_info, req, row>>

----------------------------------------------------------------------------
(* REGISTER *)

\* [mutant] a refused INSERT is not noticed
AddUserUntested(s) ==
    /\ pc[s] = "add_user"
    /\ \/ database_add_user(req[s].username, encrypt_password(req[s].password))
       \/ database_fetch_user_data(req[s].username) # {} /\ UNCHANGED tables
    /\ Goto(s, "fetch_new_user")
    /\ UNCHANGED <<conn, client_info, req, row, out>>

AddUser(s) ==
    /\ pc[s] = "add_user"
    /\ \/ /\ database_add_user(req[s].username, encrypt_password(req[s].password))
          /\ Goto(s, "fetch_new_user")
          /\ UNCHANGED out
       \/ /\ database_fetch_user_data(req[s].username) # {}
          /\ RespondFailure(s)
          /\ UNCHANGED tables
    /\ UNCHANGED <<conn, client_info, req, row>>

FetchNewUser(s) ==
    /\ pc[s] = "fetch_new_user"
    /\ \E i \in database_fetch_user_data(req[s].username) :
          /\ Identify(s, i)
          /\ Respond(s, "SUCCESS", {UserOut(i)})
    /\ UNCHANGED <<tables, conn, req, row>>

\* [mutant] the password is not compared
FetchUserUnchecked(s) ==
    /\ pc[s] = "fetch_user"
    /\ RespondRows(s, {UserOut(i) : i \in database_fetch_user_data(req[s].username)})
    /\ IF database_fetch_user_data(req[s].username) = {}
       THEN UNCHANGED client_info
       ELSE \E i \in database_fetch_user_data(req[s].username) : Identify(s, i)
    /\ UNCHANGED <<tables, conn, req, row>>

(* LOGIN: the identity is taken before the password is compared. *)

FetchUser(s) ==
    /\ pc[s] = "fetch_user"
    /\ \/ \E i \in database_fetch_user_data(req[s].username) :
             /\ Identify(s, i)
             /\ IF users[i].password = encrypt_password(req[s].password)
                THEN Respond(s, "SUCCESS", {UserOut(i)})
                ELSE RespondFailure(s)
       \/ /\ database_fetch_user_data(req[s].username) = {}
          /\ RespondFailure(s)
          /\ UNCHANGED client_info
    /\ UNCHANGED <<tables, conn, req, row>>

(* UPDATE_USER *)

UpdateUser(s) ==
    /\ pc[s] = "update_user"
    /\ database_update_user(client_info[s].id, encrypt_password(req[s].password))
    /\ Goto(s, "fetch_updated_user")
    /\ UNCHANGED <<conn, client_info, req, row, out>>

FetchUpdatedUser(s) ==
    /\ pc[s] = "fetch_updated_user"
    /\ RespondRows(s, {UserOut(i) :
                         i \in database_fetch_user_data(client_info[s].username)})
    /\ UNCHANGED <<tables, conn, client_info, req, row>>

(* GET_USERS_FOR_SEARCH: an empty list is an error *)

FetchUserList(s) ==
    /\ pc[s] = "fetch_user_list"
    /\ RespondRows(s, database_fetch_user_list(client_info[s].id))
    /\ UNCHANGED <<tables, conn, client_info, req, row>>

----------------------------------------------------------------------------
(* ADD_CHAT *)

\* [mutant] the invitee is not looked up
FetchUsernameUnchecked(s) ==
    /\ pc[s] = "fetch_username"
    /\ Goto(s, "check_chat")
    /\ UNCHANGED <<tables, conn, client_info, req, row, out>>

\* [mutant] the chat of the two is not looked for
FetchUsernameOnly(s) ==
    /\ pc[s] = "fetch_username"
    /\ IF database_fetch_username(req[s].invitee_user_id) = {}
       THEN RespondFailure(s)
       ELSE Goto(s, "insert_chat") /\ UNCHANGED out
    /\ UNCHANGED <<tables, conn, client_info, req, row>>

FetchUsername(s) ==
    /\ pc[s] = "fetch_username"
    /\ IF database_fetch_username(req[s].invitee_user_id) = {}
       THEN RespondFailure(s)
       ELSE Goto(s, "check_chat") /\ UNCHANGED out
    /\ UNCHANGED <<tables, conn, client_info, req, row>>

CheckChat(s) ==
    /\ pc[s] = "check_chat"
    /\ IF ChatExists(client_info[s].id, req[s].invitee_user_id)
       THEN RespondFailure(s)
       ELSE Goto(s, "insert_chat") /\ UNCHANGED out
    /\ UNCHANGED <<tables, conn, client_info, req, row>>

\* Only SQLITE_ROW is tested for: a step that fails reads as "no such chat".
CheckChatUnread(s) ==
    /\ pc[s] = "check_chat"
    /\ Goto(s, "insert_chat")
    /\ UNCHANGED <<tables, conn, client_info, req, row, out>>

\* sqlite3_last_insert_rowid is per connection: the row of this INSERT.
InsertChatRow(s) ==
    /\ pc[s] = "insert_chat"
    /\ InsertChat
    /\ row' = [row EXCEPT ![s] = chats + 1]
    /\ Goto(s, "insert_current_user")
    /\ UNCHANGED <<conn, client_info, req, out>>

\* [mutant] the chat id is the last one of the table, not of the connection
InsertCurrentUserLast(s) ==
    /\ pc[s] = "insert_current_user"
    /\ InsertMember(chats, client_info[s].id)
    /\ Goto(s, "insert_invitee_user")
    /\ UNCHANGED <<conn, client_info, req, row, out>>

InsertCurrentUser(s) ==
    /\ pc[s] = "insert_current_user"
    /\ InsertMember(row[s], client_info[s].id)
    /\ Goto(s, "insert_invitee_user")
    /\ UNCHANGED <<conn, client_info, req, row, out>>

\* [mutant] the result of the second INSERT is not tested
InsertInviteeUserUntested(s) ==
    /\ pc[s] = "insert_invitee_user"
    /\ \/ InsertMember(row[s], req[s].invitee_user_id)
       \/ <<row[s], req[s].invitee_user_id>> \in members /\ UNCHANGED tables
    /\ Goto(s, "fetch_chat")
    /\ UNCHANGED <<conn, client_info, req, row, out>>

\* UNIQUE (chat_id, user_id) refuses a user who invites himself.
InsertInviteeUser(s) ==
    /\ pc[s] = "insert_invitee_user"
    /\ \/ /\ InsertMember(row[s], req[s].invitee_user_id)
          /\ Goto(s, "fetch_chat")
          /\ UNCHANGED out
       \/ /\ <<row[s], req[s].invitee_user_id>> \in members
          /\ RespondFailure(s)
          /\ UNCHANGED tables
    /\ UNCHANGED <<conn, client_info, req, row>>

FetchChat(s) ==
    /\ pc[s] = "fetch_chat"
    /\ row[s] \in UserChats(client_info[s].id) => TitleUsers(row[s], client_info[s].id) # {}
    /\ RespondRows(s, UNION {ChatOut(c, client_info[s].id) :
                               c \in UserChats(client_info[s].id) \cap {row[s]}})
    /\ UNCHANGED <<tables, conn, client_info, req, row>>

(* GET_CHATS and GET_MESSAGES: an empty list is an error *)

FetchUserChats(s) ==
    /\ pc[s] = "fetch_user_chats"
    /\ \A c \in UserChats(client_info[s].id) : TitleUsers(c, client_info[s].id) # {}
    /\ RespondRows(s, database_fetch_user_chats(client_info[s].id))
    /\ UNCHANGED <<tables, conn, client_info, req, row>>

FetchChatMessages(s) ==
    /\ pc[s] = "fetch_chat_messages"
    /\ \A m \in ChatMessages(req[s].chat_id) : messages[m].user_id \in UserIds
    /\ RespondRows(s, database_fetch_chat_messages(req[s].chat_id))
    /\ UNCHANGED <<tables, conn, client_info, req, row>>

----------------------------------------------------------------------------
(* ADD_MESSAGE, UPDATE_MESSAGE, DELETE_MESSAGE: a write, then its row read back *)

\* [mutant] the rowid is taken before the INSERT
InsertMessageRowEarly(s) ==
    /\ pc[s] = "insert_message"
    /\ InsertMessage(client_info[s].id, req[s].chat_id, req[s].body)
    /\ row' = [row EXCEPT ![s] = Len(messages)]
    /\ Goto(s, "fetch_message")
    /\ UNCHANGED <<conn, client_info, req, out>>

InsertMessageRow(s) ==
    /\ pc[s] = "insert_message"
    /\ InsertMessage(client_info[s].id, req[s].chat_id, req[s].body)
    /\ row' = [row EXCEPT ![s] = Len(messages) + 1]
    /\ Goto(s, "fetch_message")
    /\ UNCHANGED <<conn, client_info, req, out>>

UpdateMessageRow(s) ==
    /\ pc[s] = "update_message"
    /\ UpdateMessage(req[s].message_id, req[s].body)
    /\ row' = [row EXCEPT ![s] = req[s].message_id]
    /\ Goto(s, "fetch_message")
    /\ UNCHANGED <<conn, client_info, req, out>>

RemoveMessageRow(s) ==
    /\ pc[s] = "remove_message"
    /\ RemoveMessage(req[s].message_id)
    /\ row' = [row EXCEPT ![s] = req[s].message_id]
    /\ Goto(s, "fetch_message")
    /\ UNCHANGED <<conn, client_info, req, out>>

\* [mutant] the newest message is read back
FetchLastMessage(s) ==
    /\ pc[s] = "fetch_message"
    /\ \A m \in MessageIds : messages[m].user_id \in UserIds
    /\ RespondRows(s, {MessageOut(m) : m \in MessageIds \cap {Len(messages)}})
    /\ UNCHANGED <<tables, conn, client_info, req, row>>

FetchMessage(s) ==
    /\ pc[s] = "fetch_message"
    /\ row[s] \in MessageIds => messages[row[s]].user_id \in UserIds
    /\ RespondRows(s, {MessageOut(m) : m \in MessageIds \cap {row[s]}})
    /\ UNCHANGED <<tables, conn, client_info, req, row>>

----------------------------------------------------------------------------
\* A row with a NULL title or username is next: mx_strdup(NULL) ends the server.
ReadsNull(s) ==
    \/ /\ pc[s] = "fetch_chat"
       /\ row[s] \in UserChats(client_info[s].id)
       /\ TitleUsers(row[s], client_info[s].id) = {}
    \/ /\ pc[s] = "fetch_user_chats"
       /\ \E c \in UserChats(client_info[s].id) : TitleUsers(c, client_info[s].id) = {}
    \/ /\ pc[s] = "fetch_chat_messages"
       /\ \E m \in ChatMessages(req[s].chat_id) : messages[m].user_id \notin UserIds
    \/ /\ pc[s] = "fetch_message"
       /\ row[s] \in MessageIds
       /\ messages[row[s]].user_id \notin UserIds

NullCrash(s) == ReadsNull(s) /\ Die

Auth(s) == AddUser(s) \/ FetchNewUser(s) \/ FetchUser(s) \/ UpdateUser(s)
           \/ FetchUpdatedUser(s) \/ FetchUserList(s)

Chat(s) == FetchUsername(s) \/ CheckChat(s) \/ CheckChatUnread(s)
           \/ InsertChatRow(s) \/ InsertCurrentUser(s) \/ InsertInviteeUser(s)
           \/ FetchChat(s) \/ FetchUserChats(s)

Message(s) == FetchChatMessages(s) \/ InsertMessageRow(s) \/ UpdateMessageRow(s)
              \/ RemoveMessageRow(s) \/ FetchMessage(s)

Connection(s) == Connect(s) \/ PeerCloses(s) \/ ThreadExits(s)

Next ==
    \/ Crash
    \/ \E s \in Sessions :
          \/ Connection(s)
          \/ \E r \in Requests : Receive(s, r)
          \/ WriteResponse(s) \/ DatabaseFails(s) \/ NullCrash(s)
          \/ Auth(s) \/ Chat(s) \/ Message(s)

Spec == Init /\ [][Next]_vars

----------------------------------------------------------------------------
(* Properties *)

Labels == {"recv", "respond", "add_user", "fetch_new_user", "fetch_user",
           "update_user", "fetch_updated_user", "fetch_user_list",
           "fetch_username", "check_chat", "insert_chat", "insert_current_user",
           "insert_invitee_user", "fetch_chat", "fetch_user_chats",
           "fetch_chat_messages", "insert_message", "update_message",
           "remove_message", "fetch_message"}

Statuses == {"NONE", "SUCCESS", "ERROR_JSON", "ERROR_DB", "ERROR_INVALID_CREDENTIALS"}

\* The type invariant: among it, that only digests of passwords are stored
\* (encrypt_password) and that membership rows name existing chats.
TypeOK ==
    /\ DatabaseTypeOK
    /\ conn \in [Sessions -> {"closed", "open", "gone"}]
    /\ client_info \in [Sessions -> [id : Nat, username : Usernames \cup {Garbage}]]
    /\ pc \in [Sessions -> Labels]
    /\ req \in [Sessions -> AllRequests \cup {NoRequest}]
    /\ row \in [Sessions -> Nat]
    /\ \A s \in Sessions : DOMAIN out[s] = {"status", "data"} /\ out[s].status \in Statuses

UsernamesUnique ==
    \A i, j \in UserIds : users[i].username = users[j].username => i = j

\* t_client_info.id and .username always belong to one row of users, whatever
\* registrations and logins (refused ones included) the connection went
\* through; UPDATE_USER writes by the one and reads back by the other.
SessionNamesItsUser ==
    /\ UsernamesUnique
    /\ \A s \in Sessions : client_info[s].username # Garbage =>
          /\ client_info[s].id \in UserIds
          /\ users[client_info[s].id].username = client_info[s].username

BuildsChat(s) == pc[s] \in {"insert_current_user", "insert_invitee_user", "fetch_chat"}

BuiltSoFar(s) ==
    CASE pc[s] = "insert_current_user" -> {}
      [] pc[s] = "insert_invitee_user" -> {client_info[s].id}
      [] OTHER -> {client_info[s].id, req[s].invitee_user_id}

\* Two threads in database_add_chat_entry never work on the same chat, the chat
\* of each has exactly the members it has inserted so far, and no chat ever gets
\* a third member (chat_data->id is the rowid of the thread's own connection).
ChatsKeepToTheirPair ==
    /\ \A s \in Sessions : BuildsChat(s) =>
          /\ row[s] \in 1..chats
          /\ ChatMembers(row[s]) = BuiltSoFar(s)
          /\ \A t \in Sessions \ {s} : BuildsChat(t) => row[t] # row[s]
    /\ \A c \in 1..chats : \A i, j, k \in ChatMembers(c) : i = j \/ j = k \/ i = k

\* The row that a handler reads back to answer SUCCESS is the one its request
\* wrote, and it is there: the new user, the user whose password changed, the
\* chat, with a title (so that database_add_chat_entry never copies a NULL one),
\* the message, with an author if the session has been given an identity.
WriteIsReadBack ==
    \A s \in Sessions :
        /\ pc[s] = "fetch_new_user" =>
              \E i \in database_fetch_user_data(req[s].username) : i > Len(InitUsers)
        /\ pc[s] = "fetch_updated_user" /\ client_info[s].username # Garbage =>
              database_fetch_user_data(client_info[s].username) = {client_info[s].id}
        /\ pc[s] = "fetch_chat" =>
              /\ ~ReadsNull(s)
              /\ ChatOut(row[s], client_info[s].id) =
                    {[id |-> row[s], title |-> users[req[s].invitee_user_id].username]}
        /\ pc[s] = "fetch_message" /\ req[s].type = "ADD_MESSAGE" =>
              /\ row[s] \in MessageIds
              /\ messages[row[s]].user_id = client_info[s].id
              /\ messages[row[s]].chat_id = req[s].chat_id
              /\ client_info[s].username # Garbage => ~ReadsNull(s)

\* No statement takes anything back: accounts keep their id and name, chats and
\* members stay, a message keeps its id, author and chat, and once it is edited or
\* deleted it stays so, whatever edits, deletions and crashes race on it.
RowsAreKept ==
    [][/\ \A i \in UserIds :
             i \in DOMAIN users' /\ users'[i].username = users[i].username
       /\ chats' >= chats /\ members \subseteq members'
       /\ \A m \in MessageIds :
             /\ m \in DOMAIN messages'
             /\ messages'[m].user_id = messages[m].user_id
             /\ messages'[m].chat_id = messages[m].chat_id
             /\ messages[m].updated => messages'[m].updated
             /\ messages[m].deleted => messages'[m].deleted]_vars

\* What "Chat with the selected user already exists" (database.c:273) is there to
\* ensure: no two chats have the same two members.
OneChatPerPair ==
    \A c, d \in 1..chats :
        (\E a, b \in ChatMembers(c) : a # b) /\ ChatMembers(c) = ChatMembers(d) => c = d

\* What "Could not add chat to the database" and "Could not post message in the
\* database" (process_client_request.c:337 and 453) say when ERROR_DB is answered.
\* A chat counts as added when two users are members of it.
RefusedMeansNotAdded ==
    \A s \in Sessions : pc[s] = "respond" /\ out[s].status = "ERROR_DB" =>
        /\ req[s].type = "ADD_CHAT" =>
              ~\E a, b \in ChatMembers(row[s]) \cap UserIds : a # b
        /\ req[s].type = "ADD_MESSAGE" => row[s] = 0

----------------------------------------------------------------------------
(* The server implements ChatService *)

CompleteChats == {c \in 1..chats : \E a, b \in ChatMembers(c) : a # b}

rooms == {[id |-> c, pair |-> ChatMembers(c)] : c \in CompleteChats}

\* The row of the user whom the request of session s has just registered.
new_user ==
    [s \in Sessions |-> CHOOSE i \in UserIds : users[i].username = req[s].username]

\* The row that the request of session s has already written.
effect ==
    [s \in Sessions |->
        CASE pc[s] = "fetch_new_user" -> new_user[s]
          [] pc[s] = "fetch_updated_user" -> client_info[s].id
          [] pc[s] \in {"fetch_chat", "fetch_message"} -> row[s]
          [] OTHER -> 0]

call == [s \in Sessions |->
            [who |-> IF req[s].type \in {"NONE", "REGISTER", "LOGIN"}
                     THEN 0 ELSE client_info[s].id,
             req |-> req[s],
             effect |-> effect[s]]]

Service == INSTANCE ChatService WITH answer <- out

\* Every execution of the server is one of the service: requests take effect
\* atomically and once, SUCCESS is only answered for what is in the file and
\* reports it, and neither races between threads nor crashes undo anything
\* (the handlers of process_client_request.c over the statements of database.c).
Implements == Service!Spec
=============================================================================
