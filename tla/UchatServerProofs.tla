-------------------------- MODULE UchatServerProofs --------------------------
(***************************************************************************)
(* Proofs about UchatServer.                                               *)
(***************************************************************************)
EXTENDS UchatServer, SequenceTheorems, TLAPS

\* An UPDATE leaves a table's row ids alone.
LEMMA UpdatedTable ==
    ASSUME NEW S, NEW q \in Seq(S), NEW f, f = [i \in DOMAIN q |-> f[i]],
           \A i \in DOMAIN q : f[i] \in S
    PROVE  f \in Seq(S) /\ Len(f) = Len(q) /\ DOMAIN f = DOMAIN q
<1>1. DOMAIN q = 1..Len(q) /\ Len(q) \in Nat
  BY LenProperties
<1>2. f \in [1..Len(q) -> S]
  BY <1>1
<1>3. f \in Seq(S)
  BY <1>1, <1>2, SeqDef
<1>4. QED
  BY <1>1, <1>2, <1>3, LenProperties

\* An INSERT gives the new row the next id and moves no other.
LEMMA AppendedTable ==
    ASSUME NEW S, NEW q \in Seq(S), NEW e \in S
    PROVE  /\ Append(q, e) \in Seq(S)
           /\ Len(q) \in Nat
           /\ DOMAIN q = 1..Len(q)
           /\ DOMAIN Append(q, e) = 1..(Len(q) + 1)
           /\ \A i \in DOMAIN q : Append(q, e)[i] = q[i]
           /\ Append(q, e)[Len(q) + 1] = e
  OBVIOUS

----------------------------------------------------------------------------
(* Type correctness *)

\* What the handler at each statement has parsed out of its request.
Fits(s) ==
    /\ pc[s] \in {"add_user", "fetch_new_user", "fetch_user"} =>
          req[s].username \in Usernames /\ req[s].password \in Passwords
    /\ pc[s] = "update_user" => req[s].password \in Passwords
    /\ pc[s] \in {"fetch_username", "check_chat", "insert_chat", "insert_current_user",
                  "insert_invitee_user", "fetch_chat"} =>
          req[s].invitee_user_id \in Nat
    /\ pc[s] \in {"fetch_chat_messages", "insert_message"} => req[s].chat_id \in Nat
    /\ pc[s] \in {"insert_message", "update_message"} => req[s].body \in Bodies
    /\ pc[s] \in {"update_message", "remove_message"} => req[s].message_id \in Nat
    /\ BuildsChat(s) => row[s] \in 1..chats

\* TypeOK is not inductive: it does not say that a thread at a statement holds a
\* request with the fields the statement uses, and the chat it is filling.
TypeInv == TypeOK /\ \A s \in Sessions : Fits(s)

LEMMA ReceivedFits ==
    ASSUME NEW r \in Requests, ~IsMalformed(r), r.type \notin SilentTypes
    PROVE  /\ r \in AllRequests
           /\ FirstStatement[r.type] \in Labels \ {"recv", "respond"}
           /\ FirstStatement[r.type] \in {"add_user", "fetch_user"} =>
                 r.username \in Usernames /\ r.password \in Passwords
           /\ FirstStatement[r.type] = "update_user" => r.password \in Passwords
           /\ FirstStatement[r.type] = "fetch_username" => r.invitee_user_id \in Nat
           /\ FirstStatement[r.type] \in {"fetch_chat_messages", "insert_message"} =>
                 r.chat_id \in Nat
           /\ FirstStatement[r.type] \in {"insert_message", "update_message"} =>
                 r.body \in Bodies
           /\ FirstStatement[r.type] \in {"update_message", "remove_message"} =>
                 r.message_id \in Nat
           /\ FirstStatement[r.type] \notin {"fetch_new_user", "fetch_updated_user",
                 "check_chat", "insert_chat", "insert_current_user",
                 "insert_invitee_user", "fetch_chat", "fetch_message"}
<1>1. r \in AllRequests
  BY DEF Requests
<1>2. CASE r \in [type : {"REGISTER", "LOGIN"}, username : Usernames, password : Passwords]
  BY <1>1, <1>2 DEF FirstStatement, Labels
<1>3. CASE r \in [type : {"UPDATE_USER"}, password : Passwords]
  BY <1>1, <1>3 DEF FirstStatement, Labels
<1>4. CASE r \in [type : {"GET_USERS_FOR_SEARCH", "GET_CHATS"} \cup SilentTypes]
  BY <1>1, <1>4 DEF FirstStatement, Labels
<1>5. CASE r \in [type : {"ADD_CHAT"}, invitee_user_id : InviteeIds]
  BY <1>1, <1>5, ServerAssumption DEF FirstStatement, Labels
<1>6. CASE r \in [type : {"GET_MESSAGES"}, chat_id : ChatIds]
  BY <1>1, <1>6, ServerAssumption DEF FirstStatement, Labels
<1>7. CASE r \in [type : {"ADD_MESSAGE"}, chat_id : ChatIds, body : Bodies]
  BY <1>1, <1>7, ServerAssumption DEF FirstStatement, Labels
<1>8. CASE r \in [type : {"UPDATE_MESSAGE"}, message_id : NamedMessages, body : Bodies]
  BY <1>1, <1>8, ServerAssumption DEF FirstStatement, Labels
<1>9. CASE r \in [type : {"DELETE_MESSAGE"}, message_id : NamedMessages]
  BY <1>1, <1>9, ServerAssumption DEF FirstStatement, Labels
<1>10. CASE r \in [type : ParsedTypes \cap MalformedTypes, malformed : {TRUE}]
  <2>1. DOMAIN r = {"type", "malformed"}
    BY <1>10
  <2>2. QED
    BY <2>1 DEF IsMalformed
<1>11. QED
  BY <1>1, <1>2, <1>3, <1>4, <1>5, <1>6, <1>7, <1>8, <1>9, <1>10 DEF AllRequests

\* A thread that moves on leaves the other threads' requests fitting.
LEMMA Responding ==
    ASSUME TypeInv, NEW s \in Sessions, NEW status \in Statuses, NEW data,
           Respond(s, status, data)
    PROVE  /\ pc' \in [Sessions -> Labels]
           /\ pc'[s] = "respond"
           /\ \A t \in Sessions \ {s} : pc'[t] = pc[t]
           /\ \A t \in Sessions : DOMAIN out'[t] = {"status", "data"}
                                  /\ out'[t].status \in Statuses
  BY DEF TypeInv, TypeOK, Respond, Goto, Response, Labels

LEMMA Going ==
    ASSUME TypeInv, NEW s \in Sessions, NEW label \in Labels, Goto(s, label)
    PROVE  /\ pc' \in [Sessions -> Labels]
           /\ pc'[s] = label
           /\ \A t \in Sessions \ {s} : pc'[t] = pc[t]
  BY DEF TypeInv, TypeOK, Goto

LEMMA Failing ==
    ASSUME TypeInv, NEW s \in Sessions, RespondFailure(s)
    PROVE  \E status \in Statuses : \E data : Respond(s, status, data)
  BY DEF RespondFailure, Statuses

LEMMA RespondingRows ==
    ASSUME TypeInv, NEW s \in Sessions, NEW rows, RespondRows(s, rows)
    PROVE  \E status \in Statuses : \E data : Respond(s, status, data)
  BY Failing DEF RespondRows, Statuses

\* What a step of thread s must show: the tables, its identity, its own
\* request and label; everything of the other threads is as before.
LEMMA ThreadStep ==
    ASSUME TypeInv, NEW s \in Sessions,
           DatabaseTypeOK',
           UNCHANGED <<conn, req>>,
           client_info' \in [Sessions -> [id : Nat, username : Usernames \cup {Garbage}]],
           row' \in [Sessions -> Nat],
           \A t \in Sessions \ {s} : row'[t] = row[t],
           chats' >= chats,
           \/ \E status \in Statuses : \E data : Respond(s, status, data)
           \/ UNCHANGED out /\ \E label \in Labels : Goto(s, label) /\ (Fits(s))'
    PROVE  TypeInv'
<1>1. pc' \in [Sessions -> Labels] /\ \A t \in Sessions \ {s} : pc'[t] = pc[t]
  BY Responding, Going
<1>2. \A t \in Sessions : DOMAIN out'[t] = {"status", "data"} /\ out'[t].status \in Statuses
  BY Responding DEF TypeInv, TypeOK
<1>3. \A t \in Sessions \ {s} : Fits(t)'
  BY <1>1 DEF TypeInv, TypeOK, DatabaseTypeOK, Fits, BuildsChat
<1>4. Fits(s)'
  BY Responding DEF Fits, BuildsChat
<1>5. TypeOK'
  BY <1>1, <1>2 DEF TypeInv, TypeOK
<1>6. QED
  BY <1>3, <1>4, <1>5 DEF TypeInv


\* The same for a step that writes nothing.
LEMMA QueryStep ==
    ASSUME TypeInv, NEW s \in Sessions,
           UNCHANGED <<tables, conn, req, row>>,
           client_info' \in [Sessions -> [id : Nat, username : Usernames \cup {Garbage}]],
           \/ \E status \in Statuses : \E data : Respond(s, status, data)
           \/ UNCHANGED out /\ \E label \in Labels : Goto(s, label) /\ (Fits(s))'
    PROVE  TypeInv'
<1>1. DatabaseTypeOK' /\ row' \in [Sessions -> Nat] /\ chats' >= chats
  BY DEF TypeInv, TypeOK, DatabaseTypeOK, tables
<1>2. QED
  BY <1>1, ThreadStep

LEMMA AddedUserType ==
    ASSUME DatabaseTypeOK, NEW username \in Usernames, NEW password \in Digests,
           database_add_user(username, password)
    PROVE  /\ DatabaseTypeOK' /\ chats' >= chats
           /\ UserIds' = UserIds \cup {Len(users) + 1}
           /\ UserIds = 1..Len(users)
           /\ \A i \in UserIds : users'[i] = users[i]
           /\ users'[Len(users) + 1].username = username
  BY AppendedTable DEF DatabaseTypeOK, database_add_user, UserRow, UserIds

LEMMA UpdatedUserType ==
    ASSUME DatabaseTypeOK, NEW id, NEW password \in Digests,
           database_update_user(id, password)
    PROVE  /\ DatabaseTypeOK' /\ chats' >= chats
           /\ UserIds' = UserIds
           /\ \A i \in UserIds : users'[i].username = users[i].username
<1>1. users' = [i \in DOMAIN users |-> users'[i]]
  BY DEF database_update_user, UserIds
<1>2. \A i \in DOMAIN users : users[i] \in UserRow
  BY LenProperties, ElementOfSeq DEF DatabaseTypeOK
<1>3. \A i \in DOMAIN users :
         users'[i] \in UserRow /\ users'[i].username = users[i].username
  BY <1>2 DEF database_update_user, UserIds, UserRow
<1>4. users' \in Seq(UserRow) /\ DOMAIN users' = DOMAIN users
  BY <1>1, <1>3, UpdatedTable DEF DatabaseTypeOK
<1>5. QED
  BY <1>3, <1>4 DEF DatabaseTypeOK, database_update_user, UserIds

\* The identity a thread takes is that of a row of users.
LEMMA IdentifiedType ==
    ASSUME TypeInv, NEW s \in Sessions, NEW i \in UserIds, Identify(s, i)
    PROVE  client_info' \in [Sessions -> [id : Nat, username : Usernames \cup {Garbage}]]
<1>1. i \in Nat /\ users[i] \in UserRow
  BY LenProperties, ElementOfSeq DEF TypeInv, TypeOK, DatabaseTypeOK, UserIds
<1>2. QED
  BY <1>1 DEF TypeInv, TypeOK, Identify, UserOut, UserRow

LEMMA AuthTypes ==
    ASSUME TypeInv, NEW s \in Sessions, Auth(s)
    PROVE  TypeInv'
<1> USE DEF TypeInv
<1>1. CASE AddUser(s)
  <2>1. req[s].username \in Usernames /\ encrypt_password(req[s].password) \in Digests
    BY <1>1, ServerAssumption DEF AddUser, Fits, encrypt_password
  <2>2. DatabaseTypeOK' /\ chats' >= chats
    <3>1. CASE database_add_user(req[s].username, encrypt_password(req[s].password))
      BY <2>1, <3>1, AddedUserType DEF TypeOK
    <3>2. CASE UNCHANGED tables
      BY <3>2 DEF TypeOK, DatabaseTypeOK, tables
    <3>3. QED
      BY <1>1, <3>1, <3>2 DEF AddUser
  <2>3. \/ \E status \in Statuses : \E data : Respond(s, status, data)
        \/ UNCHANGED out /\ \E label \in Labels : Goto(s, label) /\ (Fits(s))'
    <3>1. CASE RespondFailure(s)
      BY <3>1, Failing
    <3>2. CASE Goto(s, "fetch_new_user") /\ UNCHANGED out
      <4>1. pc'[s] = "fetch_new_user"
        BY <3>2, Going DEF Labels
      <4>2. (Fits(s))'
        BY <1>1, <4>1 DEF AddUser, Fits, BuildsChat
      <4>3. QED
        BY <3>2, <4>2 DEF Labels
    <3>3. QED
      BY <1>1, <3>1, <3>2 DEF AddUser
  <2>4. QED
    BY <1>1, <2>2, <2>3, ThreadStep DEF AddUser, TypeOK
<1>2. CASE FetchNewUser(s)
  <2>1. PICK i \in UserIds : Identify(s, i) /\ Respond(s, "SUCCESS", {UserOut(i)})
    BY <1>2 DEF FetchNewUser, database_fetch_user_data
  <2>2. QED
    BY <1>2, <2>1, IdentifiedType, QueryStep
    DEF FetchNewUser, TypeOK, Statuses
<1>3. CASE FetchUser(s)
  <2>1. CASE \E i \in database_fetch_user_data(req[s].username) :
               /\ Identify(s, i)
               /\ IF users[i].password = encrypt_password(req[s].password)
                  THEN Respond(s, "SUCCESS", {UserOut(i)})
                  ELSE RespondFailure(s)
    <3>1. PICK i \in UserIds : /\ Identify(s, i)
                               /\ \/ Respond(s, "SUCCESS", {UserOut(i)})
                                  \/ RespondFailure(s)
      BY <2>1 DEF database_fetch_user_data
    <3>2. \E status \in Statuses : \E data : Respond(s, status, data)
      BY <3>1, Failing DEF Statuses
    <3>3. QED
      BY <1>3, <3>1, <3>2, IdentifiedType, QueryStep
      DEF FetchUser, TypeOK
  <2>2. CASE RespondFailure(s) /\ UNCHANGED client_info
    BY <1>3, <2>2, Failing, QueryStep DEF FetchUser, TypeOK
  <2>3. QED
    BY <1>3, <2>1, <2>2 DEF FetchUser
<1>4. CASE UpdateUser(s)
  <2>1. encrypt_password(req[s].password) \in Digests
    BY <1>4, ServerAssumption DEF UpdateUser, Fits, encrypt_password
  <2>2. DatabaseTypeOK' /\ chats' >= chats
    BY <1>4, <2>1, UpdatedUserType DEF UpdateUser, TypeOK
  <2>3. pc'[s] = "fetch_updated_user"
    BY <1>4, Going DEF UpdateUser, Labels
  <2>4. (Fits(s))'
    BY <2>3 DEF Fits, BuildsChat
  <2>5. QED
    BY <1>4, <2>2, <2>4, ThreadStep DEF UpdateUser, TypeOK, Labels
<1>5. CASE FetchUpdatedUser(s)
  BY <1>5, RespondingRows, QueryStep DEF FetchUpdatedUser, TypeOK
<1>6. CASE FetchUserList(s)
  BY <1>6, RespondingRows, QueryStep DEF FetchUserList, TypeOK
<1>7. QED
  BY <1>1, <1>2, <1>3, <1>4, <1>5, <1>6 DEF Auth

LEMMA ChatTypes ==
    ASSUME TypeInv, NEW s \in Sessions, Chat(s)
    PROVE  TypeInv'
<1> USE DEF TypeInv
<1>1. CASE FetchUsername(s)
  <2>1. CASE RespondFailure(s)
    BY <1>1, <2>1, Failing, QueryStep DEF FetchUsername, TypeOK
  <2>2. CASE Goto(s, "check_chat") /\ UNCHANGED out
    <3>1. (Fits(s))'
      BY <1>1, <2>2, Going DEF FetchUsername, Fits, BuildsChat, Labels
    <3>2. QED
      BY <1>1, <2>2, <3>1, QueryStep
      DEF FetchUsername, TypeOK, Labels
  <2>3. QED
    BY <1>1, <2>1, <2>2 DEF FetchUsername
<1>2. CASE CheckChat(s) \/ CheckChatUnread(s)
  <2>1. CASE RespondFailure(s)
    BY <1>2, <2>1, Failing, QueryStep
    DEF CheckChat, CheckChatUnread, TypeOK
  <2>2. CASE Goto(s, "insert_chat") /\ UNCHANGED out
    <3>1. (Fits(s))'
      BY <1>2, <2>2, Going DEF CheckChat, CheckChatUnread, Fits, BuildsChat, Labels
    <3>2. QED
      BY <1>2, <2>2, <3>1, QueryStep
      DEF CheckChat, CheckChatUnread, TypeOK, Labels
  <2>3. QED
    BY <1>2, <2>1, <2>2 DEF CheckChat, CheckChatUnread
<1>3. CASE InsertChatRow(s)
  <2>1. /\ DatabaseTypeOK' /\ chats' >= chats
        /\ row' \in [Sessions -> Nat] /\ row'[s] \in 1..chats'
        /\ \A t \in Sessions \ {s} : row'[t] = row[t]
    BY <1>3 DEF InsertChatRow, InsertChat, TypeOK, DatabaseTypeOK
  <2>2. (Fits(s))'
    BY <1>3, <2>1, Going DEF InsertChatRow, Fits, BuildsChat, Labels
  <2>3. QED
    BY <1>3, <2>1, <2>2, ThreadStep DEF InsertChatRow, TypeOK, Labels
<1>4. CASE InsertCurrentUser(s)
  <2>1. (Fits(s))'
    BY <1>4, Going DEF InsertCurrentUser, InsertMember, Fits, BuildsChat, Labels
  <2>2. DatabaseTypeOK' /\ chats' >= chats
    BY <1>4 DEF InsertCurrentUser, InsertMember, TypeOK, DatabaseTypeOK, Fits, BuildsChat
  <2>3. QED
    BY <1>4, <2>1, <2>2, ThreadStep DEF InsertCurrentUser, TypeOK, Labels
<1>5. CASE InsertInviteeUser(s)
  <2>1. CASE RespondFailure(s) /\ UNCHANGED tables
    BY <1>5, <2>1, Failing, QueryStep
    DEF InsertInviteeUser, TypeOK
  <2>2. CASE /\ InsertMember(row[s], req[s].invitee_user_id)
             /\ Goto(s, "fetch_chat") /\ UNCHANGED out
    <3>1. (Fits(s))'
      BY <1>5, <2>2, Going DEF InsertInviteeUser, InsertMember, Fits, BuildsChat, Labels
    <3>2. DatabaseTypeOK' /\ chats' >= chats
      BY <1>5, <2>2
      DEF InsertInviteeUser, InsertMember, TypeOK, DatabaseTypeOK, Fits, BuildsChat
    <3>3. QED
      BY <1>5, <2>2, <3>1, <3>2, ThreadStep DEF InsertInviteeUser, TypeOK, Labels
  <2>3. QED
    BY <1>5, <2>1, <2>2 DEF InsertInviteeUser
<1>6. CASE FetchChat(s)
  BY <1>6, RespondingRows, QueryStep DEF FetchChat, TypeOK
<1>7. CASE FetchUserChats(s)
  BY <1>7, RespondingRows, QueryStep DEF FetchUserChats, TypeOK
<1>8. QED
  BY <1>1, <1>2, <1>3, <1>4, <1>5, <1>6, <1>7 DEF Chat

LEMMA InsertedMessageType ==
    ASSUME DatabaseTypeOK, NEW id \in Nat, NEW c \in Nat, NEW body \in Bodies,
           InsertMessage(id, c, body)
    PROVE  /\ DatabaseTypeOK' /\ chats' >= chats
           /\ MessageIds = 1..Len(messages)
           /\ MessageIds' = MessageIds \cup {Len(messages) + 1}
           /\ \A m \in MessageIds : messages'[m] = messages[m]
           /\ messages'[Len(messages) + 1].user_id = id
           /\ messages'[Len(messages) + 1].chat_id = c
  BY AppendedTable DEF DatabaseTypeOK, InsertMessage, MessageRow, MessageIds

\* UPDATE_MESSAGE and DELETE_MESSAGE: what an UPDATE of messages leaves alone.
LEMMA ChangedMessageType ==
    ASSUME DatabaseTypeOK, NEW m,
           (\E body \in Bodies : UpdateMessage(m, body)) \/ RemoveMessage(m)
    PROVE  /\ DatabaseTypeOK' /\ chats' >= chats
           /\ MessageIds' = MessageIds
           /\ \A i \in MessageIds :
                 /\ messages'[i].user_id = messages[i].user_id
                 /\ messages'[i].chat_id = messages[i].chat_id
                 /\ messages[i].updated => messages'[i].updated
                 /\ messages[i].deleted => messages'[i].deleted
<1>1. messages' = [i \in DOMAIN messages |-> messages'[i]]
  BY DEF UpdateMessage, RemoveMessage, MessageIds
<1>2. \A i \in DOMAIN messages : messages[i] \in MessageRow
  BY LenProperties, ElementOfSeq DEF DatabaseTypeOK
<1>3. ASSUME NEW i \in DOMAIN messages
      PROVE  /\ messages'[i] \in MessageRow
             /\ messages'[i].user_id = messages[i].user_id
             /\ messages'[i].chat_id = messages[i].chat_id
             /\ messages[i].updated => messages'[i].updated
             /\ messages[i].deleted => messages'[i].deleted
  <2>1. messages[i] \in MessageRow
    BY <1>2
  <2>2. \/ messages'[i] = messages[i]
        \/ messages'[i] = [messages[i] EXCEPT !.deleted = TRUE]
        \/ \E body \in Bodies :
              messages'[i] = [messages[i] EXCEPT !.body = body, !.updated = TRUE]
    BY DEF UpdateMessage, RemoveMessage, MessageIds
  <2>3. QED
    BY <2>1, <2>2 DEF MessageRow
<1>4. messages' \in Seq(MessageRow) /\ DOMAIN messages' = DOMAIN messages
  BY <1>1, <1>3, UpdatedTable DEF DatabaseTypeOK
<1>5. UNCHANGED <<users, chats, members>>
  BY DEF UpdateMessage, RemoveMessage
<1>6. DatabaseTypeOK' /\ chats' >= chats
  BY <1>4, <1>5 DEF DatabaseTypeOK
<1>7. QED
  BY <1>3, <1>4, <1>6 DEF MessageIds

LEMMA MessageTypes ==
    ASSUME TypeInv, NEW s \in Sessions, Message(s)
    PROVE  TypeInv'
<1> USE DEF TypeInv
<1>1. CASE FetchChatMessages(s)
  BY <1>1, RespondingRows, QueryStep
  DEF FetchChatMessages, TypeOK
<1>2. CASE InsertMessageRow(s)
  <2>1. /\ DatabaseTypeOK' /\ chats' >= chats
        /\ row' \in [Sessions -> Nat]
        /\ \A t \in Sessions \ {s} : row'[t] = row[t]
    <3>1. /\ client_info[s].id \in Nat /\ req[s].chat_id \in Nat /\ req[s].body \in Bodies
          /\ Len(messages) \in Nat
      BY <1>2, LenProperties DEF InsertMessageRow, Fits, TypeOK, DatabaseTypeOK
    <3>2. QED
      BY <1>2, <3>1, InsertedMessageType DEF InsertMessageRow, TypeOK
  <2>2. (Fits(s))'
    BY <1>2, Going DEF InsertMessageRow, Fits, BuildsChat, Labels
  <2>3. QED
    BY <1>2, <2>1, <2>2, ThreadStep DEF InsertMessageRow, TypeOK, Labels
<1>3. CASE UpdateMessageRow(s)
  <2>1. /\ DatabaseTypeOK' /\ chats' >= chats
        /\ row' \in [Sessions -> Nat]
        /\ \A t \in Sessions \ {s} : row'[t] = row[t]
    BY <1>3, ChangedMessageType DEF UpdateMessageRow, Fits, TypeOK
  <2>2. (Fits(s))'
    BY <1>3, Going DEF UpdateMessageRow, Fits, BuildsChat, Labels
  <2>3. QED
    BY <1>3, <2>1, <2>2, ThreadStep DEF UpdateMessageRow, TypeOK, Labels
<1>4. CASE RemoveMessageRow(s)
  <2>1. /\ DatabaseTypeOK' /\ chats' >= chats
        /\ row' \in [Sessions -> Nat]
        /\ \A t \in Sessions \ {s} : row'[t] = row[t]
    BY <1>4, ChangedMessageType DEF RemoveMessageRow, Fits, TypeOK
  <2>2. (Fits(s))'
    BY <1>4, Going DEF RemoveMessageRow, Fits, BuildsChat, Labels
  <2>3. QED
    BY <1>4, <2>1, <2>2, ThreadStep DEF RemoveMessageRow, TypeOK, Labels
<1>5. CASE FetchMessage(s)
  BY <1>5, RespondingRows, QueryStep DEF FetchMessage, TypeOK
<1>6. QED
  BY <1>1, <1>2, <1>3, <1>4, <1>5 DEF Message

LEMMA ConnectionTypes ==
    ASSUME TypeInv, NEW s \in Sessions, Connection(s)
    PROVE  TypeInv'
<1> USE DEF TypeInv, TypeOK, DatabaseTypeOK, tables, Fits, BuildsChat
<1>1. CASE Connect(s)
  BY <1>1, ServerAssumption DEF Connect
<1>2. CASE PeerCloses(s)
  BY <1>2 DEF PeerCloses
<1>3. CASE ThreadExits(s)
  BY <1>3 DEF ThreadExits, NoClient
<1>4. QED
  BY <1>1, <1>2, <1>3 DEF Connection

LEMMA DieTypes ==
    ASSUME TypeInv, Die
    PROVE  TypeInv'
  BY DEF Die, TypeInv, TypeOK, DatabaseTypeOK, tables, Fits, BuildsChat,
         NoClient, NoRequest, NoResponse, Response, Labels, Statuses

LEMMA ReceiveTypes ==
    ASSUME TypeInv, NEW s \in Sessions, NEW r \in Requests, Receive(s, r)
    PROVE  TypeInv'
<1>1. UNCHANGED <<tables, conn, client_info, row>> /\ r \in AllRequests
  BY DEF Receive, Requests
<1>2. req' \in [Sessions -> AllRequests \cup {NoRequest}]
  BY <1>1 DEF Receive, TypeInv, TypeOK
<1>3. CASE r.type \in SilentTypes
  BY <1>1, <1>3 DEF Receive, TypeInv, TypeOK, DatabaseTypeOK, tables, Fits, BuildsChat
<1>4. CASE r.type \notin SilentTypes /\ IsMalformed(r)
  <2>1. Respond(s, "ERROR_JSON", {}) /\ req' = [req EXCEPT ![s] = r]
    BY <1>4 DEF Receive
  <2>2. /\ pc' \in [Sessions -> Labels] /\ pc'[s] = "respond"
        /\ \A t \in Sessions \ {s} : pc'[t] = pc[t] /\ req'[t] = req[t]
        /\ \A t \in Sessions : DOMAIN out'[t] = {"status", "data"}
                               /\ out'[t].status \in Statuses
    BY <2>1, Responding DEF Statuses, TypeInv, TypeOK
  <2>3. \A t \in Sessions : Fits(t)'
    BY <1>1, <2>2 DEF TypeInv, Fits, BuildsChat, tables
  <2>4. QED
    BY <1>1, <1>2, <2>2, <2>3 DEF TypeInv, TypeOK, DatabaseTypeOK, tables
<1>5. CASE r.type \notin SilentTypes /\ ~IsMalformed(r)
  <2>1. /\ Goto(s, FirstStatement[r.type]) /\ UNCHANGED out
        /\ req' = [req EXCEPT ![s] = r]
    BY <1>5 DEF Receive
  <2>2. /\ pc' \in [Sessions -> Labels] /\ pc'[s] = FirstStatement[r.type]
        /\ req'[s] = r
        /\ \A t \in Sessions \ {s} : pc'[t] = pc[t] /\ req'[t] = req[t]
    BY <1>5, <2>1, Going, ReceivedFits DEF TypeInv, TypeOK
  <2>3. Fits(s)'
    BY <1>5, <2>2, ReceivedFits DEF Fits, BuildsChat
  <2>4. \A t \in Sessions \ {s} : Fits(t)'
    BY <1>1, <2>2 DEF TypeInv, Fits, BuildsChat, tables
  <2>5. QED
    BY <1>1, <1>2, <2>1, <2>2, <2>3, <2>4 DEF TypeInv, TypeOK, DatabaseTypeOK, tables
<1>6. QED
  BY <1>3, <1>4, <1>5

LEMMA WriteResponseTypes ==
    ASSUME TypeInv, NEW s \in Sessions, WriteResponse(s)
    PROVE  TypeInv'
<1>1. /\ pc' \in [Sessions -> Labels] /\ pc'[s] = "recv"
      /\ \A t \in Sessions \ {s} : pc'[t] = pc[t] /\ req'[t] = req[t] /\ row'[t] = row[t]
  <2>1. "recv" \in Labels
    BY DEF Labels
  <2>2. Goto(s, "recv") /\ pc \in [Sessions -> Labels]
    BY DEF WriteResponse, TypeInv, TypeOK
  <2>3. \A t \in Sessions \ {s} : req'[t] = req[t] /\ row'[t] = row[t]
    BY DEF WriteResponse, TypeInv, TypeOK
  <2>4. QED
    BY <2>1, <2>2, <2>3, Going
<1>2. \A t \in Sessions : Fits(t)'
  BY <1>1 DEF WriteResponse, TypeInv, Fits, BuildsChat, tables
<1>3. TypeOK'
  <2>1. DatabaseTypeOK' /\ UNCHANGED <<conn, client_info>>
    BY DEF WriteResponse, TypeInv, TypeOK, DatabaseTypeOK, tables
  <2>2. /\ req' \in [Sessions -> AllRequests \cup {NoRequest}]
        /\ row' \in [Sessions -> Nat]
    BY DEF WriteResponse, TypeInv, TypeOK
  <2>3. \A t \in Sessions : out'[t] = out[t] \/ out'[t] = NoResponse
    BY DEF WriteResponse, TypeInv, TypeOK
  <2>4. \A t \in Sessions : DOMAIN out'[t] = {"status", "data"} /\ out'[t].status \in Statuses
    BY <2>3 DEF TypeInv, TypeOK, NoResponse, Response, Statuses
  <2>5. QED
    BY <1>1, <2>1, <2>2, <2>4 DEF TypeInv, TypeOK
<1>4. QED
  BY <1>2, <1>3 DEF TypeInv

LEMMA DatabaseFailsTypes ==
    ASSUME TypeInv, NEW s \in Sessions, DatabaseFails(s)
    PROVE  TypeInv'
  BY Failing, QueryStep DEF DatabaseFails, TypeInv, TypeOK

LEMMA InitTypes == Init => TypeInv
<1>1. ASSUME Init PROVE TypeOK
  BY <1>1, ServerAssumption, EmptySeq
  DEF Init, TypeOK, DatabaseTypeOK, NoClient, NoRequest, NoResponse, Response,
      Labels, Statuses
<1>2. ASSUME Init PROVE \A s \in Sessions : Fits(s)
  BY <1>2 DEF Init, Fits, BuildsChat
<1>3. QED
  BY <1>1, <1>2 DEF TypeInv

LEMMA StepTypes ==
    ASSUME TypeInv, [Next]_vars
    PROVE  TypeInv'
<1>1. CASE Crash
  BY <1>1, DieTypes DEF Crash
<1>2. ASSUME NEW s \in Sessions, Connection(s) PROVE TypeInv'
  BY <1>2, ConnectionTypes
<1>3. ASSUME NEW s \in Sessions, NEW r \in Requests, Receive(s, r) PROVE TypeInv'
  BY <1>3, ReceiveTypes
<1>4. ASSUME NEW s \in Sessions, WriteResponse(s) PROVE TypeInv'
  BY <1>4, WriteResponseTypes
<1>5. ASSUME NEW s \in Sessions, DatabaseFails(s) PROVE TypeInv'
  BY <1>5, DatabaseFailsTypes
<1>6. ASSUME NEW s \in Sessions, NullCrash(s) PROVE TypeInv'
  BY <1>6, DieTypes DEF NullCrash
<1>7. ASSUME NEW s \in Sessions, Auth(s) PROVE TypeInv'
  BY <1>7, AuthTypes
<1>8. ASSUME NEW s \in Sessions, Chat(s) PROVE TypeInv'
  BY <1>8, ChatTypes
<1>9. ASSUME NEW s \in Sessions, Message(s) PROVE TypeInv'
  BY <1>9, MessageTypes
<1>10. CASE UNCHANGED vars
  BY <1>10 DEF vars, session, TypeInv, TypeOK, DatabaseTypeOK, tables, Fits, BuildsChat
<1>11. QED
  BY <1>1, <1>2, <1>3, <1>4, <1>5, <1>6, <1>7, <1>8, <1>9, <1>10 DEF Next

LEMMA TypeInvariant == Spec => []TypeInv
  BY InitTypes, StepTypes, PTL DEF Spec

\* Type correctness of the server's threads and tables: in particular nothing
\* but digests of passwords is ever stored, and every users_chats row names an
\* existing chat.
THEOREM TypeCorrect == Spec => []TypeOK
<1>1. TypeInv => TypeOK
  BY DEF TypeInv
<1>2. QED
  BY <1>1, TypeInvariant, PTL
=============================================================================
