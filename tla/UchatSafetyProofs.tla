-------------------------- MODULE UchatSafetyProofs --------------------------
(***************************************************************************)
(* Proofs of the safety properties of UchatServer, on top of its type      *)
(* correctness (UchatServerProofs).                                        *)
(***************************************************************************)
EXTENDS UchatServerProofs

----------------------------------------------------------------------------
(* What the statements do to the tables *)

\* Nine statements write; every other step leaves the file alone.
LEMMA Writers ==
    ASSUME [Next]_vars
    PROVE  \/ UNCHANGED tables
           \/ \E s \in Sessions :
                 \/ AddUser(s) /\ database_add_user(req[s].username,
                                                    encrypt_password(req[s].password))
                 \/ UpdateUser(s) \/ InsertChatRow(s) \/ InsertCurrentUser(s)
                 \/ InsertInviteeUser(s) /\ InsertMember(row[s], req[s].invitee_user_id)
                 \/ InsertMessageRow(s) \/ UpdateMessageRow(s) \/ RemoveMessageRow(s)
<1>1. CASE UNCHANGED vars
  BY <1>1 DEF vars
<1>2. CASE Crash
  BY <1>2 DEF Crash, Die
<1>3. ASSUME NEW s \in Sessions, Connection(s)
      PROVE  UNCHANGED tables
  BY <1>3 DEF Connection, Connect, PeerCloses, ThreadExits
<1>4. ASSUME NEW s \in Sessions,
             \/ \E r \in Requests : Receive(s, r)
             \/ WriteResponse(s) \/ DatabaseFails(s) \/ NullCrash(s)
      PROVE  UNCHANGED tables
  BY <1>4 DEF Receive, WriteResponse, DatabaseFails, NullCrash, Die
<1>5. ASSUME NEW s \in Sessions, Auth(s)
      PROVE  \/ UNCHANGED tables
             \/ AddUser(s) /\ database_add_user(req[s].username,
                                                encrypt_password(req[s].password))
             \/ UpdateUser(s)
  BY <1>5 DEF Auth, AddUser, FetchNewUser, FetchUser, FetchUpdatedUser, FetchUserList
<1>6. ASSUME NEW s \in Sessions, Chat(s)
      PROVE  \/ UNCHANGED tables \/ InsertChatRow(s) \/ InsertCurrentUser(s)
             \/ InsertInviteeUser(s) /\ InsertMember(row[s], req[s].invitee_user_id)
  BY <1>6 DEF Chat, FetchUsername, CheckChat, CheckChatUnread, InsertInviteeUser,
              FetchChat, FetchUserChats
<1>7. ASSUME NEW s \in Sessions, Message(s)
      PROVE  \/ UNCHANGED tables \/ InsertMessageRow(s) \/ UpdateMessageRow(s)
             \/ RemoveMessageRow(s)
  BY <1>7 DEF Message, FetchChatMessages, FetchMessage
<1>8. QED
  BY <1>1, <1>2, <1>3, <1>4, <1>5, <1>6, <1>7 DEF Next

KeptUsers ==
    /\ UserIds \subseteq UserIds'
    /\ \A i \in UserIds : users'[i].username = users[i].username
    /\ Len(users') \in Nat /\ Len(users') >= Len(users)

KeptMessages ==
    \A m \in MessageIds :
        /\ m \in MessageIds'
        /\ messages'[m].user_id = messages[m].user_id
        /\ messages'[m].chat_id = messages[m].chat_id
        /\ messages[m].updated => messages'[m].updated
        /\ messages[m].deleted => messages'[m].deleted

\* No statement takes a row back, renames a user or moves a message.
LEMMA TablesKept ==
    ASSUME TypeInv, [Next]_vars
    PROVE  KeptUsers /\ chats' >= chats /\ members \subseteq members' /\ KeptMessages
<1> USE DEF KeptUsers, KeptMessages
<1>1. /\ UserIds = 1..Len(users) /\ Len(users) \in Nat /\ DatabaseTypeOK
      /\ UNCHANGED users => KeptUsers
  BY LenProperties DEF UserIds, TypeInv, TypeOK, DatabaseTypeOK
<1>2. UNCHANGED messages => KeptMessages
  BY DEF MessageIds
<1>3. chats \in Nat
  BY DEF TypeInv, TypeOK, DatabaseTypeOK
<1>4. CASE UNCHANGED tables
  BY <1>1, <1>2, <1>3, <1>4 DEF tables
<1>5. ASSUME NEW s \in Sessions, AddUser(s),
             database_add_user(req[s].username, encrypt_password(req[s].password))
      PROVE  KeptUsers /\ UNCHANGED <<chats, members, messages>>
  <2>1. req[s].username \in Usernames /\ encrypt_password(req[s].password) \in Digests
    BY <1>5, ServerAssumption DEF AddUser, TypeInv, Fits, encrypt_password
  <2>2. Len(users') = Len(users) + 1
    BY <1>1, <1>5, <2>1, AppendProperties DEF database_add_user, DatabaseTypeOK, UserRow
  <2>3. QED
    BY <1>1, <1>5, <2>1, <2>2, AddedUserType DEF database_add_user
<1>6. ASSUME NEW s \in Sessions, UpdateUser(s)
      PROVE  KeptUsers /\ UNCHANGED <<chats, members, messages>>
  <2>1. encrypt_password(req[s].password) \in Digests
    BY <1>6, ServerAssumption DEF UpdateUser, TypeInv, Fits, encrypt_password
  <2>2. DatabaseTypeOK' /\ UserIds' = UserIds
        /\ \A i \in UserIds : users'[i].username = users[i].username
    BY <1>1, <1>6, <2>1, UpdatedUserType DEF UpdateUser
  <2>3. UserIds' = 1..Len(users') /\ Len(users') \in Nat
    BY <2>2, LenProperties DEF UserIds, DatabaseTypeOK
  <2>4. Len(users') = Len(users)
    BY <1>1, <2>2, <2>3
  <2>5. QED
    BY <1>1, <1>6, <2>2, <2>3, <2>4 DEF UpdateUser, database_update_user
<1>7. ASSUME NEW s \in Sessions,
             \/ InsertChatRow(s) \/ InsertCurrentUser(s)
             \/ InsertMember(row[s], req[s].invitee_user_id)
      PROVE  chats' >= chats /\ members \subseteq members' /\ UNCHANGED <<users, messages>>
  BY <1>3, <1>7 DEF InsertChatRow, InsertCurrentUser, InsertChat, InsertMember
<1>8. ASSUME NEW s \in Sessions, InsertMessageRow(s)
      PROVE  KeptMessages /\ UNCHANGED <<users, chats, members>>
  <2>1. /\ client_info[s].id \in Nat /\ req[s].chat_id \in Nat /\ req[s].body \in Bodies
    BY <1>8 DEF InsertMessageRow, Fits, TypeInv, TypeOK
  <2>2. InsertMessage(client_info[s].id, req[s].chat_id, req[s].body)
    BY <1>8 DEF InsertMessageRow
  <2>3. KeptMessages
    BY <1>1, <2>1, <2>2, InsertedMessageType
  <2>4. QED
    BY <2>2, <2>3 DEF InsertMessage
<1>9. ASSUME NEW s \in Sessions, UpdateMessageRow(s) \/ RemoveMessageRow(s)
      PROVE  KeptMessages /\ UNCHANGED <<users, chats, members>>
  <2>1. \/ \E body \in Bodies : UpdateMessage(req[s].message_id, body)
        \/ RemoveMessage(req[s].message_id)
    BY <1>9 DEF UpdateMessageRow, RemoveMessageRow, TypeInv, Fits
  <2>2. KeptMessages
    BY <1>1, <2>1, ChangedMessageType
  <2>3. QED
    BY <2>1, <2>2 DEF UpdateMessage, RemoveMessage
<1>10. QED
  BY <1>1, <1>2, <1>3, <1>4, <1>5, <1>6, <1>7, <1>8, <1>9, Writers

\* Nothing that a statement wrote is ever taken back, for any number of
\* connections racing on it and through crashes of the server.
THEOREM RowsKept == Spec => RowsAreKept
<1>1. TypeInv /\ [Next]_vars =>
         [/\ \A i \in UserIds :
                i \in DOMAIN users' /\ users'[i].username = users[i].username
          /\ chats' >= chats /\ members \subseteq members'
          /\ \A m \in MessageIds :
                /\ m \in DOMAIN messages'
                /\ messages'[m].user_id = messages[m].user_id
                /\ messages'[m].chat_id = messages[m].chat_id
                /\ messages[m].updated => messages'[m].updated
                /\ messages[m].deleted => messages'[m].deleted]_vars
  BY TablesKept DEF KeptUsers, KeptMessages, UserIds, MessageIds
<1>2. QED
  BY <1>1, TypeInvariant, PTL DEF Spec, RowsAreKept

----------------------------------------------------------------------------
(* The identity of a session *)

IdentityInv == TypeInv /\ SessionNamesItsUser

\* A connection's identity is only ever set to a row of users or forgotten.
LEMMA Identities ==
    ASSUME TypeInv, [Next]_vars
    PROVE  \A s \in Sessions :
              \/ client_info'[s] = client_info[s]
              \/ client_info'[s].username = Garbage
              \/ UNCHANGED users /\ \E i \in UserIds : client_info'[s] = UserOut(i)
<1> USE DEF TypeInv, TypeOK
<1>1. CASE UNCHANGED vars \/ Crash
  BY <1>1 DEF vars, session, Crash, Die, NoClient
<1>2. ASSUME NEW t \in Sessions, Connection(t)
      PROVE  \A s \in Sessions : \/ client_info'[s] = client_info[s]
                                 \/ client_info'[s].username = Garbage
  BY <1>2 DEF Connection, Connect, PeerCloses, ThreadExits, NoClient
<1>3. ASSUME NEW t \in Sessions,
             \/ \E r \in Requests : Receive(t, r)
             \/ WriteResponse(t) \/ DatabaseFails(t) \/ Chat(t) \/ Message(t)
      PROVE  UNCHANGED client_info
  BY <1>3 DEF Receive, WriteResponse, DatabaseFails, Chat, FetchUsername, CheckChat,
              CheckChatUnread, InsertChatRow, InsertCurrentUser, InsertInviteeUser,
              FetchChat, FetchUserChats, Message, FetchChatMessages, InsertMessageRow,
              UpdateMessageRow, RemoveMessageRow, FetchMessage
<1>4. ASSUME NEW t \in Sessions, NullCrash(t)
      PROVE  \A s \in Sessions : client_info'[s].username = Garbage
  BY <1>4 DEF NullCrash, Die, NoClient
<1>5. ASSUME NEW t \in Sessions, Auth(t)
      PROVE  \/ UNCHANGED client_info
             \/ UNCHANGED users /\ \E i \in UserIds : Identify(t, i)
  BY <1>5 DEF Auth, AddUser, FetchNewUser, FetchUser, UpdateUser, FetchUpdatedUser,
              FetchUserList, database_fetch_user_data, tables
<1>6. QED
  BY <1>1, <1>2, <1>3, <1>4, <1>5 DEF Next, Identify

LEMMA IdentityStep ==
    ASSUME IdentityInv, [Next]_vars
    PROVE  SessionNamesItsUser'
<1>1. TypeInv /\ UsernamesUnique /\ KeptUsers
  BY TablesKept DEF IdentityInv, SessionNamesItsUser
<1>2. UsernamesUnique'
  <2>1. CASE UNCHANGED users
    BY <1>1, <2>1 DEF UsernamesUnique, UserIds
  <2>2. ASSUME NEW s \in Sessions, AddUser(s),
               database_add_user(req[s].username, encrypt_password(req[s].password))
        PROVE  UsernamesUnique'
    <3>1. req[s].username \in Usernames /\ encrypt_password(req[s].password) \in Digests
      BY <1>1, <2>2, ServerAssumption DEF AddUser, TypeInv, Fits, encrypt_password
    <3>2. /\ UserIds' = UserIds \cup {Len(users) + 1}
          /\ \A i \in UserIds : users'[i] = users[i]
          /\ users'[Len(users) + 1].username = req[s].username
      BY <1>1, <2>2, <3>1, AddedUserType DEF TypeInv, TypeOK
    <3>3. \A i \in UserIds : users[i].username # req[s].username
      BY <2>2 DEF database_add_user, database_fetch_user_data
    <3>4. QED
      BY <1>1, <3>2, <3>3 DEF UsernamesUnique
  <2>3. ASSUME NEW s \in Sessions, UpdateUser(s)
        PROVE  UsernamesUnique'
    <3>1. UserIds' = UserIds
      BY <1>1, <2>3, UpdatedUserType, ServerAssumption
      DEF UpdateUser, TypeInv, TypeOK, Fits, encrypt_password
    <3>2. QED
      BY <1>1, <3>1 DEF UsernamesUnique, KeptUsers
  <2>4. QED
    BY <2>1, <2>2, <2>3, Writers
    DEF tables, InsertChatRow, InsertCurrentUser, InsertMessageRow, UpdateMessageRow,
        RemoveMessageRow, InsertChat, InsertMember, InsertMessage, UpdateMessage,
        RemoveMessage
<1>3. ASSUME NEW s \in Sessions, client_info'[s].username # Garbage
      PROVE  /\ client_info'[s].id \in UserIds'
             /\ users'[client_info'[s].id].username = client_info'[s].username
  <2>1. CASE client_info'[s] = client_info[s]
    BY <1>1, <1>3, <2>1 DEF IdentityInv, SessionNamesItsUser, KeptUsers
  <2>2. ASSUME UNCHANGED users, NEW i \in UserIds, client_info'[s] = UserOut(i)
        PROVE  /\ client_info'[s].id \in UserIds'
               /\ users'[client_info'[s].id].username = client_info'[s].username
    BY <1>1, <2>2 DEF UserOut, KeptUsers
  <2>3. QED
    BY <1>1, <1>3, <2>1, <2>2, Identities
<1>4. QED
  BY <1>2, <1>3 DEF SessionNamesItsUser

LEMMA IdentityInvariant == Spec => []IdentityInv
<1>1. Init => SessionNamesItsUser
  BY ServerAssumption
  DEF Init, SessionNamesItsUser, UsernamesUnique, UserIds, NoClient
<1>2. IdentityInv /\ [Next]_vars => IdentityInv'
  BY IdentityStep, StepTypes DEF IdentityInv
<1>3. Init => IdentityInv
  BY <1>1, InitTypes DEF IdentityInv
<1>4. QED
  BY <1>2, <1>3, PTL DEF Spec

\* However registrations, refused logins, password changes and crashes follow
\* each other, a session writes and reads back under one and the same account.
THEOREM IdentityCorrect == Spec => []SessionNamesItsUser
<1>1. IdentityInv => SessionNamesItsUser
  BY DEF IdentityInv
<1>2. QED
  BY <1>1, IdentityInvariant, PTL

----------------------------------------------------------------------------
(* Chats and their members *)

\* Neither property below is inductive: they do not say that a closed connection
\* has no request under way (or the next client of the slot would give it
\* another identity), nor what the earlier statements of a handler established.
Tracks(s) ==
    /\ conn[s] = "closed" => pc[s] = "recv"
    /\ pc[s] = "fetch_new_user" =>
          \E i \in database_fetch_user_data(req[s].username) : i > Len(InitUsers)
    /\ pc[s] \in {"check_chat", "insert_chat"} \/ BuildsChat(s) =>
          req[s].invitee_user_id \in UserIds
    /\ pc[s] = "fetch_chat" => client_info[s].id # req[s].invitee_user_id
    /\ pc[s] = "update_message" => req[s].type = "UPDATE_MESSAGE"
    /\ pc[s] = "remove_message" => req[s].type = "DELETE_MESSAGE"
    /\ pc[s] = "fetch_message" /\ req[s].type = "ADD_MESSAGE" =>
          /\ row[s] \in MessageIds
          /\ messages[row[s]].user_id = client_info[s].id
          /\ messages[row[s]].chat_id = req[s].chat_id

SafetyInv ==
    /\ IdentityInv
    /\ ChatsKeepToTheirPair
    /\ Len(users) >= Len(InitUsers)
    /\ \A s \in Sessions : Tracks(s)

Stands(t) ==
    /\ pc'[t] = pc[t] /\ req'[t] = req[t] /\ row'[t] = row[t]
    /\ client_info'[t] = client_info[t]

\* Every step moves one thread, ends the server or comes from outside.
LEMMA Movers ==
    ASSUME TypeInv, \A s \in Sessions : conn[s] = "closed" => pc[s] = "recv", [Next]_vars
    PROVE  \/ UNCHANGED <<tables, conn>> /\ \A t \in Sessions : Stands(t)
           \/ Die
           \/ \E s \in Sessions :
                 /\ Connection(s)
                 /\ \/ pc[s] = "recv" /\ pc'[s] = "recv"
                    \/ Stands(s) /\ conn'[s] = "gone"
                 /\ UNCHANGED tables
                 /\ \A t \in Sessions \ {s} : Stands(t) /\ conn'[t] = conn[t]
           \/ \E s \in Sessions :
                 /\ \/ \E r \in Requests : Receive(s, r)
                    \/ WriteResponse(s) \/ DatabaseFails(s)
                    \/ Auth(s) \/ Chat(s) \/ Message(s)
                 /\ UNCHANGED conn
                 /\ \A t \in Sessions \ {s} : Stands(t)
<1> USE DEF TypeInv, TypeOK
<1>1. CASE UNCHANGED vars
  BY <1>1 DEF vars, session, Stands
<1>2. CASE Crash
  BY <1>2 DEF Crash
<1>3. ASSUME NEW s \in Sessions, Connection(s)
      PROVE  /\ \/ pc[s] = "recv" /\ pc'[s] = "recv"
                \/ Stands(s) /\ conn'[s] = "gone"
             /\ UNCHANGED tables
             /\ \A t \in Sessions \ {s} : Stands(t) /\ conn'[t] = conn[t]
  <2>1. CASE Connect(s)
    BY <2>1 DEF Connect, Stands
  <2>2. CASE PeerCloses(s)
    BY <2>2 DEF PeerCloses, Stands
  <2>3. CASE ThreadExits(s)
    BY <2>3 DEF ThreadExits, Stands
  <2>4. QED
    BY <1>3, <2>1, <2>2, <2>3 DEF Connection
<1>4. ASSUME NEW s \in Sessions,
             \/ \E r \in Requests : Receive(s, r)
             \/ WriteResponse(s) \/ DatabaseFails(s)
      PROVE  UNCHANGED conn /\ \A t \in Sessions \ {s} : Stands(t)
  BY <1>4 DEF Receive, WriteResponse, DatabaseFails, Stands, Goto, Respond,
              RespondFailure
<1>5. ASSUME NEW s \in Sessions, NullCrash(s)
      PROVE  Die
  BY <1>5 DEF NullCrash
<1>6. ASSUME NEW s \in Sessions, Auth(s)
      PROVE  UNCHANGED conn /\ \A t \in Sessions \ {s} : Stands(t)
  BY <1>6 DEF Auth, AddUser, FetchNewUser, FetchUser, UpdateUser, FetchUpdatedUser,
              FetchUserList, Stands, Goto, Respond, RespondFailure, RespondRows, Identify
<1>7. ASSUME NEW s \in Sessions, Chat(s)
      PROVE  UNCHANGED conn /\ \A t \in Sessions \ {s} : Stands(t)
  BY <1>7 DEF Chat, FetchUsername, CheckChat, CheckChatUnread, InsertChatRow,
              InsertCurrentUser, InsertInviteeUser, FetchChat, FetchUserChats,
              Stands, Goto, Respond, RespondFailure, RespondRows
<1>8. ASSUME NEW s \in Sessions, Message(s)
      PROVE  UNCHANGED conn /\ \A t \in Sessions \ {s} : Stands(t)
  BY <1>8 DEF Message, FetchChatMessages, InsertMessageRow, UpdateMessageRow,
              RemoveMessageRow, FetchMessage,
              Stands, Goto, Respond, RespondFailure, RespondRows
<1>9. QED
  BY <1>1, <1>2, <1>3, <1>4, <1>5, <1>6, <1>7, <1>8 DEF Next

\* What Tracks says of a thread survives everything the others do.
LEMMA TracksStands ==
    ASSUME TypeInv, KeptUsers, KeptMessages, NEW t \in Sessions, Tracks(t), Stands(t),
           conn'[t] = conn[t] \/ conn'[t] = "gone"
    PROVE  Tracks(t)'
<1>1. BuildsChat(t)' = BuildsChat(t)
  BY DEF BuildsChat, Stands
<1>2. pc[t] = "fetch_new_user" =>
         (\E i \in database_fetch_user_data(req[t].username) : i > Len(InitUsers))'
  BY DEF Tracks, Stands, KeptUsers, database_fetch_user_data
<1>3. QED
  BY <1>1, <1>2 DEF Tracks, Stands, KeptUsers, KeptMessages

\* A thread outside database_add_chat_entry disturbs no chat.
LEMMA ChatsUndisturbed ==
    ASSUME ChatsKeepToTheirPair, UNCHANGED <<chats, members>>,
           \A t \in Sessions : BuildsChat(t)' => Stands(t)
    PROVE  ChatsKeepToTheirPair'
<1>1. \A c : ChatMembers(c)' = ChatMembers(c)
  BY DEF ChatMembers
<1>2. ASSUME NEW t \in Sessions, BuildsChat(t)'
      PROVE  BuildsChat(t) /\ row'[t] = row[t] /\ BuiltSoFar(t)' = BuiltSoFar(t)
  BY <1>2 DEF BuildsChat, BuiltSoFar, Stands
<1>3. QED
  BY <1>1, <1>2 DEF ChatsKeepToTheirPair

LEMMA InsertedMember ==
    ASSUME DatabaseTypeOK, NEW c, NEW id, InsertMember(c, id)
    PROVE  /\ ChatMembers(c)' = ChatMembers(c) \cup {id}
           /\ id \notin ChatMembers(c)
           /\ \A d : d # c => ChatMembers(d)' = ChatMembers(d)
<1>1. members' = members \cup {<<c, id>>} /\ <<c, id>> \notin members
  BY DEF InsertMember
<1>2. \A p \in members : p = <<p[1], p[2]>>
  BY DEF DatabaseTypeOK
<1>3. \A d, v : v \in ChatMembers(d) <=> \E p \in members : p[1] = d /\ p[2] = v
  BY DEF ChatMembers
<1>4. \A d, v : v \in ChatMembers(d)' <=> \E p \in members' : p[1] = d /\ p[2] = v
  BY DEF ChatMembers
<1>5. \A d, v : v \in ChatMembers(d)' <=> v \in ChatMembers(d) \/ (d = c /\ v = id)
  BY <1>1, <1>3, <1>4
<1>6. id \notin ChatMembers(c)
  BY <1>1, <1>2, <1>3
<1>7. ASSUME NEW d, d # c PROVE ChatMembers(d)' = ChatMembers(d)
  BY <1>5, <1>7
<1>8. ChatMembers(c)' = ChatMembers(c) \cup {id}
  BY <1>5
<1>9. QED
  BY <1>6, <1>7, <1>8

\* Labels at which Tracks asks nothing of an open connection.
Untracked == {"recv", "respond", "add_user", "fetch_user", "update_user",
              "fetch_updated_user", "fetch_user_list", "fetch_username",
              "fetch_user_chats", "fetch_chat_messages", "insert_message"}

LEMMA UntrackedTracks ==
    ASSUME NEW s \in Sessions, conn'[s] # "closed", pc'[s] \in Untracked
    PROVE  Tracks(s)' /\ ~BuildsChat(s)'
  BY DEF Tracks, BuildsChat, Untracked

\* A thread that answers, or starts over, is done with its chat.
LEMMA Answering ==
    ASSUME TypeInv, NEW s \in Sessions,
           RespondFailure(s) \/ (\E rows : RespondRows(s, rows))
           \/ (\E status, data : Respond(s, status, data))
    PROVE  pc'[s] = "respond"
  BY DEF TypeInv, TypeOK, RespondFailure, RespondRows, Respond, Goto

LEMMA AuthTracks ==
    ASSUME SafetyInv, NEW s \in Sessions, conn'[s] # "closed", Auth(s)
    PROVE  Tracks(s)' /\ ~BuildsChat(s)' /\ UNCHANGED <<chats, members>>
<1> USE DEF SafetyInv, IdentityInv
<1>1. ASSUME AddUser(s), RespondFailure(s)
      PROVE  pc'[s] \in Untracked
  BY <1>1, Answering DEF Untracked
<1>2. CASE AddUser(s) /\ Goto(s, "fetch_new_user") /\
           database_add_user(req[s].username, encrypt_password(req[s].password))
  <2>1. req[s].username \in Usernames /\ encrypt_password(req[s].password) \in Digests
    BY <1>2, ServerAssumption DEF AddUser, TypeInv, Fits, encrypt_password
  <2>2. /\ Len(users) + 1 \in UserIds'
        /\ users'[Len(users) + 1].username = req[s].username
    BY <1>2, <2>1, AddedUserType DEF TypeInv, TypeOK
  <2>3. Len(users) + 1 > Len(InitUsers)
    BY ServerAssumption, LenProperties DEF TypeInv, TypeOK, DatabaseTypeOK
  <2>4. pc'[s] = "fetch_new_user" /\ req' = req
    BY <1>2, Going DEF AddUser, Labels
  <2>5. QED
    BY <1>2, <2>2, <2>3, <2>4
    DEF Tracks, BuildsChat, database_fetch_user_data, database_add_user
<1>3. CASE FetchNewUser(s) \/ FetchUser(s) \/ FetchUpdatedUser(s) \/ FetchUserList(s)
  <2>1. pc'[s] = "respond" /\ UNCHANGED tables
    BY <1>3, Answering DEF FetchNewUser, FetchUser, FetchUpdatedUser, FetchUserList
  <2>2. QED
    BY <2>1, UntrackedTracks DEF Untracked, tables
<1>4. CASE UpdateUser(s)
  <2>1. pc'[s] = "fetch_updated_user"
    BY <1>4, Going DEF UpdateUser, Labels
  <2>2. QED
    BY <1>4, <2>1, UntrackedTracks DEF Untracked, UpdateUser, database_update_user
<1>5. QED
  BY <1>1, <1>2, <1>3, <1>4, UntrackedTracks DEF Auth, AddUser, database_add_user, tables

LEMMA MessageTracks ==
    ASSUME SafetyInv, NEW s \in Sessions, conn'[s] # "closed", Message(s)
    PROVE  Tracks(s)' /\ ~BuildsChat(s)' /\ UNCHANGED <<chats, members>>
<1> USE DEF SafetyInv, IdentityInv
<1>1. CASE FetchChatMessages(s) \/ FetchMessage(s)
  <2>1. pc'[s] = "respond" /\ UNCHANGED tables
    BY <1>1, Answering DEF FetchChatMessages, FetchMessage
  <2>2. QED
    BY <2>1, UntrackedTracks DEF Untracked, tables
<1>2. CASE InsertMessageRow(s)
  <2>1. /\ client_info[s].id \in Nat /\ req[s].chat_id \in Nat /\ req[s].body \in Bodies
        /\ InsertMessage(client_info[s].id, req[s].chat_id, req[s].body)
    BY <1>2 DEF InsertMessageRow, TypeInv, Fits, TypeOK
  <2>2. /\ Len(messages) + 1 \in MessageIds'
        /\ messages'[Len(messages) + 1].user_id = client_info[s].id
        /\ messages'[Len(messages) + 1].chat_id = req[s].chat_id
    BY <2>1, InsertedMessageType DEF TypeInv, TypeOK
  <2>3. /\ pc'[s] = "fetch_message" /\ row'[s] = Len(messages) + 1
        /\ UNCHANGED <<client_info, req>>
    BY <1>2, Going DEF InsertMessageRow, Labels, TypeInv, TypeOK
  <2>4. QED
    BY <2>1, <2>2, <2>3 DEF Tracks, BuildsChat, InsertMessage
<1>3. CASE UpdateMessageRow(s) \/ RemoveMessageRow(s)
  <2>1. pc'[s] = "fetch_message" /\ UNCHANGED req /\ UNCHANGED <<chats, members>>
    BY <1>3, Going
    DEF UpdateMessageRow, RemoveMessageRow, UpdateMessage, RemoveMessage, Labels
  <2>2. req[s].type \in {"UPDATE_MESSAGE", "DELETE_MESSAGE"}
    BY <1>3 DEF UpdateMessageRow, RemoveMessageRow, Tracks
  <2>3. QED
    BY <2>1, <2>2 DEF Tracks, BuildsChat
<1>4. QED
  BY <1>1, <1>2, <1>3 DEF Message

LEMMA ReceivedTypes ==
    ASSUME NEW r \in Requests, r.type \notin SilentTypes
    PROVE  /\ FirstStatement[r.type] = "update_message" => r.type = "UPDATE_MESSAGE"
           /\ FirstStatement[r.type] = "remove_message" => r.type = "DELETE_MESSAGE"
           /\ FirstStatement[r.type] \in Untracked \cup {"update_message", "remove_message"}
<1>1. r.type \in HandledTypes
  BY DEF Requests, AllRequests, ParsedTypes, SilentTypes, HandledTypes, FirstStatement
<1>2. QED
  BY <1>1 DEF HandledTypes, FirstStatement, Untracked

LEMMA ReceiveTracks ==
    ASSUME SafetyInv, NEW s \in Sessions, conn'[s] # "closed",
           \/ \E r \in Requests : Receive(s, r)
           \/ WriteResponse(s) \/ DatabaseFails(s)
    PROVE  Tracks(s)' /\ ~BuildsChat(s)' /\ UNCHANGED <<chats, members>>
<1> USE DEF SafetyInv, IdentityInv
<1>1. CASE DatabaseFails(s)
  BY <1>1, Answering, UntrackedTracks DEF DatabaseFails, tables, Untracked
<1>2. CASE WriteResponse(s)
  BY <1>2, Going, UntrackedTracks DEF WriteResponse, tables, Untracked, Labels
<1>3. ASSUME NEW r \in Requests, Receive(s, r)
      PROVE  Tracks(s)' /\ ~BuildsChat(s)' /\ UNCHANGED <<chats, members>>
  <2>1. UNCHANGED <<chats, members>> /\ pc[s] = "recv"
    BY <1>3 DEF Receive, tables
  <2>2. CASE r.type \in SilentTypes
    BY <1>3, <2>1, <2>2, UntrackedTracks DEF Receive, Untracked
  <2>3. CASE r.type \notin SilentTypes /\ IsMalformed(r)
    BY <1>3, <2>1, <2>3, Answering, UntrackedTracks DEF Receive, Untracked
  <2>4. CASE r.type \notin SilentTypes /\ ~IsMalformed(r)
    <3>1. pc'[s] = FirstStatement[r.type] /\ req'[s] = r
      BY <1>3, <2>4, Going, ReceivedFits DEF Receive, TypeInv, TypeOK
    <3>2. /\ FirstStatement[r.type] = "update_message" => r.type = "UPDATE_MESSAGE"
          /\ FirstStatement[r.type] = "remove_message" => r.type = "DELETE_MESSAGE"
      BY <2>4, ReceivedTypes
    <3>3. FirstStatement[r.type] \in Untracked \cup {"update_message", "remove_message"}
      BY <2>4, ReceivedTypes
    <3>4. QED
      BY <2>1, <3>1, <3>2, <3>3, UntrackedTracks DEF Tracks, BuildsChat
  <2>5. QED
    BY <2>2, <2>3, <2>4
<1>4. QED
  BY <1>1, <1>2, <1>3

\* The steps of a handler that opens or reads chats, but writes none.
LEMMA ChatQueryTracks ==
    ASSUME SafetyInv, NEW s \in Sessions, conn'[s] # "closed", Chat(s), UNCHANGED tables
    PROVE  Tracks(s)' /\ ~BuildsChat(s)'
<1> USE DEF SafetyInv, IdentityInv
<1>1. CASE RespondFailure(s) \/ FetchChat(s) \/ FetchUserChats(s)
  <2>1. pc'[s] = "respond"
    BY <1>1, Answering DEF FetchChat, FetchUserChats
  <2>2. QED
    BY <2>1, UntrackedTracks DEF Untracked
<1>2. CASE FetchUsername(s) /\ Goto(s, "check_chat")
      /\ database_fetch_username(req[s].invitee_user_id) # {}
  <2>1. pc'[s] = "check_chat" /\ req' = req
    BY <1>2, Going DEF FetchUsername, Labels
  <2>2. req[s].invitee_user_id \in UserIds /\ UserIds' = UserIds
    BY <1>2 DEF database_fetch_username, UserIds, tables
  <2>3. QED
    BY <2>1, <2>2 DEF Tracks, BuildsChat
<1>3. CASE (CheckChat(s) \/ CheckChatUnread(s)) /\ Goto(s, "insert_chat")
  <2>1. pc'[s] = "insert_chat" /\ req' = req /\ pc[s] = "check_chat"
    BY <1>3, Going DEF CheckChat, CheckChatUnread, Labels
  <2>2. req[s].invitee_user_id \in UserIds /\ UserIds' = UserIds
    BY <2>1 DEF Tracks, UserIds, tables
  <2>3. QED
    BY <2>1, <2>2 DEF Tracks, BuildsChat
<1>4. ~InsertChatRow(s)
  BY DEF InsertChatRow, InsertChat, tables, TypeInv, TypeOK, DatabaseTypeOK
<1>5. \A c, id : ~InsertMember(c, id)
  BY DEF InsertMember, tables
<1>6. QED
  BY <1>1, <1>2, <1>3, <1>4, <1>5
  DEF Chat, FetchUsername, CheckChat, CheckChatUnread, InsertCurrentUser, InsertInviteeUser

\* INSERT INTO chats: the new chat is nobody's and has no member.
LEMMA NewChat ==
    ASSUME SafetyInv, NEW s \in Sessions, conn'[s] # "closed", InsertChatRow(s),
           \A t \in Sessions \ {s} : Stands(t)
    PROVE  Tracks(s)' /\ ChatsKeepToTheirPair'
<1> USE DEF SafetyInv, IdentityInv
<1>1. /\ chats' = chats + 1 /\ chats \in Nat /\ UNCHANGED <<users, members>>
      /\ row'[s] = chats + 1 /\ UNCHANGED req
      /\ pc'[s] = "insert_current_user" /\ pc[s] = "insert_chat"
  BY Going DEF InsertChatRow, InsertChat, TypeInv, TypeOK, DatabaseTypeOK, Labels
<1>2. Tracks(s)'
  BY <1>1 DEF Tracks, BuildsChat, UserIds
<1>3. \A c : ChatMembers(c)' = ChatMembers(c)
  BY <1>1 DEF ChatMembers
<1>4. ChatMembers(chats + 1) = {}
  BY <1>1 DEF ChatMembers, TypeInv, TypeOK, DatabaseTypeOK
<1>5. ASSUME NEW t \in Sessions \ {s}, BuildsChat(t)'
      PROVE  BuildsChat(t) /\ row'[t] = row[t] /\ BuiltSoFar(t)' = BuiltSoFar(t)
  BY <1>5 DEF BuildsChat, BuiltSoFar, Stands
<1>6. ASSUME NEW t \in Sessions, BuildsChat(t)'
      PROVE  /\ row'[t] \in 1..chats'
             /\ ChatMembers(row[t])' = BuiltSoFar(t)'
             /\ \A u \in Sessions \ {t} : BuildsChat(u)' => row'[t] # row'[u]
  <2>1. CASE t = s
    <3>1. BuiltSoFar(s)' = {}
      BY <1>1 DEF BuiltSoFar
    <3>2. \A u \in Sessions \ {s} : BuildsChat(u)' => row'[u] \in 1..chats
      BY <1>5 DEF ChatsKeepToTheirPair
    <3>3. QED
      BY <1>1, <1>3, <1>4, <2>1, <3>1, <3>2
  <2>2. CASE t # s
    BY <1>1, <1>3, <1>5, <1>6, <2>2 DEF ChatsKeepToTheirPair
  <2>3. QED
    BY <2>1, <2>2
<1>7. \A c \in 1..chats' : \A i, j, k \in ChatMembers(c)' : i = j \/ j = k \/ i = k
  BY <1>1, <1>3, <1>4 DEF ChatsKeepToTheirPair
<1>8. QED
  BY <1>2, <1>6, <1>7 DEF ChatsKeepToTheirPair

\* INSERT INTO users_chats: the chat of the thread, and no other, gets a member.
LEMMA NewMember ==
    ASSUME SafetyInv, NEW s \in Sessions, conn'[s] # "closed",
           NEW id, InsertMember(row[s], id),
           \/ InsertCurrentUser(s) /\ id = client_info[s].id
           \/ /\ InsertInviteeUser(s) /\ Goto(s, "fetch_chat")
              /\ id = req[s].invitee_user_id,
           \A t \in Sessions \ {s} : Stands(t)
    PROVE  Tracks(s)' /\ ChatsKeepToTheirPair'
<1> USE DEF SafetyInv, IdentityInv
<1>1. /\ UNCHANGED <<users, chats>> /\ UNCHANGED <<client_info, req, row>>
      /\ \/ /\ pc[s] = "insert_current_user" /\ pc'[s] = "insert_invitee_user"
            /\ id = client_info[s].id
         \/ /\ pc[s] = "insert_invitee_user" /\ pc'[s] = "fetch_chat"
            /\ id = req[s].invitee_user_id
  BY Going DEF InsertCurrentUser, InsertInviteeUser, InsertMember, TypeInv, Labels
<1>2. /\ row[s] \in 1..chats /\ ChatMembers(row[s]) = BuiltSoFar(s)
      /\ \A t \in Sessions \ {s} : BuildsChat(t) => row[t] # row[s]
  BY <1>1 DEF ChatsKeepToTheirPair, BuildsChat
<1>3. /\ ChatMembers(row[s])' = ChatMembers(row[s]) \cup {id}
      /\ id \notin ChatMembers(row[s])
      /\ \A d : d # row[s] => ChatMembers(d)' = ChatMembers(d)
  <2>1. PICK c : c = row[s]
    OBVIOUS
  <2>2. c = row'[s] /\ InsertMember(c, id)
    BY <1>1, <2>1
  <2>3. /\ ChatMembers(c)' = ChatMembers(c) \cup {id}
        /\ id \notin ChatMembers(c)
        /\ \A d : d # c => ChatMembers(d)' = ChatMembers(d)
    BY <2>2, InsertedMember DEF TypeInv, TypeOK
  <2>4. QED
    BY <2>1, <2>2, <2>3
<1>4. Tracks(s)'
  BY <1>1, <1>2, <1>3 DEF Tracks, BuildsChat, BuiltSoFar, UserIds
<1>5. ChatMembers(row[s])' = BuiltSoFar(s)'
  BY <1>1, <1>2, <1>3 DEF BuiltSoFar
<1>6. ASSUME NEW t \in Sessions \ {s}, BuildsChat(t)'
      PROVE  /\ BuildsChat(t) /\ row'[t] = row[t] /\ BuiltSoFar(t)' = BuiltSoFar(t)
             /\ row[t] # row[s]
  BY <1>2, <1>6 DEF BuildsChat, BuiltSoFar, Stands
<1>7. ASSUME NEW t \in Sessions, BuildsChat(t)'
      PROVE  /\ row'[t] \in 1..chats'
             /\ ChatMembers(row[t])' = BuiltSoFar(t)'
             /\ \A u \in Sessions \ {t} : BuildsChat(u)' => row'[t] # row'[u]
  <2>1. CASE t = s
    BY <1>1, <1>2, <1>5, <1>6, <2>1
  <2>2. CASE t # s
    <3>1. /\ BuildsChat(t) /\ row'[t] = row[t] /\ BuiltSoFar(t)' = BuiltSoFar(t)
          /\ row[t] # row[s]
      BY <1>6, <1>7, <2>2
    <3>2. ChatMembers(row[t])' = BuiltSoFar(t)' /\ row[t] \in 1..chats
      BY <1>1, <1>3, <3>1 DEF ChatsKeepToTheirPair
    <3>3. \A u \in Sessions \ {t} : BuildsChat(u)' => row[t] # row[u]
      BY <1>6, <3>1 DEF ChatsKeepToTheirPair
    <3>4. QED
      BY <1>1, <3>2, <3>3
  <2>3. QED
    BY <2>1, <2>2
<1>8. \A c \in 1..chats' : \A i, j, k \in ChatMembers(c)' : i = j \/ j = k \/ i = k
  <2>1. \A i, j, k \in ChatMembers(row[s])' : i = j \/ j = k \/ i = k
    BY <1>1, <1>5 DEF BuiltSoFar
  <2>2. QED
    BY <1>1, <1>3, <2>1 DEF ChatsKeepToTheirPair
<1>9. QED
  BY <1>4, <1>7, <1>8 DEF ChatsKeepToTheirPair

LEMMA ChatTracks ==
    ASSUME SafetyInv, NEW s \in Sessions, conn'[s] # "closed", Chat(s), [Next]_vars,
           \A t \in Sessions \ {s} : Stands(t)
    PROVE  Tracks(s)' /\ ChatsKeepToTheirPair'
<1>1. CASE UNCHANGED tables
  <2>1. Tracks(s)' /\ ~BuildsChat(s)'
    BY <1>1, ChatQueryTracks
  <2>2. \A t \in Sessions : BuildsChat(t)' => Stands(t)
    BY <2>1
  <2>3. QED
    BY <1>1, <2>1, <2>2, ChatsUndisturbed DEF SafetyInv, tables
<1>2. CASE InsertChatRow(s)
  BY <1>2, NewChat
<1>3. CASE InsertCurrentUser(s)
  <2>1. PICK id : id = client_info[s].id
    OBVIOUS
  <2>2. InsertMember(row[s], id)
    BY <1>3, <2>1 DEF InsertCurrentUser
  <2>3. QED
    BY <1>3, <2>1, <2>2, NewMember
<1>4. CASE /\ InsertInviteeUser(s) /\ Goto(s, "fetch_chat")
           /\ InsertMember(row[s], req[s].invitee_user_id)
  <2>1. PICK id : id = req[s].invitee_user_id
    OBVIOUS
  <2>2. InsertMember(row[s], id)
    BY <1>4, <2>1
  <2>3. QED
    BY <1>4, <2>1, <2>2, NewMember
<1>5. QED
  BY <1>1, <1>2, <1>3, <1>4
  DEF Chat, FetchUsername, CheckChat, CheckChatUnread, InsertInviteeUser, FetchChat,
      FetchUserChats

LEMMA SafetyStep ==
    ASSUME SafetyInv, [Next]_vars
    PROVE  SafetyInv'
<1>1. /\ TypeInv /\ \A s \in Sessions : Tracks(s)
      /\ \A s \in Sessions : conn[s] = "closed" => pc[s] = "recv"
  BY DEF SafetyInv, IdentityInv, Tracks
<1>2. KeptUsers /\ KeptMessages
  BY <1>1, TablesKept
<1>3. IdentityInv'
  BY IdentityStep, StepTypes DEF SafetyInv, IdentityInv
<1>4. Len(users') >= Len(InitUsers)
  <2>1. Len(users) \in Nat /\ Len(InitUsers) \in Nat
    BY <1>1, LenProperties, ServerAssumption DEF TypeInv, TypeOK, DatabaseTypeOK
  <2>2. QED
    BY <1>2, <2>1 DEF SafetyInv, KeptUsers
<1>5. ASSUME NEW t \in Sessions, Stands(t), conn'[t] = conn[t] \/ conn'[t] = "gone"
      PROVE  Tracks(t)'
  BY <1>1, <1>2, <1>5, TracksStands
<1>6. ChatsKeepToTheirPair' /\ \A s \in Sessions : Tracks(s)'
  <2>1. CASE UNCHANGED <<tables, conn>> /\ \A t \in Sessions : Stands(t)
    BY <1>5, <2>1, ChatsUndisturbed DEF SafetyInv, tables
  <2>2. CASE Die
    <3>1. \A s \in Sessions : pc'[s] = "recv" /\ ~BuildsChat(s)'
      BY <2>2 DEF Die, BuildsChat
    <3>2. \A s \in Sessions : Tracks(s)'
      BY <3>1 DEF Tracks, BuildsChat
    <3>3. QED
      BY <2>2, <3>1, <3>2, ChatsUndisturbed DEF SafetyInv, Die, tables
  <2>3. ASSUME NEW s \in Sessions,
               /\ \/ pc[s] = "recv" /\ pc'[s] = "recv"
                  \/ Stands(s) /\ conn'[s] = "gone",
               UNCHANGED tables,
               \A t \in Sessions \ {s} : Stands(t) /\ conn'[t] = conn[t]
        PROVE  ChatsKeepToTheirPair' /\ \A t \in Sessions : Tracks(t)'
    <3>1. Tracks(s)' /\ (BuildsChat(s)' => Stands(s))
      <4>1. CASE pc'[s] = "recv"
        BY <4>1 DEF Tracks, BuildsChat
      <4>2. CASE Stands(s) /\ conn'[s] = "gone"
        BY <1>5, <4>2
      <4>3. QED
        BY <2>3, <4>1, <4>2
    <3>2. \A t \in Sessions : BuildsChat(t)' => Stands(t)
      BY <2>3, <3>1
    <3>3. ChatsKeepToTheirPair'
      BY <2>3, <3>2, ChatsUndisturbed DEF SafetyInv, tables
    <3>4. QED
      BY <1>5, <2>3, <3>1, <3>3
  <2>4. ASSUME NEW s \in Sessions,
               \/ \E r \in Requests : Receive(s, r)
               \/ WriteResponse(s) \/ DatabaseFails(s)
               \/ Auth(s) \/ Chat(s) \/ Message(s),
               UNCHANGED conn, \A t \in Sessions \ {s} : Stands(t)
        PROVE  ChatsKeepToTheirPair' /\ \A t \in Sessions : Tracks(t)'
    <3>1. conn'[s] # "closed"
      <4>1. pc[s] # "recv" \/ conn[s] = "open"
        BY <2>4
        DEF Receive, WriteResponse, DatabaseFails, Auth, AddUser, FetchNewUser,
            FetchUser, UpdateUser, FetchUpdatedUser, FetchUserList, Chat,
            FetchUsername, CheckChat, CheckChatUnread, InsertChatRow,
            InsertCurrentUser, InsertInviteeUser, FetchChat, FetchUserChats,
            Message, FetchChatMessages, InsertMessageRow, UpdateMessageRow,
            RemoveMessageRow, FetchMessage
      <4>2. QED
        BY <1>1, <2>4, <4>1
    <3>2. CASE Chat(s)
      BY <1>5, <2>4, <3>1, <3>2, ChatTracks
    <3>3. CASE ~Chat(s)
      <4>1. Tracks(s)' /\ ~BuildsChat(s)' /\ UNCHANGED <<chats, members>>
        BY <2>4, <3>1, <3>3, ReceiveTracks, AuthTracks, MessageTracks
      <4>2. \A t \in Sessions : BuildsChat(t)' => Stands(t)
        BY <2>4, <4>1
      <4>3. ChatsKeepToTheirPair'
        BY <4>1, <4>2, ChatsUndisturbed DEF SafetyInv
      <4>4. QED
        BY <1>5, <2>4, <4>1, <4>3
    <3>4. QED
      BY <3>2, <3>3
  <2>5. QED
    BY <1>1, <2>1, <2>2, <2>3, <2>4, Movers
<1>7. QED
  BY <1>3, <1>4, <1>6 DEF SafetyInv

LEMMA SafetyInvariant == Spec => []SafetyInv
<1>1. Init => IdentityInv
  BY ServerAssumption, InitTypes
  DEF Init, IdentityInv, SessionNamesItsUser, UsernamesUnique, UserIds, NoClient
<1>2. Init => ChatsKeepToTheirPair /\ \A s \in Sessions : Tracks(s)
  BY DEF Init, ChatsKeepToTheirPair, BuildsChat, Tracks
<1>3. Init => Len(users) >= Len(InitUsers)
  BY ServerAssumption, LenProperties DEF Init
<1>4. Init => SafetyInv
  BY <1>1, <1>2, <1>3 DEF SafetyInv
<1>5. QED
  BY <1>4, SafetyStep, PTL DEF Spec

\* However many threads open chats at once, each fills its own, and no chat ever
\* has a third member.
THEOREM ChatsCorrect == Spec => []ChatsKeepToTheirPair
<1>1. SafetyInv => ChatsKeepToTheirPair
  BY DEF SafetyInv
<1>2. QED
  BY <1>1, SafetyInvariant, PTL

\* The chat that ADD_CHAT reads back is there, under the invitee's name.
LEMMA ChatIsReadBack ==
    ASSUME SafetyInv, NEW s \in Sessions, pc[s] = "fetch_chat"
    PROVE  /\ ~ReadsNull(s)
           /\ ChatOut(row[s], client_info[s].id) =
                 {[id |-> row[s], title |-> users[req[s].invitee_user_id].username]}
<1> DEFINE invitee == req[s].invitee_user_id
<1>1. /\ invitee \in UserIds /\ client_info[s].id # invitee
      /\ ChatMembers(row[s]) = {client_info[s].id, invitee}
  BY DEF SafetyInv, Tracks, ChatsKeepToTheirPair, BuildsChat, BuiltSoFar
<1>2. \A p \in members : p = <<p[1], p[2]>>
  BY DEF SafetyInv, IdentityInv, TypeInv, TypeOK, DatabaseTypeOK
<1>3. \A v : <<row[s], v>> \in members <=> v \in ChatMembers(row[s])
  BY <1>2 DEF ChatMembers
<1>4. TitleUsers(row[s], client_info[s].id) = {invitee}
  BY <1>1, <1>3 DEF TitleUsers
<1>5. QED
  BY <1>4 DEF ReadsNull, ChatOut

\* Between its write and its read-back, a handler's row is never lost to, mixed up
\* with or changed in owner by anything another thread does.
THEOREM WritesReadBack == Spec => []WriteIsReadBack
<1>1. ASSUME SafetyInv PROVE WriteIsReadBack
  <2> USE <1>1
  <2>1. SessionNamesItsUser /\ \A s \in Sessions : Tracks(s)
    BY DEF SafetyInv, IdentityInv
  <2>2. ASSUME NEW s \in Sessions, client_info[s].username # Garbage
        PROVE  database_fetch_user_data(client_info[s].username) = {client_info[s].id}
    BY <2>1, <2>2 DEF SessionNamesItsUser, UsernamesUnique, database_fetch_user_data
  <2>3. ASSUME NEW s \in Sessions, pc[s] = "fetch_message", req[s].type = "ADD_MESSAGE",
               client_info[s].username # Garbage
        PROVE  ~ReadsNull(s)
    BY <2>1, <2>3 DEF Tracks, SessionNamesItsUser, ReadsNull
  <2>4. QED
    BY <2>1, <2>2, <2>3, ChatIsReadBack DEF WriteIsReadBack, Tracks
<1>2. QED
  BY <1>1, SafetyInvariant, PTL
=============================================================================
