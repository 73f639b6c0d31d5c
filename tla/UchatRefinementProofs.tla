------------------------ MODULE UchatRefinementProofs ------------------------
(***************************************************************************)
(* Proof that the worker threads of UchatServer implement ChatService: the *)
(* statement that completes the write of a request is its effect, the      *)
(* statement that ends its handler gives the answer, every other statement *)
(* is invisible.                                                           *)
(***************************************************************************)
EXTENDS UchatSafetyProofs

----------------------------------------------------------------------------
(* What a thread is doing *)

\* The types of the requests that may be under way at a statement.
TypesAt(label) ==
    CASE label \in {"add_user", "fetch_new_user"} -> {"REGISTER"}
      [] label = "fetch_user" -> {"LOGIN"}
      [] label \in {"update_user", "fetch_updated_user"} -> {"UPDATE_USER"}
      [] label = "fetch_user_list" -> {"GET_USERS_FOR_SEARCH"}
      [] label \in {"fetch_username", "check_chat", "insert_chat", "insert_current_user",
                    "insert_invitee_user", "fetch_chat"} -> {"ADD_CHAT"}
      [] label = "fetch_user_chats" -> {"GET_CHATS"}
      [] label = "fetch_chat_messages" -> {"GET_MESSAGES"}
      [] label = "insert_message" -> {"ADD_MESSAGE"}
      [] label = "update_message" -> {"UPDATE_MESSAGE"}
      [] label = "remove_message" -> {"DELETE_MESSAGE"}
      [] label = "fetch_message" -> {"ADD_MESSAGE", "UPDATE_MESSAGE", "DELETE_MESSAGE"}
      [] OTHER -> HandledTypes

Handles(s) ==
    /\ pc[s] = "recv" => req[s] = NoRequest
    /\ pc[s] # "recv" => req[s].type \in TypesAt(pc[s])
    /\ pc[s] # "respond" => out[s] = NoResponse

\* SafetyInv does not say that a thread at a statement handles a request of the
\* type whose handler the statement is in, and has not answered it yet.
RequestInv ==
    /\ SafetyInv
    /\ out = [s \in Sessions |-> out[s]]
    /\ \A s \in Sessions : Handles(s)

LEMMA Handled ==
    HandledTypes = {"REGISTER", "LOGIN", "UPDATE_USER", "GET_USERS_FOR_SEARCH",
                    "ADD_CHAT", "GET_CHATS", "GET_MESSAGES", "ADD_MESSAGE",
                    "UPDATE_MESSAGE", "DELETE_MESSAGE"}
  BY DEF HandledTypes, FirstStatement

LEMMA ReceivedHandled ==
    ASSUME NEW r \in Requests, r.type \notin SilentTypes
    PROVE  r.type \in HandledTypes /\ r.type \in TypesAt(FirstStatement[r.type])
<1>1. r.type \in HandledTypes
  BY DEF Requests, AllRequests, ParsedTypes, SilentTypes, HandledTypes, FirstStatement
<1>2. QED
  BY <1>1, Handled DEF FirstStatement, TypesAt

\* The statement of a handler is followed by another of the same handler, or by
\* the answer; the other threads' requests and answers are left alone.
HandlerStep(s) ==
    /\ pc[s] \notin {"recv", "respond"}
    /\ UNCHANGED req
    /\ \/ \E status, data : Respond(s, status, data)
       \/ /\ UNCHANGED out
          /\ \E label \in Labels \ {"recv", "respond"} :
                Goto(s, label) /\ TypesAt(pc[s]) \subseteq TypesAt(label)

LEMMA AnswersRespond ==
    ASSUME NEW s
    PROVE  /\ RespondFailure(s) => \E status, data : Respond(s, status, data)
           /\ \A rows : RespondRows(s, rows) => \E status, data : Respond(s, status, data)
  BY DEF RespondFailure, RespondRows

LEMMA HandlerSteps ==
    ASSUME NEW s \in Sessions,
           DatabaseFails(s) \/ Auth(s) \/ Chat(s) \/ Message(s)
    PROVE  HandlerStep(s)
<1>1. CASE \/ DatabaseFails(s) \/ FetchNewUser(s) \/ FetchUser(s) \/ FetchUpdatedUser(s)
           \/ FetchUserList(s) \/ FetchChat(s) \/ FetchUserChats(s)
           \/ FetchChatMessages(s) \/ FetchMessage(s)
  BY <1>1, AnswersRespond
  DEF HandlerStep, DatabaseFails, FetchNewUser, FetchUser, FetchUpdatedUser,
      FetchUserList, FetchChat, FetchUserChats, FetchChatMessages, FetchMessage
<1>2. CASE AddUser(s) \/ UpdateUser(s)
  BY <1>2, AnswersRespond DEF HandlerStep, AddUser, UpdateUser, Labels, TypesAt
<1>3. CASE FetchUsername(s) \/ CheckChat(s) \/ CheckChatUnread(s)
  BY <1>3, AnswersRespond
  DEF HandlerStep, FetchUsername, CheckChat, CheckChatUnread, Labels, TypesAt
<1>4. CASE InsertChatRow(s) \/ InsertCurrentUser(s) \/ InsertInviteeUser(s)
  BY <1>4, AnswersRespond
  DEF HandlerStep, InsertChatRow, InsertCurrentUser, InsertInviteeUser, Labels, TypesAt
<1>5. CASE InsertMessageRow(s) \/ UpdateMessageRow(s) \/ RemoveMessageRow(s)
  BY <1>5 DEF HandlerStep, InsertMessageRow, UpdateMessageRow, RemoveMessageRow,
              Labels, TypesAt
<1>6. QED
  BY <1>1, <1>2, <1>3, <1>4, <1>5 DEF Auth, Chat, Message

LEMMA HandlerKeeps ==
    ASSUME RequestInv, NEW s \in Sessions, HandlerStep(s)
    PROVE  /\ out' = [t \in Sessions |-> out'[t]]
           /\ \A t \in Sessions : Handles(t)'
<1>1. pc \in [Sessions -> Labels] /\ req[s].type \in TypesAt(pc[s]) /\ req' = req
  BY DEF RequestInv, SafetyInv, IdentityInv, TypeInv, TypeOK, HandlerStep, Handles
<1>2. req[s].type \in HandledTypes
  BY <1>1, Handled DEF TypesAt
<1>3. CASE \E status, data : Respond(s, status, data)
  BY <1>1, <1>2, <1>3 DEF RequestInv, Respond, Goto, Handles, TypesAt
<1>4. CASE /\ UNCHANGED out
           /\ \E label \in Labels \ {"recv", "respond"} :
                 Goto(s, label) /\ TypesAt(pc[s]) \subseteq TypesAt(label)
  BY <1>1, <1>4 DEF RequestInv, Goto, Handles, HandlerStep
<1>5. QED
  BY <1>3, <1>4 DEF HandlerStep

LEMMA RequestStep ==
    ASSUME RequestInv, [Next]_vars
    PROVE  RequestInv'
<1> USE DEF RequestInv
<1>1. SafetyInv' /\ TypeOK
  BY SafetyStep DEF SafetyInv, IdentityInv, TypeInv
<1>2. SUFFICES /\ out' = [t \in Sessions |-> out'[t]]
               /\ \A t \in Sessions : Handles(t)'
  BY <1>1
<1>3. CASE UNCHANGED vars
  BY <1>3 DEF vars, session, Handles
<1>4. CASE Die
  BY <1>4 DEF Die, Handles
<1>5. ASSUME NEW s \in Sessions, Connection(s)
      PROVE  UNCHANGED <<pc, req, out>>
  BY <1>5 DEF Connection, Connect, PeerCloses, ThreadExits
<1>6. ASSUME NEW s \in Sessions, NEW r \in Requests, Receive(s, r)
      PROVE  /\ out' = [t \in Sessions |-> out'[t]]
             /\ \A t \in Sessions : Handles(t)'
  <2>1. CASE r.type \in SilentTypes
    BY <1>6, <2>1 DEF Receive, Handles
  <2>2. CASE r.type \notin SilentTypes /\ IsMalformed(r)
    <3>1. /\ out' = [out EXCEPT ![s] = Response("ERROR_JSON", {})]
          /\ pc' = [pc EXCEPT ![s] = "respond"] /\ req' = [req EXCEPT ![s] = r]
      BY <1>6, <2>2 DEF Receive, Respond, Goto
    <3>2. r.type \in TypesAt("respond")
      BY <2>2, ReceivedHandled DEF TypesAt
    <3>3. QED
      BY <1>1, <3>1, <3>2 DEF TypeOK, Handles
  <2>3. CASE r.type \notin SilentTypes /\ ~IsMalformed(r)
    <3>1. FirstStatement[r.type] \notin {"recv", "respond"}
      BY <2>3, ReceivedFits
    <3>2. QED
      BY <1>1, <1>6, <2>3, <3>1, ReceivedHandled DEF TypeOK, Receive, Goto, Handles
  <2>4. QED
    BY <2>1, <2>2, <2>3
<1>7. ASSUME NEW s \in Sessions, WriteResponse(s)
      PROVE  /\ out' = [t \in Sessions |-> out'[t]]
             /\ \A t \in Sessions : Handles(t)'
  BY <1>1, <1>7 DEF WriteResponse, Goto, Handles, TypeOK
<1>8. ASSUME NEW s \in Sessions,
             DatabaseFails(s) \/ Auth(s) \/ Chat(s) \/ Message(s)
      PROVE  /\ out' = [t \in Sessions |-> out'[t]]
             /\ \A t \in Sessions : Handles(t)'
  BY <1>8, HandlerSteps, HandlerKeeps
<1>9. QED
  BY <1>3, <1>4, <1>5, <1>6, <1>7, <1>8 DEF Next, Crash, NullCrash, Handles

LEMMA RequestInvariant == Spec => []RequestInv
<1>1. Init => /\ out = [s \in Sessions |-> out[s]]
              /\ \A s \in Sessions : Handles(s)
  BY DEF Init, Handles
<1>2. QED
  BY <1>1, SafetyInvariant, RequestStep, PTL DEF Spec, RequestInv

----------------------------------------------------------------------------
(* What the service sees of a call *)

Anonymous == {"NONE", "REGISTER", "LOGIN"}

LEMMA ChosenUser ==
    ASSUME NEW S, NEW f, NEW name, NEW i \in S, f[i].username = name,
           \A j \in S : f[j].username = name => j = i
    PROVE  (CHOOSE j \in S : f[j].username = name) = i
  BY Zenon

\* The row of a new user is the only one of its name, now and later.
LEMMA NewUserEffect ==
    ASSUME RequestInv, NEW s \in Sessions, pc[s] = "fetch_new_user",
           NEW i \in database_fetch_user_data(req[s].username)
    PROVE  effect[s] = i /\ i \in UserIds /\ database_fetch_user_data(req[s].username) = {i}
<1>1. UsernamesUnique
  BY DEF RequestInv, SafetyInv, IdentityInv, SessionNamesItsUser
<1>2. /\ i \in UserIds /\ users[i].username = req[s].username
      /\ \A j \in UserIds : users[j].username = req[s].username => j = i
  BY <1>1 DEF UsernamesUnique, database_fetch_user_data
<1>3. new_user[s] = (CHOOSE j \in UserIds : users[j].username = req[s].username)
  BY Zenon DEF new_user
<1>4. new_user[s] = i
  BY <1>2, <1>3, ChosenUser, Zenon
<1>5. QED
  BY <1>2, <1>4 DEF effect, database_fetch_user_data

LEMMA EffectStands ==
    ASSUME RequestInv, RequestInv', KeptUsers, NEW t \in Sessions, Stands(t)
    PROVE  effect'[t] = effect[t]
<1>1. CASE pc[t] = "fetch_new_user"
  <2>1. PICK i \in UserIds : users[i].username = req[t].username
    BY <1>1 DEF RequestInv, SafetyInv, Tracks, database_fetch_user_data
  <2>2. effect[t] = i
    BY <1>1, <2>1, NewUserEffect DEF database_fetch_user_data
  <2>3. i \in UserIds' /\ users'[i].username = req'[t].username /\ UsernamesUnique'
    BY <2>1 DEF KeptUsers, Stands, RequestInv, SafetyInv, IdentityInv, SessionNamesItsUser
  <2>4. \A j \in UserIds' : users'[j].username = req'[t].username => j = i
    BY <2>3 DEF UsernamesUnique
  <2>5. new_user'[t] = (CHOOSE j \in UserIds' : users'[j].username = req'[t].username)
    BY Zenon DEF new_user
  <2>6. new_user'[t] = i
    BY <2>3, <2>4, <2>5, ChosenUser, Zenon
  <2>7. QED
    BY <1>1, <2>2, <2>6 DEF effect, Stands
<1>2. CASE pc[t] # "fetch_new_user"
  BY <1>2 DEF effect, Stands
<1>3. QED
  BY <1>1, <1>2

\* A thread that keeps its place keeps its call.
LEMMA CallStands ==
    ASSUME RequestInv, RequestInv', KeptUsers, NEW t \in Sessions, Stands(t)
    PROVE  call'[t] = call[t]
  BY EffectStands DEF call, Stands

\* A step of one thread changes at most the effect of its call.
LEMMA CallStep ==
    ASSUME RequestInv, RequestInv', KeptUsers, NEW s \in Sessions,
           \A t \in Sessions \ {s} : Stands(t),
           req'[s] = req[s],
           req[s].type \in Anonymous \/ client_info'[s] = client_info[s],
           NEW e, effect'[s] = e
    PROVE  call' = [call EXCEPT ![s].effect = e]
<1>1. \A t \in Sessions \ {s} : call'[t] = call[t]
  BY CallStands
<1>2. call'[s] = [call[s] EXCEPT !.effect = e]
  BY DEF call, Anonymous
<1>3. call = [t \in Sessions |-> call[t]] /\ call' = [t \in Sessions |-> call'[t]]
  BY DEF call
<1>4. QED
  BY <1>1, <1>2, <1>3

LEMMA CallFields ==
    ASSUME NEW s \in Sessions
    PROVE  /\ call[s].req = req[s] /\ call[s].effect = effect[s]
           /\ req[s].type \notin Anonymous => call[s].who = client_info[s].id
           /\ req[s].type \in Anonymous => call[s].who = 0
  BY DEF call, Anonymous

LEMMA UsersSame == TypeInv /\ UNCHANGED tables => KeptUsers
  BY LenProperties DEF KeptUsers, TypeInv, TypeOK, DatabaseTypeOK, tables, UserIds

LEMMA RoomsStand == UNCHANGED <<chats, members>> => rooms' = rooms
  BY DEF rooms, CompleteChats, ChatMembers

----------------------------------------------------------------------------
(* Steps that the service does not see *)

\* A statement after which the handler goes on, and that completes no write.
LEMMA Invisible ==
    ASSUME RequestInv, RequestInv', KeptUsers, NEW s \in Sessions,
           \A t \in Sessions \ {s} : Stands(t),
           effect[s] = 0, effect'[s] = 0,
           req'[s] = req[s], client_info'[s] = client_info[s],
           UNCHANGED <<users, messages, out>>, rooms' = rooms
    PROVE  UNCHANGED Service!vars
<1>1. call' = [call EXCEPT ![s].effect = 0]
  BY CallStep
<1>2. call = [t \in Sessions |-> call[t]] /\ call[s] = [call[s] EXCEPT !.effect = 0]
  BY DEF call
<1>3. call' = call
  BY <1>1, <1>2
<1>4. QED
  BY <1>3 DEF Service!vars

----------------------------------------------------------------------------
(* Answers *)

\* The handler ends with an answer that is an error, or reports rows.
Ends(s) ==
    /\ pc[s] \notin {"recv", "respond"}
    /\ UNCHANGED <<tables, req, row>>
    /\ req[s].type \in Anonymous \/ client_info'[s] = client_info[s]
    /\ \A t \in Sessions \ {s} : Stands(t)

LEMMA EndsCall ==
    ASSUME RequestInv, RequestInv', NEW s \in Sessions, Ends(s), pc'[s] = "respond"
    PROVE  /\ call' = [call EXCEPT ![s].effect = 0]
           /\ Service!Pending(s)
           /\ UNCHANGED <<users, rooms, messages>>
<1>1. TypeInv /\ req'[s] = req[s] /\ UNCHANGED tables
  BY DEF RequestInv, SafetyInv, IdentityInv, Ends
<1>2. KeptUsers
  BY <1>1, UsersSame
<1>3. effect'[s] = 0
  BY DEF effect
<1>4. call' = [call EXCEPT ![s].effect = 0]
  BY <1>1, <1>2, <1>3, CallStep DEF Ends
<1>5. req[s].type \in HandledTypes /\ out[s] = NoResponse
  BY <1>1, Handled DEF RequestInv, Handles, Ends, TypesAt, TypeInv, TypeOK, Labels
<1>6. Service!Pending(s)
  BY <1>5, Handled, CallFields DEF Service!Pending, Service!NoAnswer, NoResponse, Response
<1>7. QED
  BY <1>1, <1>4, <1>6, RoomsStand DEF tables

LEMMA Refuses ==
    ASSUME RequestInv, RequestInv', NEW s \in Sessions, Ends(s), RespondFailure(s)
    PROVE  Service!Refuse(s)
<1>1. pc'[s] = "respond"
  BY Answering DEF RequestInv, SafetyInv, IdentityInv
<1>2. out' = [out EXCEPT ![s] =
                 [status |-> IF call[s].req.type = "LOGIN"
                             THEN "ERROR_INVALID_CREDENTIALS" ELSE "ERROR_DB",
                  data |-> {}]]
  BY CallFields DEF RespondFailure, Respond, Response
<1>3. QED
  BY <1>1, <1>2, EndsCall DEF Service!Refuse, Service!Answer

LEMMA Succeeds ==
    ASSUME RequestInv, RequestInv', NEW s \in Sessions, Ends(s),
           NEW rows, rows # {}, Respond(s, "SUCCESS", rows), rows = Service!Success(s)
    PROVE  Service!Succeed(s)
<1>1. pc'[s] = "respond"
  BY Answering DEF RequestInv, SafetyInv, IdentityInv
<1>2. out' = [out EXCEPT ![s] = [status |-> "SUCCESS", data |-> Service!Success(s)]]
  BY DEF Respond, Response
<1>3. QED
  BY <1>1, <1>2, EndsCall DEF Service!Succeed, Service!Answer

LEMMA Reports ==
    ASSUME RequestInv, RequestInv', NEW s \in Sessions, Ends(s),
           NEW rows, RespondRows(s, rows), rows = Service!Success(s)
    PROVE  Service!Succeed(s) \/ Service!Refuse(s)
  BY Refuses, Succeeds DEF RespondRows

----------------------------------------------------------------------------
(* What SUCCESS reports, by the type of the request *)

LEMMA SuccessOf ==
    ASSUME NEW s \in Sessions
    PROVE  /\ req[s].type = "LOGIN" => Service!Success(s) =
                 {UserOut(i) : i \in {j \in Service!UsersNamed(req[s].username) :
                                     users[j].password = Sha256[req[s].password]}}
           /\ req[s].type \in {"REGISTER", "UPDATE_USER"} => Service!Success(s) =
                 {UserOut(i) : i \in UserIds \cap {effect[s]}}
           /\ req[s].type = "GET_USERS_FOR_SEARCH" => Service!Success(s) =
                 {UserOut(i) : i \in {j \in UserIds \ {client_info[s].id} :
                     \A r \in Service!RoomsOf(client_info[s].id) : j \notin r.pair}}
           /\ req[s].type = "ADD_CHAT" => Service!Success(s) =
                 UNION {Service!RoomOut(r, client_info[s].id) :
                          r \in {q \in Service!RoomsOf(client_info[s].id) : q.id = effect[s]}}
           /\ req[s].type = "GET_CHATS" => Service!Success(s) =
                 UNION {Service!RoomOut(r, client_info[s].id) :
                          r \in Service!RoomsOf(client_info[s].id)}
           /\ req[s].type = "GET_MESSAGES" => Service!Success(s) =
                 {MessageOut(m) : m \in {i \in MessageIds :
                                           messages[i].chat_id = req[s].chat_id}}
           /\ req[s].type \in {"ADD_MESSAGE", "UPDATE_MESSAGE", "DELETE_MESSAGE"} =>
                 Service!Success(s) = {MessageOut(m) : m \in MessageIds \cap {effect[s]}}
<1>1. call[s].req = req[s] /\ call[s].effect = effect[s]
  BY CallFields
<1>2. req[s].type \in {"GET_USERS_FOR_SEARCH", "ADD_CHAT", "GET_CHATS"} =>
         call[s].who = client_info[s].id
  BY CallFields DEF Anonymous
<1>3. \A i : Service!UserOut(i) = UserOut(i)
  BY DEF Service!UserOut, UserOut
<1>4. \A m : Service!MessageOut(m) = MessageOut(m)
  BY DEF Service!MessageOut, Service!NameOf, MessageOut, database_fetch_username, UserIds
<1>5. QED
  BY <1>1, <1>2, <1>3, <1>4 DEF Service!Success, UserIds, MessageIds

\* A member of a chat has it among his rooms when somebody else is in it, and then
\* under the same titles.
LEMMA RoomsAndChats ==
    ASSUME DatabaseTypeOK, NEW id
    PROVE  /\ \A c \in UserChats(id) : \A x \in ChatOut(c, id) :
                 \E r \in Service!RoomsOf(id) : r.id = c /\ x \in Service!RoomOut(r, id)
           /\ \A r \in Service!RoomsOf(id) : \A x \in Service!RoomOut(r, id) :
                 r.id \in UserChats(id) /\ x \in ChatOut(r.id, id)
           /\ \A v : v # id =>
                 (ChatExists(id, v) <=> \E r \in Service!RoomsOf(id) : v \in r.pair)
<1>1. \A c, v : v \in ChatMembers(c) <=> <<c, v>> \in members
  <2>1. \A p \in members : p = <<p[1], p[2]>>
    BY DEF DatabaseTypeOK
  <2>2. QED
    BY <2>1 DEF ChatMembers
<1>2. \A r : r \in Service!RoomsOf(id) <=>
                \E c \in CompleteChats : /\ r = [id |-> c, pair |-> ChatMembers(c)]
                                         /\ id \in ChatMembers(c)
  BY DEF Service!RoomsOf, rooms
<1>3. \A c, v : c \in UserChats(id) /\ <<c, v>> \in members /\ v # id =>
         /\ c \in CompleteChats
         /\ [id |-> c, pair |-> ChatMembers(c)] \in Service!RoomsOf(id)
  BY <1>1, <1>2 DEF UserChats, CompleteChats
<1>4. \A c \in CompleteChats : id \in ChatMembers(c) => c \in UserChats(id)
  BY <1>1 DEF UserChats, CompleteChats
<1>5. \A c, x : x \in ChatOut(c, id) <=>
         x \in Service!RoomOut([id |-> c, pair |-> ChatMembers(c)], id)
  BY <1>1 DEF ChatOut, TitleUsers, Service!RoomOut, UserIds
<1>6. ASSUME NEW c \in UserChats(id), NEW x \in ChatOut(c, id)
      PROVE  \E r \in Service!RoomsOf(id) : r.id = c /\ x \in Service!RoomOut(r, id)
  <2>1. PICK v : v # id /\ <<c, v>> \in members
    BY <1>6 DEF ChatOut, TitleUsers
  <2>2. QED
    BY <1>3, <1>5, <2>1
<1>7. ASSUME NEW r \in Service!RoomsOf(id), NEW x \in Service!RoomOut(r, id)
      PROVE  r.id \in UserChats(id) /\ x \in ChatOut(r.id, id)
  BY <1>2, <1>4, <1>5, <1>7
<1>8. ASSUME NEW v, v # id
      PROVE  ChatExists(id, v) <=> \E r \in Service!RoomsOf(id) : v \in r.pair
  <2>1. ASSUME NEW c \in UserChats(id), <<c, v>> \in members
        PROVE  \E r \in Service!RoomsOf(id) : v \in r.pair
    <3>1. PICK r \in Service!RoomsOf(id) : r = [id |-> c, pair |-> ChatMembers(c)]
      BY <1>3, <1>8, <2>1
    <3>2. r.pair = ChatMembers(c)
      BY <3>1
    <3>3. QED
      BY <1>1, <2>1, <3>2
  <2>2. ASSUME NEW r \in Service!RoomsOf(id), v \in r.pair
        PROVE  \E c \in UserChats(id) : <<c, v>> \in members
    BY <1>1, <1>2, <1>4, <2>2
  <2>3. QED
    BY <2>1, <2>2 DEF ChatExists
<1>9. QED
  BY <1>6, <1>7, <1>8

----------------------------------------------------------------------------
(* The actions of the threads *)

\* A step of thread s alone.
Alone(s) ==
    /\ RequestInv /\ RequestInv' /\ KeptUsers
    /\ \A t \in Sessions \ {s} : Stands(t)

LEMMA TypeOf ==
    ASSUME RequestInv, NEW s \in Sessions
    PROVE  TypeInv /\ UsernamesUnique /\ Tracks(s) /\ Handles(s)
           /\ (pc[s] # "recv" => req[s].type \in TypesAt(pc[s]))
  BY DEF RequestInv, SafetyInv, IdentityInv, SessionNamesItsUser, Handles

\* What a step that completes a write shows of the call it belongs to.
LEMMA EffectShown ==
    ASSUME NEW s \in Sessions, Alone(s), NEW type, req[s].type = type,
           effect[s] = 0, out[s] = NoResponse,
           UNCHANGED <<client_info, req, out>>, NEW e, effect'[s] = e
    PROVE  Service!Effect(s, type, e)
<1>1. call' = [call EXCEPT ![s].effect = e]
  BY CallStep DEF Alone
<1>2. QED
  BY <1>1, CallFields DEF Service!Effect, Service!NoAnswer, NoResponse, Response

LEMMA AddUserRefines ==
    ASSUME NEW s \in Sessions, Alone(s), AddUser(s)
    PROVE  Service!Next
<1>1. TypeInv /\ req[s].type = "REGISTER" /\ out[s] = NoResponse /\ effect[s] = 0
  BY TypeOf DEF Alone, AddUser, TypesAt, Handles, effect
<1>2. CASE RespondFailure(s) /\ UNCHANGED tables
  <2>1. Ends(s)
    BY <1>1, <1>2 DEF Ends, AddUser, Alone, Anonymous
  <2>2. QED
    BY <1>2, <2>1, Refuses DEF Alone, Service!Next
<1>3. CASE /\ database_add_user(req[s].username, encrypt_password(req[s].password))
           /\ Goto(s, "fetch_new_user") /\ UNCHANGED out
  <2>1. req[s].username \in Usernames /\ encrypt_password(req[s].password) \in Digests
    BY <1>1, ServerAssumption DEF AddUser, TypeInv, Fits, encrypt_password
  <2>2. /\ Len(users) + 1 \in UserIds'
        /\ users'[Len(users) + 1].username = req[s].username
    BY <1>1, <1>3, <2>1, AddedUserType DEF TypeInv, TypeOK
  <2>3. pc'[s] = "fetch_new_user" /\ UNCHANGED <<client_info, req>>
    BY <1>1, <1>3, Going DEF AddUser, Labels
  <2>4. effect'[s] = Len(users) + 1
    <3>1. UsernamesUnique'
      BY DEF Alone, RequestInv, SafetyInv, IdentityInv, SessionNamesItsUser
    <3>2. \A j \in UserIds' : users'[j].username = req'[s].username => j = Len(users) + 1
      BY <2>2, <2>3, <3>1 DEF UsernamesUnique
    <3>3. new_user'[s] = (CHOOSE j \in UserIds' : users'[j].username = req'[s].username)
      BY Zenon DEF new_user
    <3>4. users'[Len(users) + 1].username = req'[s].username
      BY <2>2, <2>3
    <3>5. new_user'[s] = Len(users) + 1
      BY <2>2, <3>2, <3>3, <3>4, ChosenUser, Zenon
    <3>6. QED
      BY <2>3, <3>5 DEF effect
  <2>5. Service!Effect(s, "REGISTER", Len(users) + 1)
    BY <1>1, <1>3, <2>3, <2>4, EffectShown
  <2>6. rooms' = rooms /\ UNCHANGED messages
    BY <1>3, RoomsStand DEF database_add_user
  <2>7. Service!Register(s)
    BY <1>3, <2>5, <2>6, CallFields
    DEF Service!Register, Service!UsersNamed, database_add_user,
        database_fetch_user_data, UserIds, encrypt_password
  <2>8. QED
    BY <2>7 DEF Service!Next
<1>4. QED
  BY <1>2, <1>3 DEF AddUser

LEMMA FetchNewUserRefines ==
    ASSUME NEW s \in Sessions, Alone(s), FetchNewUser(s)
    PROVE  Service!Next
<1>1. req[s].type = "REGISTER" /\ Ends(s)
  BY TypeOf DEF Alone, FetchNewUser, TypesAt, Ends, Anonymous
<1>2. PICK i \in database_fetch_user_data(req[s].username) :
         Respond(s, "SUCCESS", {UserOut(i)})
  BY DEF FetchNewUser
<1>3. effect[s] = i /\ i \in UserIds
  BY <1>2, NewUserEffect DEF Alone, FetchNewUser
<1>4. Service!Success(s) = {UserOut(i)}
  BY <1>1, <1>3, SuccessOf
<1>5. QED
  BY <1>1, <1>2, <1>4, Succeeds DEF Alone, Service!Next

LEMMA FetchUserRefines ==
    ASSUME NEW s \in Sessions, Alone(s), FetchUser(s)
    PROVE  Service!Next
<1>1. req[s].type = "LOGIN" /\ Ends(s) /\ UsernamesUnique
  BY TypeOf DEF Alone, FetchUser, TypesAt, Ends, Anonymous
<1>2. CASE RespondFailure(s)
  BY <1>1, <1>2, Refuses DEF Alone, Service!Next
<1>3. ASSUME NEW i \in database_fetch_user_data(req[s].username),
             users[i].password = encrypt_password(req[s].password),
             Respond(s, "SUCCESS", {UserOut(i)})
      PROVE  Service!Next
  <2>1. {j \in Service!UsersNamed(req[s].username) :
            users[j].password = Sha256[req[s].password]} = {i}
    BY <1>1, <1>3 DEF Service!UsersNamed, UsernamesUnique, UserIds,
                      database_fetch_user_data, encrypt_password
  <2>2. Service!Success(s) = {UserOut(i)}
    BY <1>1, <2>1, SuccessOf
  <2>3. QED
    BY <1>1, <1>3, <2>2, Succeeds DEF Alone, Service!Next
<1>4. QED
  BY <1>2, <1>3 DEF FetchUser

LEMMA UpdateUserRefines ==
    ASSUME NEW s \in Sessions, Alone(s), UpdateUser(s)
    PROVE  Service!Next
<1>1. /\ TypeInv /\ req[s].type = "UPDATE_USER" /\ out[s] = NoResponse /\ effect[s] = 0
      /\ UNCHANGED <<client_info, req, out>>
  BY TypeOf DEF Alone, UpdateUser, TypesAt, Handles, effect
<1>2. pc'[s] = "fetch_updated_user"
  BY <1>1, Going DEF UpdateUser, Labels
<1>3. Service!Effect(s, "UPDATE_USER", client_info[s].id)
  BY <1>1, <1>2, EffectShown DEF effect
<1>4. call[s].who = client_info[s].id /\ call[s].req = req[s]
  BY <1>1, CallFields DEF Anonymous
<1>5. rooms' = rooms /\ UNCHANGED messages
  BY RoomsStand DEF UpdateUser, database_update_user
<1>6. Service!ChangePassword(s)
  BY <1>3, <1>4, <1>5
  DEF Service!ChangePassword, UpdateUser, database_update_user, UserIds, encrypt_password
<1>7. QED
  BY <1>6 DEF Service!Next

\* The steps that read and then answer, for a request that is not anonymous.
LEMMA QueryRefines ==
    ASSUME NEW s \in Sessions, Alone(s), pc[s] \notin {"recv", "respond"},
           UNCHANGED <<tables, client_info, req, row>>,
           NEW rows, RespondRows(s, rows), rows = Service!Success(s)
    PROVE  Service!Next
<1>1. Ends(s)
  BY DEF Ends, Alone
<1>2. QED
  BY <1>1, Reports DEF Alone, Service!Next

LEMMA FetchUpdatedUserRefines ==
    ASSUME NEW s \in Sessions, Alone(s), FetchUpdatedUser(s)
    PROVE  Service!Next
<1> DEFINE rows == {UserOut(i) : i \in database_fetch_user_data(client_info[s].username)}
<1>1. /\ TypeInv /\ req[s].type = "UPDATE_USER" /\ effect[s] = client_info[s].id
      /\ pc[s] = "fetch_updated_user" /\ SessionNamesItsUser
  BY TypeOf DEF Alone, FetchUpdatedUser, TypesAt, effect, RequestInv, SafetyInv, IdentityInv
<1>2. Service!Success(s) = {UserOut(i) : i \in UserIds \cap {client_info[s].id}}
  BY <1>1, SuccessOf
<1>3. CASE client_info[s].username = Garbage
  <2>1. \A i \in UserIds : users[i].username \in Usernames
    <3>1. users \in Seq(UserRow)
      BY <1>1 DEF TypeInv, TypeOK, DatabaseTypeOK
    <3>2. \A i \in DOMAIN users : users[i] \in UserRow
      BY <3>1, LenProperties, ElementOfSeq
    <3>3. QED
      BY <3>2 DEF UserIds, UserRow
  <2>2. database_fetch_user_data(client_info[s].username) = {}
    BY <1>3, <2>1, ServerAssumption DEF database_fetch_user_data
  <2>3. RespondFailure(s) /\ Ends(s)
    BY <1>1, <2>2 DEF FetchUpdatedUser, RespondRows, Ends, Alone
  <2>4. QED
    BY <2>3, Refuses DEF Alone, Service!Next
<1>4. CASE client_info[s].username # Garbage
  <2>1. /\ client_info[s].id \in UserIds
        /\ database_fetch_user_data(client_info[s].username) = {client_info[s].id}
    BY <1>1, <1>4
    DEF SessionNamesItsUser, UsernamesUnique, database_fetch_user_data
  <2>2. rows = Service!Success(s)
    BY <1>2, <2>1
  <2>3. RespondRows(s, rows) /\ UNCHANGED <<tables, client_info, req, row>>
    BY DEF FetchUpdatedUser
  <2>4. QED
    BY <1>1, <2>2, <2>3, QueryRefines
<1>5. QED
  BY <1>3, <1>4

LEMMA FetchUserListRefines ==
    ASSUME NEW s \in Sessions, Alone(s), FetchUserList(s)
    PROVE  Service!Next
<1> DEFINE id == client_info[s].id
<1>1. /\ DatabaseTypeOK /\ req[s].type = "GET_USERS_FOR_SEARCH"
      /\ pc[s] = "fetch_user_list"
  BY TypeOf DEF Alone, FetchUserList, TypesAt, TypeInv, TypeOK
<1>2. {w \in UserIds : w # id /\ ~ChatExists(id, w)}
        = {j \in UserIds \ {id} : \A r \in Service!RoomsOf(id) : j \notin r.pair}
  <2>1. \A v : v # id => (ChatExists(id, v) <=> \E r \in Service!RoomsOf(id) : v \in r.pair)
    BY <1>1, RoomsAndChats
  <2>2. QED
    BY <2>1
<1>3. database_fetch_user_list(id) = Service!Success(s)
  BY <1>1, <1>2, SuccessOf DEF database_fetch_user_list
<1>4. RespondRows(s, database_fetch_user_list(id)) /\ UNCHANGED <<tables, client_info, req, row>>
  BY DEF FetchUserList
<1>5. QED
  BY <1>1, <1>3, <1>4, QueryRefines

\* What the statements before the last INSERT of a chat leave to the service.
LEMMA ChatStepRefines ==
    ASSUME NEW s \in Sessions, Alone(s), rooms' = rooms,
           UNCHANGED <<users, messages, client_info, req, out>>,
           pc[s] \in {"fetch_username", "check_chat", "insert_chat", "insert_current_user"},
           pc'[s] \in {"check_chat", "insert_chat", "insert_current_user",
                      "insert_invitee_user"}
    PROVE  UNCHANGED Service!vars
<1>1. effect[s] = 0 /\ effect'[s] = 0
  BY DEF effect
<1>2. QED
  BY <1>1, Invisible DEF Alone

LEMMA ChatQueriesRefine ==
    ASSUME NEW s \in Sessions, Alone(s),
           FetchUsername(s) \/ CheckChat(s) \/ CheckChatUnread(s)
    PROVE  Service!Next \/ UNCHANGED Service!vars
<1>1. UNCHANGED tables /\ UNCHANGED <<client_info, req, row>> /\ TypeInv
      /\ pc[s] \in {"fetch_username", "check_chat"}
  BY TypeOf DEF Alone, FetchUsername, CheckChat, CheckChatUnread
<1>2. CASE RespondFailure(s)
  <2>1. Ends(s)
    BY <1>1 DEF Ends, Alone
  <2>2. QED
    BY <1>2, <2>1, Refuses DEF Alone, Service!Next
<1>3. CASE UNCHANGED out /\ (Goto(s, "check_chat") \/ Goto(s, "insert_chat"))
  <2>1. pc'[s] \in {"check_chat", "insert_chat"}
    BY <1>1, <1>3, Going DEF Labels
  <2>2. rooms' = rooms
    BY <1>1, RoomsStand DEF tables
  <2>3. QED
    BY <1>1, <1>3, <2>1, <2>2, ChatStepRefines DEF tables
<1>4. QED
  BY <1>2, <1>3 DEF FetchUsername, CheckChat, CheckChatUnread

LEMMA InsertChatRowRefines ==
    ASSUME NEW s \in Sessions, Alone(s), InsertChatRow(s)
    PROVE  UNCHANGED Service!vars
<1>1. TypeInv /\ chats \in Nat /\ chats' = chats + 1
      /\ UNCHANGED <<users, members, messages, client_info, req, out>>
  BY TypeOf DEF Alone, InsertChatRow, InsertChat, TypeInv, TypeOK, DatabaseTypeOK
<1>2. \A c : ChatMembers(c)' = ChatMembers(c)
  BY <1>1 DEF ChatMembers
<1>3. ChatMembers(chats + 1) = {}
  BY <1>1 DEF ChatMembers, TypeInv, TypeOK, DatabaseTypeOK
<1>4. CompleteChats' = CompleteChats
  BY <1>1, <1>2, <1>3 DEF CompleteChats
<1>5. rooms' = rooms
  BY <1>2, <1>4 DEF rooms
<1>6. pc[s] = "insert_chat" /\ pc'[s] = "insert_current_user"
  BY <1>1, Going DEF InsertChatRow, Labels
<1>7. QED
  BY <1>1, <1>5, <1>6, ChatStepRefines

\* The chat that a thread fills is no room before its second member is in it.
LEMMA FilledChat ==
    ASSUME NEW s \in Sessions, Alone(s), BuildsChat(s),
           NEW id, InsertMember(row[s], id), row'[s] = row[s]
    PROVE  /\ row[s] \in 1..chats /\ ChatMembers(row[s]) = BuiltSoFar(s)
           /\ chats' = chats
           /\ ChatMembers(row[s])' = BuiltSoFar(s) \cup {id} /\ id \notin BuiltSoFar(s)
           /\ \A c : c # row[s] => ChatMembers(c)' = ChatMembers(c)
<1>1. /\ row[s] \in 1..chats /\ ChatMembers(row[s]) = BuiltSoFar(s)
      /\ DatabaseTypeOK
  BY TypeOf DEF Alone, RequestInv, SafetyInv, ChatsKeepToTheirPair, TypeInv, TypeOK
<1>2. PICK c : c = row[s]
  OBVIOUS
<1>3. c = row'[s] /\ InsertMember(c, id)
  BY <1>2
<1>4. /\ ChatMembers(c)' = ChatMembers(c) \cup {id}
      /\ id \notin ChatMembers(c)
      /\ \A d : d # c => ChatMembers(d)' = ChatMembers(d)
  BY <1>1, <1>3, InsertedMember
<1>5. QED
  BY <1>1, <1>2, <1>3, <1>4 DEF InsertMember

LEMMA InsertCurrentUserRefines ==
    ASSUME NEW s \in Sessions, Alone(s), InsertCurrentUser(s)
    PROVE  UNCHANGED Service!vars
<1>1. /\ TypeInv /\ UNCHANGED <<users, messages, client_info, req, row, out>>
      /\ pc[s] = "insert_current_user" /\ BuildsChat(s) /\ BuiltSoFar(s) = {}
  BY TypeOf DEF Alone, InsertCurrentUser, InsertMember, BuildsChat, BuiltSoFar
<1>2. PICK id : id = client_info[s].id
  OBVIOUS
<1>3. InsertMember(row[s], id)
  BY <1>2 DEF InsertCurrentUser
<1>4. /\ row[s] \in 1..chats /\ ChatMembers(row[s]) = {} /\ chats' = chats
      /\ ChatMembers(row[s])' = {id}
      /\ \A c : c # row[s] => ChatMembers(c)' = ChatMembers(c)
  BY <1>1, <1>3, FilledChat
<1>5. CompleteChats' = CompleteChats /\ row[s] \notin CompleteChats
  BY <1>1, <1>4 DEF CompleteChats
<1>6. \A c \in CompleteChats : ChatMembers(c)' = ChatMembers(c)
  BY <1>4, <1>5
<1>7. rooms' = rooms
  BY <1>5, <1>6 DEF rooms
<1>8. pc'[s] = "insert_invitee_user"
  BY <1>1, Going DEF InsertCurrentUser, Labels
<1>9. QED
  BY <1>1, <1>7, <1>8, ChatStepRefines

LEMMA InsertInviteeUserRefines ==
    ASSUME NEW s \in Sessions, Alone(s), InsertInviteeUser(s)
    PROVE  Service!Next
<1> DEFINE invitee == req[s].invitee_user_id
<1>1. /\ TypeInv /\ req[s].type = "ADD_CHAT" /\ out[s] = NoResponse /\ effect[s] = 0
      /\ UNCHANGED <<client_info, req, row>> /\ invitee \in UserIds
      /\ pc[s] = "insert_invitee_user" /\ BuildsChat(s) /\ BuiltSoFar(s) = {client_info[s].id}
  BY TypeOf DEF Alone, InsertInviteeUser, TypesAt, Handles, Tracks, effect, BuildsChat,
                BuiltSoFar
<1>2. CASE RespondFailure(s) /\ UNCHANGED tables
  <2>1. Ends(s)
    BY <1>1, <1>2 DEF Ends, Alone
  <2>2. QED
    BY <1>2, <2>1, Refuses DEF Alone, Service!Next
<1>3. CASE InsertMember(row[s], invitee) /\ Goto(s, "fetch_chat") /\ UNCHANGED out
  <2>1. PICK id : id = invitee
    OBVIOUS
  <2>2. InsertMember(row[s], id) /\ row'[s] = row[s]
    BY <1>1, <1>3, <2>1
  <2>3. /\ row[s] \in 1..chats /\ ChatMembers(row[s]) = {client_info[s].id}
        /\ chats' = chats
        /\ ChatMembers(row[s])' = {client_info[s].id, id} /\ id # client_info[s].id
        /\ \A c : c # row[s] => ChatMembers(c)' = ChatMembers(c)
    BY <1>1, <2>2, FilledChat
  <2>4. row[s] \notin CompleteChats /\ CompleteChats' = CompleteChats \cup {row[s]}
    <3>1. row[s] \notin CompleteChats
      BY <2>3 DEF CompleteChats
    <3>2. row[s] \in CompleteChats'
      BY <1>1, <2>3 DEF CompleteChats
    <3>3. \A c : c # row[s] => (c \in CompleteChats' <=> c \in CompleteChats)
      BY <2>3 DEF CompleteChats
    <3>4. QED
      BY <3>1, <3>2, <3>3
  <2>5. \A r \in rooms : r.id # row[s]
    BY <2>4 DEF rooms
  <2>6. rooms' = rooms \cup {[id |-> row[s], pair |-> {client_info[s].id, id}]}
    <3>1. \A c \in CompleteChats : ChatMembers(c)' = ChatMembers(c)
      BY <2>3, <2>4
    <3>2. QED
      BY <1>1, <2>3, <2>4, <3>1 DEF rooms
  <2>7. pc'[s] = "fetch_chat"
    BY <1>1, <1>3, Going DEF Labels
  <2>8. effect'[s] = row[s]
    BY <1>1, <2>7 DEF effect
  <2>9. Service!Effect(s, "ADD_CHAT", row[s])
    BY <1>1, <1>3, <2>8, EffectShown
  <2>10. call[s].who = client_info[s].id /\ call[s].req = req[s] /\ call'[s].effect = row[s]
    BY <1>1, <2>8, CallFields DEF Anonymous, call
  <2>11. UNCHANGED <<users, messages>>
    BY <1>3 DEF InsertMember
  <2>12. Service!OpenRoom(s)
    BY <1>1, <2>1, <2>3, <2>5, <2>6, <2>9, <2>10, <2>11 DEF Service!OpenRoom, UserIds
  <2>13. QED
    BY <2>12 DEF Service!Next
<1>4. QED
  BY <1>2, <1>3 DEF InsertInviteeUser

LEMMA FetchChatsRefines ==
    ASSUME NEW s \in Sessions, Alone(s), FetchChat(s) \/ FetchUserChats(s)
    PROVE  Service!Next
<1> DEFINE id == client_info[s].id
<1>1. /\ DatabaseTypeOK /\ pc[s] \notin {"recv", "respond"}
      /\ UNCHANGED <<tables, client_info, req, row>>
  BY TypeOf DEF Alone, FetchChat, FetchUserChats, TypeInv, TypeOK
<1>2. /\ \A c \in UserChats(id) : \A x \in ChatOut(c, id) :
            \E r \in Service!RoomsOf(id) : r.id = c /\ x \in Service!RoomOut(r, id)
      /\ \A r \in Service!RoomsOf(id) : \A x \in Service!RoomOut(r, id) :
            r.id \in UserChats(id) /\ x \in ChatOut(r.id, id)
  BY <1>1, RoomsAndChats
<1>3. CASE FetchChat(s)
  <2>1. req[s].type = "ADD_CHAT" /\ effect[s] = row[s]
    BY <1>3, TypeOf DEF Alone, FetchChat, TypesAt, effect
  <2>2. UNION {ChatOut(c, id) : c \in UserChats(id) \cap {row[s]}}
          = UNION {Service!RoomOut(r, id) : r \in {q \in Service!RoomsOf(id) : q.id = row[s]}}
    BY <1>2
  <2>3. UNION {ChatOut(c, id) : c \in UserChats(id) \cap {row[s]}} = Service!Success(s)
    BY <2>1, <2>2, SuccessOf
  <2>4. RespondRows(s, UNION {ChatOut(c, id) : c \in UserChats(id) \cap {row[s]}})
    BY <1>3 DEF FetchChat
  <2>5. QED
    BY <1>1, <2>3, <2>4, QueryRefines
<1>4. CASE FetchUserChats(s)
  <2>1. req[s].type = "GET_CHATS"
    BY <1>4, TypeOf DEF Alone, FetchUserChats, TypesAt
  <2>2. UNION {ChatOut(c, id) : c \in UserChats(id)}
          = UNION {Service!RoomOut(r, id) : r \in Service!RoomsOf(id)}
    BY <1>2
  <2>3. database_fetch_user_chats(id) = Service!Success(s)
    BY <2>1, <2>2, SuccessOf DEF database_fetch_user_chats
  <2>4. RespondRows(s, database_fetch_user_chats(id))
    BY <1>4 DEF FetchUserChats
  <2>5. QED
    BY <1>1, <2>3, <2>4, QueryRefines
<1>5. QED
  BY <1>3, <1>4

LEMMA FetchMessagesRefines ==
    ASSUME NEW s \in Sessions, Alone(s), FetchChatMessages(s) \/ FetchMessage(s)
    PROVE  Service!Next
<1>1. /\ pc[s] \notin {"recv", "respond"} /\ UNCHANGED <<tables, client_info, req, row>>
  BY DEF FetchChatMessages, FetchMessage
<1>2. CASE FetchChatMessages(s)
  <2>1. req[s].type = "GET_MESSAGES"
    BY <1>2, TypeOf DEF Alone, FetchChatMessages, TypesAt
  <2>2. database_fetch_chat_messages(req[s].chat_id) = Service!Success(s)
    BY <2>1, SuccessOf DEF database_fetch_chat_messages, ChatMessages
  <2>3. RespondRows(s, database_fetch_chat_messages(req[s].chat_id))
    BY <1>2 DEF FetchChatMessages
  <2>4. QED
    BY <1>1, <2>2, <2>3, QueryRefines
<1>3. CASE FetchMessage(s)
  <2>1. /\ req[s].type \in {"ADD_MESSAGE", "UPDATE_MESSAGE", "DELETE_MESSAGE"}
        /\ effect[s] = row[s]
    BY <1>3, TypeOf DEF Alone, FetchMessage, TypesAt, effect
  <2>2. {MessageOut(m) : m \in MessageIds \cap {row[s]}} = Service!Success(s)
    BY <2>1, SuccessOf
  <2>3. RespondRows(s, {MessageOut(m) : m \in MessageIds \cap {row[s]}})
    BY <1>3 DEF FetchMessage
  <2>4. QED
    BY <1>1, <2>2, <2>3, QueryRefines
<1>4. QED
  BY <1>2, <1>3

LEMMA MessageWritesRefine ==
    ASSUME NEW s \in Sessions, Alone(s),
           InsertMessageRow(s) \/ UpdateMessageRow(s) \/ RemoveMessageRow(s)
    PROVE  Service!Next
<1>1. /\ TypeInv /\ out[s] = NoResponse /\ effect[s] = 0
      /\ UNCHANGED <<client_info, req, out>>
      /\ pc[s] \in {"insert_message", "update_message", "remove_message"}
      /\ req[s].type \in TypesAt(pc[s])
  BY TypeOf DEF Alone, InsertMessageRow, UpdateMessageRow, RemoveMessageRow, Handles, effect
<1>2. pc'[s] = "fetch_message"
  BY <1>1, Going DEF InsertMessageRow, UpdateMessageRow, RemoveMessageRow, Labels
<1>3. effect'[s] = row'[s]
  BY <1>2 DEF effect
<1>4. call[s].who = client_info[s].id /\ call[s].req = req[s]
  BY <1>1, CallFields DEF Anonymous, TypesAt
<1>5. rooms' = rooms /\ UNCHANGED users
  BY RoomsStand
  DEF InsertMessageRow, UpdateMessageRow, RemoveMessageRow, InsertMessage,
      UpdateMessage, RemoveMessage
<1>6. row \in [Sessions -> Nat]
  BY <1>1 DEF TypeInv, TypeOK
<1>7. CASE InsertMessageRow(s)
  <2>1. req[s].type = "ADD_MESSAGE" /\ row'[s] = Len(messages) + 1
    BY <1>1, <1>6, <1>7 DEF InsertMessageRow, TypesAt
  <2>2. Service!Effect(s, "ADD_MESSAGE", Len(messages) + 1)
    BY <1>1, <1>3, <2>1, EffectShown
  <2>3. Service!Post(s)
    BY <1>4, <1>5, <1>7, <2>2 DEF Service!Post, InsertMessageRow, InsertMessage
  <2>4. QED
    BY <2>3 DEF Service!Next
<1>8. CASE UpdateMessageRow(s)
  <2>1. req[s].type = "UPDATE_MESSAGE" /\ row'[s] = req[s].message_id
    BY <1>1, <1>6, <1>8 DEF UpdateMessageRow, TypesAt
  <2>2. Service!Effect(s, "UPDATE_MESSAGE", req[s].message_id)
    BY <1>1, <1>3, <2>1, EffectShown
  <2>3. Service!Edit(s)
    BY <1>4, <1>5, <1>8, <2>2
    DEF Service!Edit, UpdateMessageRow, UpdateMessage, MessageIds
  <2>4. QED
    BY <2>3 DEF Service!Next
<1>9. CASE RemoveMessageRow(s)
  <2>1. req[s].type = "DELETE_MESSAGE" /\ row'[s] = req[s].message_id
    BY <1>1, <1>6, <1>9 DEF RemoveMessageRow, TypesAt
  <2>2. Service!Effect(s, "DELETE_MESSAGE", req[s].message_id)
    BY <1>1, <1>3, <2>1, EffectShown
  <2>3. Service!Delete(s)
    BY <1>4, <1>5, <1>9, <2>2
    DEF Service!Delete, RemoveMessageRow, RemoveMessage, MessageIds
  <2>4. QED
    BY <2>3 DEF Service!Next
<1>10. QED
  BY <1>7, <1>8, <1>9

----------------------------------------------------------------------------
(* The beginning and the end of calls *)

LEMMA ReceiveRefines ==
    ASSUME NEW s \in Sessions, Alone(s), NEW r \in Requests, Receive(s, r)
    PROVE  Service!Next \/ UNCHANGED Service!vars
<1>1. /\ TypeInv /\ pc[s] = "recv" /\ req[s] = NoRequest /\ out[s] = NoResponse
      /\ UNCHANGED <<tables, client_info, row>>
      /\ out = [t \in Sessions |-> out[t]]
  BY TypeOf DEF Alone, Receive, Handles, RequestInv
<1>2. rooms' = rooms
  BY <1>1, RoomsStand DEF tables
<1>3. CASE r.type \in SilentTypes
  <2>1. UNCHANGED <<pc, req, out>>
    BY <1>3 DEF Receive
  <2>2. effect[s] = 0 /\ effect'[s] = 0
    BY <1>1, <2>1 DEF effect
  <2>3. QED
    BY <1>1, <1>2, <2>1, <2>2, Invisible DEF Alone, tables
<1>4. CASE r.type \notin SilentTypes
  <2>1. req'[s] = r /\ r.type \in HandledTypes
    BY <1>1, <1>4, ReceivedHandled DEF Receive, TypeInv, TypeOK
  <2>2. effect'[s] = 0 /\ \E a \in {NoResponse, Response("ERROR_JSON", {})} :
                             out' = [out EXCEPT ![s] = a]
    <3>1. CASE IsMalformed(r)
      BY <1>1, <1>4, <3>1 DEF Receive, Respond, Goto, effect, TypeInv, TypeOK
    <3>2. CASE ~IsMalformed(r)
      <4>1. pc'[s] = FirstStatement[r.type] /\ UNCHANGED out
        BY <1>1, <1>4, <3>2, Going, ReceivedFits DEF Receive
      <4>2. pc'[s] \notin {"fetch_new_user", "fetch_updated_user", "fetch_chat",
                          "fetch_message"}
        BY <1>4, <3>2, <4>1, ReceivedFits
      <4>3. QED
        BY <1>1, <4>1, <4>2 DEF effect
    <3>3. QED
      BY <3>1, <3>2
  <2>3. \A t \in Sessions \ {s} : call'[t] = call[t]
    BY CallStands DEF Alone
  <2>4. call'[s].req = r /\ call'[s].effect = 0 /\ call[s].req.type = "NONE"
    BY <1>1, <2>1, <2>2 DEF call, NoRequest
  <2>5. Service!Call(s)
    BY <1>1, <1>2, <2>1, <2>2, <2>3, <2>4, Handled
    DEF Service!Call, Service!NoAnswer, NoResponse, Response, tables
  <2>6. QED
    BY <2>5 DEF Service!Next
<1>5. QED
  BY <1>3, <1>4

LEMMA WriteResponseRefines ==
    ASSUME NEW s \in Sessions, Alone(s), WriteResponse(s)
    PROVE  Service!Next
<1>1. /\ TypeInv /\ UNCHANGED <<tables, client_info>>
      /\ out = [t \in Sessions |-> out[t]] /\ out' = [out EXCEPT ![s] = NoResponse]
  BY TypeOf DEF Alone, WriteResponse, RequestInv
<1>2. pc'[s] = "recv" /\ req'[s] = NoRequest
  BY <1>1, Going DEF WriteResponse, Labels, TypeInv, TypeOK
<1>3. call'[s] = Service!NoCall
  BY <1>2 DEF call, effect, Service!NoCall, NoRequest
<1>4. \A t \in Sessions \ {s} : call'[t] = call[t]
  BY CallStands DEF Alone
<1>5. call' = [t \in Sessions |-> IF t \in {s} THEN Service!NoCall ELSE call[t]]
  <2>1. call' = [t \in Sessions |-> call'[t]]
    BY DEF call
  <2>2. QED
    BY <1>3, <1>4, <2>1
<1>6. out' = [t \in Sessions |-> IF t \in {s} THEN Service!NoAnswer ELSE out[t]]
  BY <1>1 DEF Service!NoAnswer, NoResponse, Response
<1>7. rooms' = rooms /\ UNCHANGED <<users, messages>>
  BY <1>1, RoomsStand DEF tables
<1>8. Service!End
  BY <1>5, <1>6, <1>7 DEF Service!End
<1>9. QED
  BY <1>8 DEF Service!Next

LEMMA DieRefines ==
    ASSUME Die
    PROVE  Service!Next
<1>1. \A s \in Sessions : call'[s] = Service!NoCall
  BY DEF Die, call, effect, Service!NoCall, NoRequest
<1>2. call' = [s \in Sessions |-> IF s \in Sessions THEN Service!NoCall ELSE call[s]]
  <2>1. call' = [s \in Sessions |-> call'[s]]
    BY DEF call
  <2>2. QED
    BY <1>1, <2>1
<1>3. out' = [s \in Sessions |-> IF s \in Sessions THEN Service!NoAnswer ELSE out[s]]
  BY DEF Die, Service!NoAnswer, NoResponse, Response
<1>4. rooms' = rooms /\ UNCHANGED <<users, messages>>
  BY RoomsStand DEF Die, tables
<1>5. Service!End
  BY <1>2, <1>3, <1>4 DEF Service!End
<1>6. QED
  BY <1>5 DEF Service!Next

\* Connections come and go between calls, or under calls that go on.
LEMMA ConnectionRefines ==
    ASSUME RequestInv, RequestInv', NEW s \in Sessions, Connection(s)
    PROVE  UNCHANGED Service!vars
<1>1. /\ UNCHANGED <<tables, pc, req, row, out>>
      /\ \A t \in Sessions : req[t] = NoRequest \/ client_info'[t] = client_info[t]
  BY TypeOf DEF Connection, Connect, PeerCloses, ThreadExits, RequestInv, SafetyInv,
                IdentityInv, TypeInv, TypeOK, Tracks, Handles
<1>2. \A t \in Sessions : pc[t] = "recv" \/ client_info'[t] = client_info[t]
  BY TypeOf DEF Connection, Connect, PeerCloses, ThreadExits, RequestInv, SafetyInv,
                IdentityInv, TypeInv, TypeOK, Tracks
<1>3. KeptUsers
  BY <1>1, UsersSame DEF RequestInv, SafetyInv, IdentityInv
<1>4. ASSUME NEW t \in Sessions
      PROVE  effect'[t] = effect[t]
  <2>1. CASE pc[t] = "recv"
    BY <1>1, <2>1 DEF effect
  <2>2. CASE client_info'[t] = client_info[t]
    BY <1>1, <1>3, <2>2, EffectStands DEF Stands
  <2>3. QED
    BY <1>2, <2>1, <2>2
<1>5. call' = call
  BY <1>1, <1>4 DEF call, NoRequest
<1>6. rooms' = rooms
  BY <1>1, RoomsStand DEF tables
<1>7. QED
  BY <1>1, <1>5, <1>6 DEF Service!vars, tables

----------------------------------------------------------------------------
(* Every step of the server is one of the service, or none *)

\* A step within a handler.
LEMMA HandlerRefines ==
    ASSUME NEW s \in Sessions, Alone(s),
           DatabaseFails(s) \/ Auth(s) \/ Chat(s) \/ Message(s)
    PROVE  Service!Next \/ UNCHANGED Service!vars
<1>1. CASE DatabaseFails(s)
  <2>1. Ends(s) /\ RespondFailure(s)
    BY <1>1 DEF Ends, Alone, DatabaseFails
  <2>2. QED
    BY <2>1, Refuses DEF Alone, Service!Next
<1>2. CASE Auth(s)
  BY <1>2, AddUserRefines, FetchNewUserRefines, FetchUserRefines, UpdateUserRefines,
     FetchUpdatedUserRefines, FetchUserListRefines DEF Auth
<1>3. CASE Chat(s)
  BY <1>3, ChatQueriesRefine, InsertChatRowRefines, InsertCurrentUserRefines,
     InsertInviteeUserRefines, FetchChatsRefines DEF Chat
<1>4. CASE Message(s)
  BY <1>4, FetchMessagesRefines, MessageWritesRefine DEF Message
<1>5. QED
  BY <1>1, <1>2, <1>3, <1>4

LEMMA OthersStand ==
    ASSUME TypeInv, NEW s \in Sessions,
           \/ \E r \in Requests : Receive(s, r)
           \/ WriteResponse(s)
           \/ DatabaseFails(s) \/ Auth(s) \/ Chat(s) \/ Message(s)
    PROVE  \A t \in Sessions \ {s} : Stands(t)
<1> USE DEF TypeInv, TypeOK, Stands, Goto, Respond
<1>1. CASE (\E r \in Requests : Receive(s, r)) \/ WriteResponse(s)
  BY <1>1 DEF Receive, WriteResponse
<1>2. CASE DatabaseFails(s) \/ Auth(s) \/ Chat(s) \/ Message(s)
  <2>1. UNCHANGED req /\ \A t \in Sessions \ {s} : pc'[t] = pc[t]
    BY <1>2, HandlerSteps DEF HandlerStep
  <2>2. \A t \in Sessions \ {s} : row'[t] = row[t] /\ client_info'[t] = client_info[t]
    <3>1. CASE DatabaseFails(s) \/ Auth(s)
      BY <3>1 DEF DatabaseFails, Auth, AddUser, FetchNewUser, FetchUser, UpdateUser,
                  FetchUpdatedUser, FetchUserList, Identify
    <3>2. CASE Chat(s)
      BY <3>2 DEF Chat, FetchUsername, CheckChat, CheckChatUnread, InsertChatRow,
                  InsertCurrentUser, InsertInviteeUser, FetchChat, FetchUserChats
    <3>3. CASE Message(s)
      BY <3>3 DEF Message, FetchChatMessages, InsertMessageRow, UpdateMessageRow,
                  RemoveMessageRow, FetchMessage
    <3>4. QED
      BY <1>2, <3>1, <3>2, <3>3
  <2>3. QED
    BY <2>1, <2>2
<1>3. QED
  BY <1>1, <1>2

LEMMA StepImplements ==
    ASSUME RequestInv, RequestInv', [Next]_vars
    PROVE  [Service!Next]_(Service!vars)
<1>1. TypeInv /\ \A s \in Sessions : conn[s] = "closed" => pc[s] = "recv"
  BY DEF RequestInv, SafetyInv, IdentityInv, Tracks
<1>2. KeptUsers
  BY <1>1, TablesKept
<1>3. CASE UNCHANGED vars
  <2>1. UNCHANGED <<tables, client_info, pc, req, row, out>>
    BY <1>3 DEF vars, session
  <2>2. \A t \in Sessions : call'[t] = call[t]
    BY <1>2, <2>1, CallStands DEF Stands
  <2>3. call' = call
    <3>1. call = [t \in Sessions |-> call[t]] /\ call' = [t \in Sessions |-> call'[t]]
      BY DEF call
    <3>2. QED
      BY <2>2, <3>1
  <2>4. QED
    BY <2>1, <2>3, RoomsStand DEF Service!vars, tables
<1>4. CASE Die
  BY <1>4, DieRefines
<1>5. ASSUME NEW s \in Sessions, Connection(s)
      PROVE  UNCHANGED Service!vars
  BY <1>5, ConnectionRefines
<1>6. ASSUME NEW s \in Sessions,
             \/ \E r \in Requests : Receive(s, r)
             \/ WriteResponse(s)
             \/ DatabaseFails(s) \/ Auth(s) \/ Chat(s) \/ Message(s)
      PROVE  Service!Next \/ UNCHANGED Service!vars
  <2>1. \A t \in Sessions \ {s} : Stands(t)
    BY <1>1, <1>6, OthersStand
  <2>2. Alone(s)
    BY <1>2, <2>1 DEF Alone
  <2>3. QED
    BY <1>6, <2>2, ReceiveRefines, WriteResponseRefines, HandlerRefines
<1>7. QED
  BY <1>3, <1>4, <1>5, <1>6 DEF Next, Crash, NullCrash

\* For any number of connections, users and requests, whatever the interleaving of
\* their statements, the failures and the crashes: every request takes effect
\* once and at one moment, and no answer claims what is not in the file.
THEOREM ServerImplements == Spec => Implements
<1>1. Init => Service!Init
  <2> SUFFICES ASSUME Init PROVE Service!Init
    OBVIOUS
  <2>1. rooms = {}
    BY DEF Init, rooms, CompleteChats
  <2>2. call = [s \in Sessions |-> Service!NoCall]
    BY DEF Init, call, effect, Service!NoCall, NoRequest
  <2>3. QED
    BY <2>1, <2>2 DEF Init, Service!Init, Service!NoAnswer, NoResponse, Response
<1>2. QED
  BY <1>1, RequestInvariant, StepImplements, PTL DEF Spec, Implements, Service!Spec
=============================================================================
