----------------------------- MODULE ChatService -----------------------------
(***************************************************************************)
(* What the uChat server promises to the clients of its connections: every *)
(* request takes effect atomically, at most once, between its call and its *)
(* answer; an answer SUCCESS is given only for an effect that took place,  *)
(* and reports the row it produced or, for a query, a state of the service *)
(* between the call and the answer; nothing that took effect is lost.  An  *)
(* error answer promises nothing: the effect may have happened.            *)
(*                                                                         *)
(* A room is a chat with its two members.  How it comes to be from three   *)
(* INSERTs, what is left when they stop half way, threads, connections and *)
(* crashes are not visible here.                                           *)
(***************************************************************************)
EXTENDS Naturals, Sequences

CONSTANTS Sessions, Sha256, InitUsers

VARIABLES
    users,      \* a sequence: the position is the user's id
    rooms,      \* the chats [id, pair]
    messages,   \* a sequence: the position is the message's id
    call,       \* [who, req, effect]: the request of a session, or NoCall
    answer      \* [status, data]: what the session is about to be told

vars == <<users, rooms, messages, call, answer>>

NoCall == [who |-> 0, req |-> [type |-> "NONE"], effect |-> 0]
NoAnswer == [status |-> "NONE", data |-> {}]

UserOut(i) == [id |-> i, username |-> users[i].username]

UsersNamed(name) == {i \in DOMAIN users : users[i].username = name}

RoomsOf(id) == {r \in rooms : id \in r.pair}

RoomOut(r, id) ==
    {[id |-> r.id, title |-> users[v].username] :
        v \in (r.pair \ {id}) \cap DOMAIN users}

NameOf(id) == {users[i].username : i \in DOMAIN users \cap {id}}

MessageOut(m) ==
    [id |-> m, username |-> NameOf(messages[m].user_id), row |-> messages[m]]

Init ==
    /\ users = InitUsers /\ rooms = {} /\ messages = << >>
    /\ call = [s \in Sessions |-> NoCall]
    /\ answer = [s \in Sessions |-> NoAnswer]

\* The client chooses the request and, by its logins, on whose behalf; a request
\* that cannot be parsed is answered at once.
Call(s) ==
    /\ call[s].req.type = "NONE"
    /\ call'[s].req.type # "NONE" /\ call'[s].effect = 0
    /\ \A t \in Sessions \ {s} : call'[t] = call[t]
    /\ \E a \in {NoAnswer, [status |-> "ERROR_JSON", data |-> {}]} :
          answer' = [answer EXCEPT ![s] = a]
    /\ UNCHANGED <<users, rooms, messages>>

----------------------------------------------------------------------------
(* Effects: each changes the state once and notes the row it concerns. *)

Effect(s, type, id) ==
    /\ call[s].req.type = type /\ call[s].effect = 0 /\ answer[s] = NoAnswer
    /\ call' = [call EXCEPT ![s].effect = id]
    /\ UNCHANGED answer

Register(s) ==
    /\ Effect(s, "REGISTER", Len(users) + 1)
    /\ UsersNamed(call[s].req.username) = {}
    /\ users' = Append(users, [username |-> call[s].req.username,
                               password |-> Sha256[call[s].req.password]])
    /\ UNCHANGED <<rooms, messages>>

ChangePassword(s) ==
    /\ Effect(s, "UPDATE_USER", call[s].who)
    /\ users' = [i \in DOMAIN users |->
                    IF i = call[s].who
                    THEN [users[i] EXCEPT !.password = Sha256[call[s].req.password]]
                    ELSE users[i]]
    /\ UNCHANGED <<rooms, messages>>

OpenRoom(s) ==
    /\ LET id == call'[s].effect IN        \* any that no room has
          /\ Effect(s, "ADD_CHAT", id)
          /\ \A r \in rooms : r.id # id
          /\ rooms' = rooms \cup
                {[id |-> id, pair |-> {call[s].who, call[s].req.invitee_user_id}]}
    /\ call[s].req.invitee_user_id \in DOMAIN users \ {call[s].who}
    /\ UNCHANGED <<users, messages>>

Post(s) ==
    /\ Effect(s, "ADD_MESSAGE", Len(messages) + 1)
    /\ messages' = Append(messages,
                          [user_id |-> call[s].who, chat_id |-> call[s].req.chat_id,
                           body |-> call[s].req.body,
                           updated |-> FALSE, deleted |-> FALSE])
    /\ UNCHANGED <<users, rooms>>

Edit(s) ==
    /\ Effect(s, "UPDATE_MESSAGE", call[s].req.message_id)
    /\ messages' = [i \in DOMAIN messages |->
                       IF i = call[s].req.message_id
                       THEN [messages[i] EXCEPT !.body = call[s].req.body,
                                                !.updated = TRUE]
                       ELSE messages[i]]
    /\ UNCHANGED <<users, rooms>>

Delete(s) ==
    /\ Effect(s, "DELETE_MESSAGE", call[s].req.message_id)
    /\ messages' = [i \in DOMAIN messages |->
                       IF i = call[s].req.message_id
                       THEN [messages[i] EXCEPT !.deleted = TRUE]
                       ELSE messages[i]]
    /\ UNCHANGED <<users, rooms>>

----------------------------------------------------------------------------
(* Answers *)

\* What SUCCESS reports of the state it is computed in; {}: it is not given.
Success(s) ==
    LET c == call[s] IN
    CASE c.req.type = "LOGIN" ->
            {UserOut(i) : i \in {j \in UsersNamed(c.req.username) :
                                    users[j].password = Sha256[c.req.password]}}
      [] c.req.type \in {"REGISTER", "UPDATE_USER"} ->
            {UserOut(i) : i \in DOMAIN users \cap {c.effect}}
      [] c.req.type = "GET_USERS_FOR_SEARCH" ->
            {UserOut(i) : i \in {j \in DOMAIN users \ {c.who} :
                                    \A r \in RoomsOf(c.who) : j \notin r.pair}}
      [] c.req.type = "ADD_CHAT" ->
            UNION {RoomOut(r, c.who) : r \in {q \in RoomsOf(c.who) : q.id = c.effect}}
      [] c.req.type = "GET_CHATS" ->
            UNION {RoomOut(r, c.who) : r \in RoomsOf(c.who)}
      [] c.req.type = "GET_MESSAGES" ->
            {MessageOut(m) : m \in {i \in DOMAIN messages :
                                       messages[i].chat_id = c.req.chat_id}}
      [] c.req.type \in {"ADD_MESSAGE", "UPDATE_MESSAGE", "DELETE_MESSAGE"} ->
            {MessageOut(m) : m \in DOMAIN messages \cap {c.effect}}
      [] OTHER -> {}

Pending(s) == call[s].req.type # "NONE" /\ answer[s] = NoAnswer

Answer(s, status, data) ==
    /\ answer' = [answer EXCEPT ![s] = [status |-> status, data |-> data]]
    /\ call' = [call EXCEPT ![s].effect = 0]
    /\ UNCHANGED <<users, rooms, messages>>

Succeed(s) ==
    /\ Pending(s) /\ Success(s) # {}
    /\ Answer(s, "SUCCESS", Success(s))

Refuse(s) ==
    /\ Pending(s)
    /\ Answer(s, IF call[s].req.type = "LOGIN" THEN "ERROR_INVALID_CREDENTIALS"
                                               ELSE "ERROR_DB", {})

\* Calls end: one answered, or any number abandoned by the server's death.
End ==
    /\ \E S \in SUBSET Sessions :
          /\ call' = [s \in Sessions |-> IF s \in S THEN NoCall ELSE call[s]]
          /\ answer' = [s \in Sessions |-> IF s \in S THEN NoAnswer ELSE answer[s]]
    /\ UNCHANGED <<users, rooms, messages>>

Next ==
    \/ End
    \/ \E s \in Sessions :
          \/ Call(s)
          \/ Register(s) \/ ChangePassword(s) \/ OpenRoom(s)
          \/ Post(s) \/ Edit(s) \/ Delete(s)
          \/ Succeed(s) \/ Refuse(s)

Spec == Init /\ [][Next]_vars
=============================================================================
