---------------------- MODULE UchatClientSessionProofs ----------------------
(***************************************************************************)
(* Proofs about UchatClientSession: its type invariant, and that after an  *)
(* orderly sign-in the server acts for the user whom the client shows, for *)
(* any number of users, chats, faults and requests on their way.           *)
(***************************************************************************)
EXTENDS UchatClientSession, Functions, SequenceTheorems, TLAPS

AuthTypes == {"LOGIN", "REGISTER"}

\* The session is of a row of users.
KnownSession ==
    /\ session.id \in UserIds
    /\ session.username = users[session.id].username

\* What may be invited for the user of the session, 0 being nobody.
Another(id) == id \in (UserIds \cup {0}) \ {session.id}

UniqueNames ==
    \A i, j \in UserIds : users[i].username = users[j].username => i = j

WindowInv ==
    /\ adding => window = "chat"
    /\ timer_id => time_outs > 0
    /\ orderly => connected

\* What the server made of the request of a sign-in is about its own session.
SignedIn(r) ==
    /\ r.type \in AuthTypes
    /\ \A row \in r.rows : row = session /\ KnownSession

\* Before the chat window: only one sign-in, or nothing, is on its way.
AuthInv ==
    orderly /\ window = "auth" =>
        /\ time_outs = 0 /\ chat_list = {} /\ users_store = {}
        /\ Len(requests) + Len(replies) + Len(idle) <= 1
        /\ \A r \in Range(requests) : r.type \in AuthTypes
        /\ \A r \in Range(replies) : SignedIn(r)
        /\ \A r \in Range(idle) : SignedIn(r)

\* What is asked for and answered in the chat window is this user's.
OwnRequest(r) ==
    /\ r.type \notin AuthTypes
    /\ r.type = "ADD_CHAT" => Another(r.invitee_user_id)

OwnReply(r) ==
    /\ r.type \notin AuthTypes
    /\ r.type = "UPDATE_USER" => r.rows \subseteq {session}
    /\ r.type = "GET_USERS_FOR_SEARCH" => \A row \in r.rows : Another(row.id)
    /\ r.type = "GET_CHATS" => r.rows \subseteq database_fetch_user_chats(session.id)

SelectionInv ==
    adding \/ (\E r \in Range(idle) : r.type = "send_add_chat") => Another(selected_username)

ChatInv ==
    orderly /\ window = "chat" =>
        /\ session = client_info /\ KnownSession
        /\ time_outs = 1 /\ timer_id
        /\ chat_list \subseteq database_fetch_user_chats(session.id)
        /\ \A row \in users_store : Another(row.id)
        /\ SelectionInv
        /\ \A r \in Range(requests) : OwnRequest(r)
        /\ \A r \in Range(replies) : OwnReply(r)
        /\ \A r \in Range(idle) : OwnReply(r)

----------------------------------------------------------------------------
(* Sequences *)

LEMMA Appended ==
    ASSUME NEW S, NEW q \in Seq(S), NEW e \in S
    PROVE  /\ Append(q, e) \in Seq(S) /\ Len(Append(q, e)) = Len(q) + 1
           /\ Range(Append(q, e)) = Range(q) \cup {e}
<1>1. /\ Append(q, e) \in Seq(S) /\ Len(q) \in Nat /\ DOMAIN q = 1..Len(q)
      /\ Len(Append(q, e)) = Len(q) + 1
      /\ \A i \in 1..Len(q) : Append(q, e)[i] = q[i]
      /\ Append(q, e)[Len(q) + 1] = e
  OBVIOUS
<1>2. DOMAIN Append(q, e) = 1..(Len(q) + 1)
  BY <1>1
<1>3. \A i \in 1..(Len(q) + 1) : i \in 1..Len(q) \/ i = Len(q) + 1
  BY <1>1
<1>4. Len(q) + 1 \in 1..(Len(q) + 1) /\ \A i \in 1..Len(q) : i \in 1..(Len(q) + 1)
  BY <1>1
<1> QED  BY <1>1, <1>2, <1>3, <1>4 DEF Range

LEMMA Taken ==
    ASSUME NEW S, NEW q \in Seq(S), q # << >>
    PROVE  /\ Tail(q) \in Seq(S) /\ Len(q) \in Nat \ {0} /\ Len(Tail(q)) = Len(q) - 1
           /\ Range(Tail(q)) \subseteq Range(q)
           /\ Head(q) \in S /\ Head(q) \in Range(q)
<1>1. /\ Len(q) \in Nat \ {0} /\ DOMAIN q = 1..Len(q) /\ Head(q) = q[1]
      /\ Tail(q) \in Seq(S) /\ Len(Tail(q)) = Len(q) - 1
      /\ \A i \in 1..(Len(q) - 1) : Tail(q)[i] = q[i + 1]
  BY EmptySeq, HeadTailProperties
<1>2. DOMAIN Tail(q) = 1..(Len(q) - 1)
  BY <1>1
<1>3. \A i \in 1..(Len(q) - 1) : i + 1 \in 1..Len(q)
  BY <1>1
<1>4. 1 \in DOMAIN q /\ q[1] \in S
  BY <1>1
<1> QED  BY <1>1, <1>2, <1>3, <1>4 DEF Range

LEMMA Emptied ==
    /\ \A S : << >> \in Seq(S)
    /\ Len(<< >>) = 0 /\ Range(<< >>) = {}
<1>1. DOMAIN << >> = {}
  OBVIOUS
<1> QED  BY <1>1 DEF Range

LEMMA EmptyQueue ==
    ASSUME NEW S, NEW q \in Seq(S), Len(q) = 0
    PROVE  q = << >>
BY EmptySeq

LEMMA Prefix ==
    ASSUME NEW S, NEW q \in Seq(S), NEW n \in 0..Len(q)
    PROVE  SubSeq(q, 1, n) \in Seq(S)
<1>1. Len(q) \in Nat /\ DOMAIN q = 1..Len(q) /\ \A i \in 1..Len(q) : q[i] \in S
  OBVIOUS
<1>2. n \in Nat /\ \A i \in 1..n : i \in 1..Len(q)
  BY <1>1
<1>3. SubSeq(q, 1, n) = [i \in 1..n |-> q[i]]
  BY <1>1, <1>2
<1> QED  BY <1>1, <1>2, <1>3

----------------------------------------------------------------------------
(* The tables *)

\* No statement takes a user, his name, a chat or a member back.
Growing ==
    /\ UserIds \subseteq UserIds'
    /\ \A i \in UserIds : users'[i].username = users[i].username
    /\ chats \in Nat /\ chats' \in Nat /\ chats <= chats'
    /\ members \subseteq members'

TablesInv == DatabaseTypeOK /\ UniqueNames

LEMMA TablesSame == TablesInv /\ UNCHANGED tables => TablesInv' /\ Growing
BY DEF TablesInv, DatabaseTypeOK, UniqueNames, UserIds, Growing, tables

LEMMA UserTyped ==
    ASSUME DatabaseTypeOK, NEW i \in UserIds
    PROVE  i \in Nat \ {0} /\ users[i] \in UserRow /\ UserOut(i) \in UserRows
<1>1. i \in Nat \ {0} /\ users[i] \in UserRow
  BY DEF DatabaseTypeOK, UserIds
<1> QED  BY <1>1 DEF UserOut, UserRow, UserRows

LEMMA UserAdded ==
    ASSUME TablesInv, NEW username \in Usernames, NEW password \in Digests,
           database_add_user(username, password)
    PROVE  /\ TablesInv' /\ Growing
           /\ Len(users) + 1 \in UserIds'
           /\ users'[Len(users) + 1].username = username
<1> DEFINE row == [username |-> username, password |-> password]
<1>1. row \in UserRow /\ users \in Seq(UserRow) /\ row.username = username
  BY DEF UserRow, TablesInv, DatabaseTypeOK
<1>2. /\ users' = Append(users, row) /\ UNCHANGED <<chats, members, messages>>
      /\ \A i \in DOMAIN users : users[i].username # username
  BY DEF database_add_user, database_fetch_user_data, UserIds
<1> HIDE DEF row
<1>3. /\ users' \in Seq(UserRow) /\ Len(users) \in Nat
      /\ DOMAIN users = 1..Len(users) /\ Len(users') = Len(users) + 1
      /\ \A i \in 1..Len(users) : users'[i] = users[i]
      /\ users'[Len(users) + 1] = row
  BY <1>1, <1>2
<1>4. DOMAIN users' = 1..(Len(users) + 1)
  BY <1>3
<1>5. /\ \A i \in 1..(Len(users) + 1) : i \in 1..Len(users) \/ i = Len(users) + 1
      /\ \A i \in 1..Len(users) : i \in 1..(Len(users) + 1)
      /\ Len(users) + 1 \in 1..(Len(users) + 1)
  BY <1>3
<1>6. UniqueNames'
  BY <1>1, <1>2, <1>3, <1>4, <1>5 DEF TablesInv, UniqueNames, UserIds
<1> QED  BY <1>1, <1>2, <1>3, <1>4, <1>5, <1>6
         DEF TablesInv, DatabaseTypeOK, Growing, UserIds

LEMMA UserUpdated ==
    ASSUME TablesInv, NEW id, NEW password \in Digests, database_update_user(id, password)
    PROVE  TablesInv' /\ Growing /\ UserIds' = UserIds
<1>1. /\ Len(users) \in Nat /\ DOMAIN users = 1..Len(users)
      /\ \A i \in DOMAIN users : users[i] \in UserRow
  BY DEF TablesInv, DatabaseTypeOK
<1>2. UNCHANGED <<chats, members, messages>> /\ DOMAIN users' = DOMAIN users
  BY DEF database_update_user, UserIds
<1>3. ASSUME NEW i \in DOMAIN users
      PROVE  users'[i] \in UserRow /\ users'[i].username = users[i].username
  <2>1. users'[i] = users[i] \/ users'[i] = [users[i] EXCEPT !.password = password]
    BY DEF database_update_user, UserIds
  <2> QED  BY <1>1, <2>1 DEF UserRow
<1>4. users' = [i \in DOMAIN users |-> users'[i]]
  BY DEF database_update_user, UserIds
<1>5. users' \in [1..Len(users) -> UserRow]
  BY <1>1, <1>3, <1>4
<1>6. users' \in Seq(UserRow)
  BY <1>1, <1>5
<1> QED  BY <1>2, <1>3, <1>6 DEF TablesInv, DatabaseTypeOK, UniqueNames, Growing, UserIds

LEMMA ChatAdded ==
    ASSUME TablesInv, NEW id \in Nat, NEW invitee \in Nat, NewChat(id, invitee)
    PROVE  TablesInv' /\ Growing
<1>1. /\ chats' = chats + 1 /\ chats \in Nat /\ members \subseteq (1..chats) \X Nat
      /\ members' = members \cup {<<chats + 1, id>>, <<chats + 1, invitee>>}
      /\ UNCHANGED <<users, messages>>
  BY DEF NewChat, TablesInv, DatabaseTypeOK
<1>2. chats' \in Nat /\ chats <= chats' /\ members \subseteq members'
  BY <1>1
<1>3. 1..chats \subseteq 1..chats' /\ chats + 1 \in 1..chats'
  BY <1>1
<1>4. members' \subseteq (1..chats') \X Nat
  BY <1>1, <1>3
<1> QED  BY <1>1, <1>2, <1>4 DEF TablesInv, DatabaseTypeOK, UniqueNames, Growing, UserIds

\* A chat of a user stays one, with its title.
LEMMA ChatsStay ==
    ASSUME Growing, NEW id, NEW row \in database_fetch_user_chats(id)
    PROVE  row \in database_fetch_user_chats(id)'
<1>1. PICK c \in UserChats(id) : row \in ChatOut(c, id)
  BY DEF database_fetch_user_chats
<1>2. PICK v \in TitleUsers(c, id) : row = [id |-> c, title |-> users[v].username]
  BY <1>1 DEF ChatOut
<1>3. c \in 1..chats /\ <<c, id>> \in members /\ v \in UserIds /\ v # id /\ <<c, v>> \in members
  BY DEF UserChats, TitleUsers
<1>4. c \in UserChats(id)'
  BY <1>3 DEF Growing, UserChats
<1>5. v \in TitleUsers(c, id)'
  BY <1>3 DEF Growing, TitleUsers
<1>6. users'[v].username = users[v].username
  BY <1>3 DEF Growing
<1>7. row \in ChatOut(c, id)'
  BY <1>2, <1>5, <1>6 DEF ChatOut
<1> QED  BY <1>4, <1>7 DEF database_fetch_user_chats

LEMMA ChatsTyped ==
    ASSUME DatabaseTypeOK, NEW id
    PROVE  database_fetch_user_chats(id) \subseteq ChatRows
<1> SUFFICES ASSUME NEW c \in UserChats(id), NEW v \in TitleUsers(c, id)
             PROVE  [id |-> c, title |-> users[v].username] \in ChatRows
  BY DEF database_fetch_user_chats, ChatOut
<1>1. c \in Nat
  BY DEF UserChats, DatabaseTypeOK
<1>2. v \in UserIds
  BY DEF TitleUsers
<1>3. users[v].username \in Usernames
  BY <1>2, UserTyped DEF UserRow
<1> QED  BY <1>1, <1>3 DEF ChatRows

----------------------------------------------------------------------------
(* The server *)

TypeInv == TypeOK /\ UniqueNames /\ WindowInv

\* An answer, and what it has to do with the session once it is given.
Fits(type, rows) ==
    /\ [type |-> type, rows |-> rows] \in Replies
    /\ type \in AuthTypes => \A row \in rows : row = session' /\ KnownSession'
    /\ type \notin AuthTypes => session' = session
    /\ type = "UPDATE_USER" /\ KnownSession => rows \subseteq {session}
    /\ type = "GET_USERS_FOR_SEARCH" => \A row \in rows : Another(row.id)'
    /\ type = "GET_CHATS" => rows \subseteq database_fetch_user_chats(session.id)'

Served ==
    /\ requests # << >> /\ session' \in Sessions /\ faults' \in Nat
    /\ TablesInv' /\ Growing
    /\ \E rows : Answer(rows) /\ Fits(Head(requests).type, rows)

LEMMA TypeFacts ==
    ASSUME TypeInv
    PROVE  /\ TablesInv /\ session \in Sessions /\ session.id \in Nat /\ faults \in Nat
           /\ \A i \in UserIds : UserOut(i) \in UserRows
           /\ requests # << >> => Head(requests) \in Requests
<1>1. TablesInv /\ session \in Sessions /\ session.id \in Nat /\ faults \in Nat
  BY DEF TypeInv, TypeOK, TablesInv, Sessions
<1>2. \A i \in UserIds : UserOut(i) \in UserRows
  BY <1>1, UserTyped DEF TablesInv
<1>3. requests # << >> => Head(requests) \in Requests
  BY Taken DEF TypeInv, TypeOK
<1> QED  BY <1>1, <1>2, <1>3

LEMMA RegisterServed == TypeInv /\ Register => Served
<1> SUFFICES ASSUME TypeInv, Register PROVE Served
  OBVIOUS
<1> DEFINE r == Head(requests)
           row == [id |-> Len(users) + 1, username |-> r.username]
<1>1. requests # << >> /\ r.type = "REGISTER" /\ faults' = faults /\ r \in Requests
  BY TypeFacts DEF Register, Serves
<1>2. r.username \in Usernames /\ r.password \in Digests
  BY <1>1 DEF Requests
<1>3. Len(users) \in Nat /\ row \in UserRows /\ row \in Sessions
  <2>1. Len(users) \in Nat
    BY DEF TypeInv, TypeOK, DatabaseTypeOK
  <2> QED  BY <2>1, <1>2 DEF UserRows, Sessions
<1>4. CASE database_add_user(r.username, r.password) /\ session' = row /\ Answer({row})
  <2>1. /\ TablesInv' /\ Growing /\ Len(users) + 1 \in UserIds'
        /\ users'[Len(users) + 1].username = r.username
    BY <1>2, <1>4, UserAdded, TypeFacts
  <2>2. KnownSession'
    BY <1>4, <2>1 DEF KnownSession, UserIds
  <2>3. Fits(r.type, {row})
    BY <1>1, <1>3, <1>4, <2>2 DEF Fits, Replies, AuthTypes
  <2> QED  BY <1>1, <1>3, <1>4, <2>1, <2>3, TypeFacts DEF Served
<1>5. CASE Answer({}) /\ UNCHANGED <<tables, session>>
  <2>1. TablesInv' /\ Growing
    BY <1>5, TablesSame, TypeFacts
  <2>2. Fits(r.type, {})
    BY <1>1, <1>5 DEF Fits, Replies, AuthTypes
  <2> QED  BY <1>1, <1>5, <2>1, <2>2, TypeFacts DEF Served
<1> QED  BY <1>4, <1>5 DEF Register

LEMMA LogInServed == TypeInv /\ LogIn => Served
<1> SUFFICES ASSUME TypeInv, LogIn PROVE Served
  OBVIOUS
<1> DEFINE r == Head(requests)
           found == database_fetch_user_data(r.username)
           rows == {UserOut(i) : i \in {j \in found : users[j].password = r.password}}
<1>1. /\ requests # << >> /\ r.type = "LOGIN" /\ faults' = faults
      /\ UNCHANGED tables /\ Answer(rows)
      /\ session' = IF found = {} THEN session ELSE UserOut(CHOOSE i \in found : TRUE)
  BY DEF LogIn, Serves
<1>2. TablesInv' /\ Growing
  BY <1>1, TablesSame, TypeFacts
<1>3. \A i, j \in found : i = j
  BY DEF database_fetch_user_data, TypeInv, UniqueNames
<1>4. \A i \in found : i \in UserIds /\ UserOut(i) \in UserRows
  BY TypeFacts DEF database_fetch_user_data
<1>5. session' \in Sessions
  BY <1>1, <1>4, TypeFacts DEF UserRows, Sessions
<1>6. ASSUME NEW i \in found PROVE UserOut(i) = session' /\ KnownSession'
  <2>1. session' = UserOut(i)
    BY <1>1, <1>3
  <2>2. i \in UserIds /\ users' = users
    BY <1>1, <1>4 DEF tables
  <2> QED  BY <2>1, <2>2 DEF KnownSession, UserOut, UserIds
<1>7. \A row \in rows : row \in UserRows /\ row = session' /\ KnownSession'
  BY <1>4, <1>6
<1> HIDE DEF rows
<1>8. Fits(r.type, rows)
  BY <1>1, <1>7 DEF Fits, Replies, AuthTypes
<1> QED  BY <1>1, <1>2, <1>5, <1>8, TypeFacts DEF Served

LEMMA UpdateUserServed == TypeInv /\ UpdateUser => Served
<1> SUFFICES ASSUME TypeInv, UpdateUser PROVE Served
  OBVIOUS
<1> DEFINE r == Head(requests)
           rows == {UserOut(i) : i \in database_fetch_user_data(session.username)}
<1>1. /\ requests # << >> /\ r.type = "UPDATE_USER" /\ faults' = faults /\ session' = session
      /\ database_update_user(session.id, r.password) /\ Answer(rows) /\ r \in Requests
  BY TypeFacts DEF UpdateUser, Serves
<1>2. r.password \in Digests
  BY <1>1 DEF Requests
<1>3. TablesInv' /\ Growing
  BY <1>1, <1>2, UserUpdated, TypeFacts
<1>4. \A i \in database_fetch_user_data(session.username) :
         i \in UserIds /\ users[i].username = session.username /\ UserOut(i) \in UserRows
  BY TypeFacts DEF database_fetch_user_data
<1>5. ASSUME KnownSession, NEW i \in database_fetch_user_data(session.username)
      PROVE  UserOut(i) = session
  <2>1. i = session.id
    BY <1>4, <1>5 DEF KnownSession, TypeInv, UniqueNames
  <2> QED  BY <1>4, <2>1, TypeFacts DEF UserOut, Sessions
<1>6. rows \subseteq UserRows /\ (KnownSession => rows \subseteq {session})
  BY <1>4, <1>5
<1> HIDE DEF rows
<1>7. Fits(r.type, rows)
  BY <1>1, <1>6 DEF Fits, Replies, AuthTypes
<1> QED  BY <1>1, <1>3, <1>7, TypeFacts DEF Served

LEMMA ListServed == TypeInv /\ (ListUsers \/ ListChats) => Served
<1> SUFFICES ASSUME TypeInv, ListUsers \/ ListChats PROVE Served
  OBVIOUS
<1> DEFINE r == Head(requests)
<1>1. requests # << >> /\ UNCHANGED <<tables, session, faults>>
  BY DEF ListUsers, ListChats, Serves
<1>2. TablesInv' /\ Growing
  BY <1>1, TablesSame, TypeFacts
<1>3. CASE ListUsers
  <2> DEFINE rows == database_fetch_user_list(session.id)
  <2>1. \A row \in rows : row \in UserRows /\ row.id \in UserIds \ {session.id}
    BY TypeFacts DEF database_fetch_user_list, UserOut
  <2>2. \A row \in rows : Another(row.id)'
    BY <1>1, <2>1 DEF Another, UserIds, tables
  <2>3. r.type = "GET_USERS_FOR_SEARCH" /\ Answer(rows)
    BY <1>3 DEF ListUsers, Serves
  <2> HIDE DEF rows
  <2>4. Fits(r.type, rows)
    BY <1>1, <2>1, <2>2, <2>3 DEF Fits, Replies, AuthTypes
  <2> QED  BY <1>1, <1>2, <2>3, <2>4, TypeFacts DEF Served
<1>4. CASE ListChats
  <2> DEFINE rows == database_fetch_user_chats(session.id)
  <2>1. rows \subseteq ChatRows
    BY ChatsTyped, TypeFacts DEF TablesInv
  <2>2. rows \subseteq database_fetch_user_chats(session.id)'
    BY <1>1, <1>2, ChatsStay
  <2>3. r.type = "GET_CHATS" /\ Answer(rows)
    BY <1>4 DEF ListChats, Serves
  <2> HIDE DEF rows
  <2>4. Fits(r.type, rows)
    BY <1>1, <2>1, <2>2, <2>3 DEF Fits, Replies, AuthTypes
  <2> QED  BY <1>1, <1>2, <2>3, <2>4, TypeFacts DEF Served
<1> QED  BY <1>3, <1>4

LEMMA AddChatServed == TypeInv /\ AddChat => Served
<1> SUFFICES ASSUME TypeInv, AddChat PROVE Served
  OBVIOUS
<1> DEFINE r == Head(requests)
           invitee == r.invitee_user_id
<1>1. /\ requests # << >> /\ r.type = "ADD_CHAT" /\ session' = session /\ faults' = faults
      /\ r \in Requests
  BY TypeFacts DEF AddChat, Serves
<1>2. \A rows \in SUBSET ChatRows : Fits(r.type, rows)
  BY <1>1 DEF Fits, Replies, AuthTypes
<1>3. CASE Answer({}) /\ UNCHANGED tables
  BY <1>1, <1>2, <1>3, TablesSame, TypeFacts DEF Served
<1>4. CASE /\ ~Refused(session.id, invitee)
           /\ NewChat(session.id, invitee)
           /\ Answer(IF invitee = session.id THEN {}
                     ELSE {[id |-> chats + 1, title |-> users[invitee].username]})
  <2>1. invitee \in UserIds /\ chats \in Nat
    BY <1>4 DEF Refused, TypeInv, TypeOK, DatabaseTypeOK
  <2>2. invitee \in Nat /\ users[invitee].username \in Usernames
    BY <2>1, UserTyped DEF TypeInv, TypeOK, UserRow
  <2>3. TablesInv' /\ Growing
    BY <1>4, <2>2, ChatAdded, TypeFacts
  <2>4. [id |-> chats + 1, title |-> users[invitee].username] \in ChatRows
    BY <2>1, <2>2 DEF ChatRows
  <2> QED  BY <1>1, <1>2, <1>4, <2>3, <2>4, TypeFacts DEF Served
<1> QED  BY <1>3, <1>4 DEF AddChat

LEMMA FailureServed == TypeInv /\ QueryFails => Served
<1> SUFFICES ASSUME TypeInv, QueryFails PROVE Served
  OBVIOUS
<1>1. /\ requests # << >> /\ faults' = faults + 1 /\ Answer({})
      /\ UNCHANGED <<tables, session>>
  BY DEF QueryFails
<1>2. Fits(Head(requests).type, {})
  BY <1>1, TypeFacts DEF Fits, Replies, Requests, AuthTypes
<1> QED  BY <1>1, <1>2, TablesSame, TypeFacts DEF Served

LEMMA ServerServes ==
    TypeInv /\ (Serve \/ QueryFails) => Served \/ NullCrash
BY RegisterServed, LogInServed, UpdateUserServed, ListServed, AddChatServed, FailureServed
   DEF Serve

----------------------------------------------------------------------------
(* Types *)

\* What an answer does to the queues.
LEMMA AnswerQueued ==
    ASSUME TypeOK, requests # << >>, NEW rows, Answer(rows),
           [type |-> Head(requests).type, rows |-> rows] \in Replies
    PROVE  /\ requests' \in Seq(Requests) /\ replies' \in Seq(Replies)
           /\ Len(requests') = Len(requests) - 1 /\ Len(replies') = Len(replies) + 1
           /\ Range(requests') \subseteq Range(requests)
           /\ Range(replies') = Range(replies)
                                   \cup {[type |-> Head(requests).type, rows |-> rows]}
BY Taken, Appended DEF TypeOK, Answer

\* What a request that is sent does to them.
LEMMA Sent ==
    ASSUME TypeOK, NEW r \in Requests, Send(r)
    PROVE  /\ requests' \in Seq(Requests)
           /\ Range(requests') \subseteq Range(requests) \cup {r}
BY Appended DEF TypeOK, Send

\* And a callback that is run.
LEMMA CallbackRun ==
    ASSUME TypeOK, NEW type, Runs(type)
    PROVE  /\ idle # << >> /\ Head(idle).type = type
           /\ Head(idle) \in Callbacks /\ Head(idle) \in Range(idle)
           /\ idle' \in Seq(Callbacks) /\ Range(idle') \subseteq Range(idle)
           /\ Len(idle) \in Nat \ {0} /\ Len(idle') = Len(idle) - 1
           /\ UNCHANGED <<tables, session, connected, faults, orderly>>
BY Taken DEF TypeOK, Runs

\* What GTK selects while users_store is cleared is one of its rows.
LEMMA ClearedTyped == TypeOK /\ UsersCleared => selected_username' \in Nat
BY DEF TypeOK, UsersCleared, UserRows

LEMMA UserTypes == TypeInv /\ (UserActs \/ PollChats) => TypeInv'
<1> SUFFICES ASSUME TypeInv, UserActs \/ PollChats PROVE TypeInv'
  OBVIOUS
<1> USE DEF TypeInv
<1>1. UNCHANGED <<tables, session, connected, faults>>
  BY DEF UserActs, PollChats, SignIn, SignUp, SendAuth, ChangePassword, ShowAddChat,
         CreateChat, HideAddChat, LogOut, SelectUser
<1>2. DatabaseTypeOK' /\ UniqueNames'
  BY <1>1, TablesSame DEF TablesInv, TypeOK
<1>3. ASSUME NEW username \in Usernames, NEW password \in Digests, NEW type \in AuthTypes,
             SendAuth(type, username, password)
      PROVE  TypeInv'
  <2>1. [type |-> type, username |-> username, password |-> password] \in Requests
    BY DEF Requests, AuthTypes
  <2>2. requests' \in Seq(Requests)
    BY <1>3, <2>1, Sent DEF SendAuth
  <2>3. orderly' \in BOOLEAN /\ (orderly' => connected)
    BY <1>3 DEF SendAuth, Quiet
  <2> QED  BY <1>1, <1>2, <1>3, <2>2, <2>3 DEF SendAuth, TypeOK, WindowInv, gui
<1>4. ASSUME NEW password \in Digests, ChangePassword(password) PROVE TypeInv'
  <2>1. [type |-> "UPDATE_USER", password |-> password] \in Requests
    BY DEF Requests
  <2>2. requests' \in Seq(Requests)
    BY <1>4, <2>1, Sent DEF ChangePassword
  <2> QED  BY <1>1, <1>2, <1>4, <2>2 DEF ChangePassword, TypeOK, WindowInv, gui
<1>5. CASE PollChats
  <2>1. [type |-> "GET_CHATS"] \in Requests
    BY DEF Requests
  <2>2. requests' \in Seq(Requests)
    BY <1>5, <2>1, Sent DEF PollChats
  <2> QED  BY <1>1, <1>2, <1>5, <2>2 DEF PollChats, TypeOK, WindowInv, gui
<1>6. CASE ShowAddChat \/ CreateChat
  <2>1. \A type \in {"send_get_users", "send_add_chat"} : [type |-> type] \in Callbacks
    BY DEF Callbacks
  <2>2. idle' \in Seq(Callbacks)
    <3>1. PICK e \in Callbacks : idle' = Append(idle, e)
      BY <1>6, <2>1 DEF ShowAddChat, CreateChat
    <3> QED  BY <3>1, Appended DEF TypeOK
  <2>3. CASE ShowAddChat
    BY <1>1, <1>2, <2>2, <2>3 DEF ShowAddChat, TypeOK, WindowInv
  <2>4. CASE CreateChat
    BY <1>1, <1>2, <2>2, <2>4 DEF CreateChat, TypeOK, WindowInv, gui
  <2> QED  BY <1>6, <2>3, <2>4
<1>7. CASE HideAddChat
  <2>1. TypeOK'
    BY <1>1, <1>2, <1>7 DEF HideAddChat, TypeOK
  <2>2. WindowInv'
    BY <1>7 DEF HideAddChat, WindowInv
  <2> QED  BY <1>2, <2>1, <2>2
<1>8. CASE LogOut
  <2>1. NoClient \in Sessions
    BY DEF NoClient, Sessions
  <2>2. time_outs' \in Nat
    BY <1>8 DEF LogOut, TypeOK, WindowInv
  <2>3. TypeOK'
    <3>1. selected_username' \in Nat
      BY <1>8, ClearedTyped DEF LogOut
    <3> QED  BY <1>1, <1>2, <1>8, <2>1, <2>2, <3>1 DEF LogOut, TypeOK, Quiet
  <2>4. WindowInv'
    BY <1>8 DEF LogOut, WindowInv
  <2> QED  BY <1>2, <2>3, <2>4
<1>9. ASSUME NEW row \in users_store, SelectUser(row) PROVE TypeInv'
  <2>1. row.id \in Nat
    BY DEF TypeOK, UserRows
  <2> QED  BY <1>1, <1>2, <1>9, <2>1 DEF SelectUser, TypeOK, WindowInv
<1> QED
  BY <1>3, <1>4, <1>5, <1>6, <1>7, <1>8, <1>9 DEF UserActs, SignIn, SignUp, AuthTypes

LEMMA ServedTypes == TypeInv /\ Served => TypeInv'
<1> SUFFICES ASSUME TypeInv, Served PROVE TypeInv'
  OBVIOUS
<1>1. PICK rows : Answer(rows) /\ Fits(Head(requests).type, rows)
  BY DEF Served
<1>2. requests' \in Seq(Requests) /\ replies' \in Seq(Replies)
  BY <1>1, AnswerQueued DEF Served, Fits, TypeInv
<1> QED  BY <1>1, <1>2 DEF Served, TablesInv, Answer, TypeInv, TypeOK, WindowInv, gui

LEMMA NetTypes ==
    TypeInv /\ (NullCrash \/ OthersAddChat \/ ConnectionLost \/ Reconnects
                \/ ReplyLost \/ ReplyQueued) => TypeInv'
<1> SUFFICES ASSUME TypeInv, NullCrash \/ OthersAddChat \/ ConnectionLost \/ Reconnects
                             \/ ReplyLost \/ ReplyQueued
             PROVE  TypeInv'
  OBVIOUS
<1> USE DEF TypeInv
<1>1. CASE NullCrash \/ ConnectionLost
  <2>1. Disconnect /\ faults' \in Nat
    BY <1>1 DEF NullCrash, ConnectionLost, TypeOK
  <2>2. DatabaseTypeOK' /\ UniqueNames'
    BY <2>1, TablesSame DEF TablesInv, TypeOK, Disconnect
  <2>3. replies' \in Seq(Replies)
    BY <2>1, Prefix DEF Disconnect, TypeOK
  <2>4. requests' \in Seq(Requests)
    BY <2>1, Emptied DEF Disconnect
  <2> QED  BY <2>1, <2>2, <2>3, <2>4 DEF Disconnect, TypeOK, WindowInv, gui
<1>2. CASE OthersAddChat
  <2>1. \A id \in UserIds : id \in Nat
    BY UserTyped DEF TypeOK
  <2>2. TablesInv'
    BY <1>2, <2>1, ChatAdded, TypeFacts DEF OthersAddChat
  <2> QED  BY <1>2, <2>2 DEF OthersAddChat, TablesInv, TypeOK, WindowInv, gui
<1>3. CASE Reconnects
  <2>1. session' \in Sessions
    BY <1>3, SessionAssumption DEF Reconnects, Sessions
  <2>2. DatabaseTypeOK' /\ UniqueNames'
    BY <1>3, TablesSame DEF TablesInv, TypeOK, Reconnects
  <2> QED  BY <1>3, <2>1, <2>2 DEF Reconnects, TypeOK, WindowInv, gui
<1>4. CASE ReplyLost \/ ReplyQueued
  <2>1. DatabaseTypeOK' /\ UniqueNames'
    BY <1>4, TablesSame DEF TablesInv, TypeOK, ReplyLost, ReplyQueued
  <2>2. replies # << >> /\ replies' = Tail(replies)
    BY <1>4 DEF ReplyLost, ReplyQueued
  <2>3. replies' \in Seq(Replies) /\ Head(replies) \in Callbacks
    BY <2>2, Taken DEF TypeOK, Callbacks
  <2>4. idle' \in Seq(Callbacks) /\ faults' \in Nat
    <3>1. CASE ReplyLost
      BY <3>1 DEF ReplyLost, TypeOK
    <3>2. CASE ReplyQueued
      BY <2>3, <3>2, Appended DEF ReplyQueued, TypeOK
    <3> QED  BY <1>4, <3>1, <3>2
  <2> QED  BY <1>4, <2>1, <2>3, <2>4 DEF ReplyLost, ReplyQueued, TypeOK, WindowInv, gui
<1> QED  BY <1>1, <1>2, <1>3, <1>4

\* The rows of a reply have the type of their kind.
LEMMA RowsTyped ==
    ASSUME NEW r \in Callbacks
    PROVE  /\ r.type \in {"LOGIN", "REGISTER", "UPDATE_USER", "GET_USERS_FOR_SEARCH"} =>
                 r.rows \subseteq UserRows
           /\ r.type \in {"GET_CHATS", "ADD_CHAT"} => r.rows \subseteq ChatRows
BY DEF Callbacks, Replies

LEMMA IdleTypes == TypeInv /\ RunIdle => TypeInv'
<1> SUFFICES ASSUME TypeInv, RunIdle PROVE TypeInv'
  OBVIOUS
<1> USE DEF TypeInv
<1>1. /\ idle' \in Seq(Callbacks) /\ Head(idle) \in Callbacks
      /\ UNCHANGED <<tables, session, connected, faults, orderly>>
  BY CallbackRun
     DEF RunIdle, send_get_users_for_search_request_idle, send_add_chat_request_idle, OpenChat,
         PasswordChanged, handle_get_users_for_search_response, handle_add_chat_response,
         handle_get_chats_response
<1>2. DatabaseTypeOK' /\ UniqueNames'
  BY <1>1, TablesSame DEF TablesInv, TypeOK
<1>3. UserRows \subseteq Sessions
  BY DEF UserRows, Sessions
<1>4. CASE send_get_users_for_search_request_idle
  <2>1. [type |-> "GET_USERS_FOR_SEARCH"] \in Requests
    BY DEF Requests
  <2>2. requests' \in Seq(Requests)
    BY <1>4, <2>1, Sent DEF send_get_users_for_search_request_idle
  <2> QED  BY <1>1, <1>2, <1>4, <2>2
           DEF send_get_users_for_search_request_idle, TypeOK, WindowInv, gui
<1>5. CASE send_add_chat_request_idle
  <2>1. [type |-> "ADD_CHAT", invitee_user_id |-> selected_username] \in Requests
    BY DEF Requests, TypeOK
  <2>2. requests' \in Seq(Requests)
    BY <1>5, <2>1, Sent DEF send_add_chat_request_idle
  <2> QED  BY <1>1, <1>2, <1>5, <2>2 DEF send_add_chat_request_idle, TypeOK, WindowInv
<1>6. ASSUME NEW type \in AuthTypes, OpenChat(type) PROVE TypeInv'
  <2>1. Rows \subseteq Sessions
    BY <1>1, <1>3, <1>6, RowsTyped DEF OpenChat, Runs, Rows, AuthTypes
  <2>2. CASE Rows = {}
    BY <1>1, <1>2, <1>6, <2>2 DEF OpenChat, TypeOK, WindowInv
  <2>3. CASE Rows # {}
    <3>1. client_info' \in Sessions
      BY <1>6, <2>1, <2>3 DEF OpenChat
    <3>2. /\ window' = "chat" /\ time_outs' = time_outs + 1
          /\ UNCHANGED <<chat_list, users_store, adding, selected_username, requests, replies>>
      BY <1>6, <2>3 DEF OpenChat
    <3>3. timer_id' = TRUE
      BY <1>6, <2>3 DEF OpenChat
    <3>4. time_outs' \in Nat /\ time_outs' > 0 /\ timer_id' \in BOOLEAN
      BY <3>2, <3>3 DEF TypeOK
    <3>5. TypeOK'
      BY <1>1, <1>2, <3>1, <3>2, <3>4 DEF TypeOK
    <3>6. WindowInv'
      BY <1>1, <3>2, <3>4 DEF WindowInv
    <3> QED  BY <1>2, <3>5, <3>6
  <2> QED  BY <2>2, <2>3
<1>7. CASE PasswordChanged
  <2>1. Rows \subseteq Sessions
    BY <1>1, <1>3, <1>7, RowsTyped DEF PasswordChanged, Runs, Rows
  <2>2. client_info' \in Sessions
    BY <1>7, <2>1 DEF PasswordChanged, TypeOK
  <2> QED  BY <1>1, <1>2, <1>7, <2>2 DEF PasswordChanged, TypeOK, WindowInv
<1>8. CASE handle_get_users_for_search_response
  <2>1. Rows \subseteq UserRows
    BY <1>1, <1>8, RowsTyped DEF handle_get_users_for_search_response, Runs, Rows
  <2>2. users_store' \subseteq UserRows /\ selected_username' \in Nat
    BY <1>8, <2>1, ClearedTyped DEF handle_get_users_for_search_response, TypeOK
  <2> QED  BY <1>1, <1>2, <1>8, <2>2
           DEF handle_get_users_for_search_response, TypeOK, WindowInv
<1>9. CASE handle_add_chat_response
  BY <1>1, <1>2, <1>9 DEF handle_add_chat_response, TypeOK, WindowInv, gui
<1>10. CASE handle_get_chats_response
  <2>1. Rows \subseteq ChatRows
    BY <1>1, <1>10, RowsTyped DEF handle_get_chats_response, Runs, Rows
  <2>2. chat_list' \subseteq ChatRows
    BY <1>10, <2>1 DEF handle_get_chats_response, TypeOK
  <2> QED  BY <1>1, <1>2, <1>10, <2>2 DEF handle_get_chats_response, TypeOK, WindowInv
<1> QED
  BY <1>4, <1>5, <1>6, <1>7, <1>8, <1>9, <1>10 DEF RunIdle, AuthTypes

LEMMA TypeInit == Init => TypeInv
<1> SUFFICES ASSUME Init PROVE TypeInv
  OBVIOUS
<1> USE SessionAssumption DEF Init
<1>1. DatabaseTypeOK
  BY Emptied DEF DatabaseTypeOK
<1>2. NoClient \in Sessions /\ session \in Sessions
  BY DEF NoClient, Sessions
<1>3. TypeOK
  BY <1>1, <1>2, Emptied DEF TypeOK
<1>4. UniqueNames
  BY DEF UniqueNames, UserIds
<1> QED  BY <1>3, <1>4 DEF TypeInv, WindowInv

LEMMA TypeStep == TypeInv /\ [Next]_vars => TypeInv'
<1> SUFFICES ASSUME TypeInv, [Next]_vars PROVE TypeInv'
  OBVIOUS
<1>1. CASE Serve \/ QueryFails
  BY <1>1, ServerServes, ServedTypes, NetTypes
<1>2. CASE UNCHANGED vars
  <2>1. DatabaseTypeOK' /\ UniqueNames'
    BY <1>2, TablesSame DEF TablesInv, TypeInv, TypeOK, vars
  <2> QED  BY <1>2, <2>1 DEF vars, gui, TypeInv, TypeOK, WindowInv
<1> QED  BY <1>1, <1>2, UserTypes, NetTypes, IdleTypes DEF Next

\* A session never leaves its types: for one, no time-out is removed twice.
THEOREM SessionTypes == Spec => []TypeOK
<1>1. TypeInv => TypeOK
  BY DEF TypeInv
<1> QED  BY <1>1, TypeInit, TypeStep, PTL DEF Spec

----------------------------------------------------------------------------
(* The session *)

Inv == TypeInv /\ AuthInv /\ ChatInv

\* What has been said of the session stays true while the tables grow.
LEMMA StaysTrue ==
    ASSUME Growing, session' = session
    PROVE  /\ KnownSession => KnownSession'
           /\ \A id : Another(id) => Another(id)'
           /\ \A r : SignedIn(r) => SignedIn(r)'
           /\ \A r : OwnRequest(r) => OwnRequest(r)'
           /\ \A r : OwnReply(r) => OwnReply(r)'
<1>1. KnownSession => KnownSession'
  BY DEF Growing, KnownSession
<1>2. \A id : Another(id) => Another(id)'
  BY DEF Growing, Another
<1>3. \A r : SignedIn(r) => SignedIn(r)'
  BY <1>1 DEF SignedIn
<1>4. \A r : OwnRequest(r) => OwnRequest(r)'
  BY <1>2 DEF OwnRequest
<1>5. \A row : row \in database_fetch_user_chats(session.id)
                  => row \in database_fetch_user_chats(session.id)'
  BY ChatsStay
<1>6. ASSUME NEW r, OwnReply(r) PROVE OwnReply(r)'
  BY <1>2, <1>5, <1>6 DEF OwnReply
<1> QED  BY <1>1, <1>2, <1>3, <1>4, <1>6

LEMMA NothingTaken == UNCHANGED tables /\ chats \in Nat => Growing
BY DEF tables, Growing, UserIds

\* Steps that stay in the chat window, or out of it.
LEMMA ChatFrame ==
    ASSUME ChatInv, Growing, orderly' => orderly,
           UNCHANGED <<session, client_info, window, time_outs, timer_id>>,
           orderly /\ window = "chat" =>
               /\ \A row \in chat_list' :
                     row \in chat_list \/ row \in database_fetch_user_chats(session.id)'
               /\ \A row \in users_store' : row \in users_store \/ Another(row.id)'
               /\ SelectionInv'
               /\ \A r \in Range(requests)' : r \in Range(requests) \/ OwnRequest(r)'
               /\ \A r \in Range(replies)' : r \in Range(replies) \/ OwnReply(r)'
               /\ \A r \in Range(idle)' : r \in Range(idle) \/ OwnReply(r)'
    PROVE  ChatInv'
<1> SUFFICES ASSUME orderly', window' = "chat"
             PROVE  /\ (session = client_info)' /\ KnownSession'
                    /\ (time_outs = 1)' /\ timer_id'
                    /\ (chat_list \subseteq database_fetch_user_chats(session.id))'
                    /\ (\A row \in users_store : Another(row.id))'
                    /\ SelectionInv'
                    /\ (\A r \in Range(requests) : OwnRequest(r))'
                    /\ (\A r \in Range(replies) : OwnReply(r))'
                    /\ (\A r \in Range(idle) : OwnReply(r))'
  BY DEF ChatInv
<1>1. orderly /\ window = "chat"
  OBVIOUS
<1>2. /\ session = client_info /\ KnownSession /\ time_outs = 1 /\ timer_id
      /\ chat_list \subseteq database_fetch_user_chats(session.id)
      /\ \A row \in users_store : Another(row.id)
      /\ \A r \in Range(requests) : OwnRequest(r)
      /\ \A r \in Range(replies) : OwnReply(r)
      /\ \A r \in Range(idle) : OwnReply(r)
  BY <1>1 DEF ChatInv
<1>3. (session = client_info)' /\ KnownSession' /\ (time_outs = 1)' /\ timer_id'
  BY <1>2, StaysTrue
<1>4. (chat_list \subseteq database_fetch_user_chats(session.id))'
  BY <1>1, <1>2, ChatsStay
<1>5. (\A row \in users_store : Another(row.id))'
  BY <1>1, <1>2, StaysTrue
<1>6. (\A r \in Range(requests) : OwnRequest(r))'
  BY <1>1, <1>2, StaysTrue
<1>7. (\A r \in Range(replies) : OwnReply(r))' /\ (\A r \in Range(idle) : OwnReply(r))'
  BY <1>1, <1>2, StaysTrue
<1> QED  BY <1>1, <1>3, <1>4, <1>5, <1>6, <1>7

\* Steps out of the chat window add no callback and nothing to what is on its way.
LEMMA AuthFrame ==
    ASSUME AuthInv, Growing, orderly' => orderly, UNCHANGED window,
           orderly /\ window = "auth" =>
               /\ UNCHANGED <<session, time_outs, chat_list, users_store>>
               /\ Len(requests') + Len(replies') + Len(idle') <= 1
               /\ \A r \in Range(requests)' : r \in Range(requests)
               /\ \A r \in Range(replies)' : r \in Range(replies)
               /\ \A r \in Range(idle)' : r \in Range(idle) \/ r \in Range(replies)
    PROVE  AuthInv'
<1> SUFFICES ASSUME orderly', window' = "auth"
             PROVE  /\ (time_outs = 0 /\ chat_list = {} /\ users_store = {})'
                    /\ (Len(requests) + Len(replies) + Len(idle) <= 1)'
                    /\ (\A r \in Range(requests) : r.type \in AuthTypes)'
                    /\ (\A r \in Range(replies) : SignedIn(r))'
                    /\ (\A r \in Range(idle) : SignedIn(r))'
  BY DEF AuthInv
<1>1. orderly /\ window = "auth"
  OBVIOUS
<1>2. /\ time_outs = 0 /\ chat_list = {} /\ users_store = {}
      /\ \A r \in Range(requests) : r.type \in AuthTypes
      /\ \A r \in Range(replies) : SignedIn(r)
      /\ \A r \in Range(idle) : SignedIn(r)
  BY <1>1 DEF AuthInv
<1> QED  BY <1>1, <1>2, StaysTrue

\* A step after which the session is not orderly claims nothing.
LEMMA Disorderly == ~orderly' => AuthInv' /\ ChatInv'
BY DEF AuthInv, ChatInv

\* The selection outlasts what does not touch it.
LEMMA SelectionKept ==
    ASSUME SelectionInv, Growing, session' = session, adding' => adding,
           selected_username' = selected_username,
           \A r \in Range(idle)' : r \in Range(idle) \/ r.type # "send_add_chat"
    PROVE  SelectionInv'
BY StaysTrue DEF SelectionInv

LEMMA LengthFacts ==
    ASSUME TypeOK
    PROVE  /\ Len(requests) \in Nat /\ Len(replies) \in Nat /\ Len(idle) \in Nat
           /\ chats \in Nat
BY DEF TypeOK, DatabaseTypeOK

LEMMA SendAuthOwn ==
    ASSUME Inv, NEW type \in AuthTypes, NEW username \in Usernames, NEW password \in Digests,
           SendAuth(type, username, password)
    PROVE  AuthInv' /\ ChatInv'
<1> SUFFICES ASSUME orderly' PROVE AuthInv' /\ ChatInv'
  BY Disorderly
<1> DEFINE r == [type |-> type, username |-> username, password |-> password]
<1>1. /\ connected /\ requests = << >> /\ replies = << >> /\ idle = << >>
      /\ time_outs = 0 /\ chat_list = {} /\ users_store = {}
      /\ window = "auth" /\ Send(r) /\ UNCHANGED <<gui, idle, replies>>
  BY DEF SendAuth, Quiet
<1>2. r \in Requests /\ r.type \in AuthTypes
  BY DEF Requests, AuthTypes
<1> HIDE DEF r
<1>3. requests' = Append(requests, r) /\ requests \in Seq(Requests)
  BY <1>1 DEF Send, Inv, TypeInv, TypeOK
<1>4. Len(requests') = 1 /\ Range(requests') = {r}
  <2>1. Len(requests') = Len(requests) + 1 /\ Range(requests') = Range(requests) \cup {r}
    BY <1>2, <1>3, Appended
  <2>2. Len(requests) = 0 /\ Range(requests) = {}
    BY <1>1, Emptied
  <2> QED  BY <2>1, <2>2
<1>5. /\ Len(replies') = 0 /\ Len(idle') = 0
      /\ Range(replies') = {} /\ Range(idle') = {}
  BY <1>1, Emptied
<1>6. /\ time_outs' = 0 /\ chat_list' = {} /\ users_store' = {} /\ window' = "auth"
  BY <1>1 DEF gui
<1>7. AuthInv'
  BY <1>2, <1>4, <1>5, <1>6 DEF AuthInv
<1> QED  BY <1>6, <1>7 DEF ChatInv

LEMMA LogOutOwn == Inv /\ LogOut => AuthInv' /\ ChatInv'
<1> SUFFICES ASSUME Inv, LogOut, orderly' PROVE AuthInv' /\ ChatInv'
  BY Disorderly
<1>1. /\ orderly /\ window = "chat" /\ requests = << >> /\ replies = << >> /\ idle = << >>
      /\ time_outs' = IF timer_id THEN time_outs - 1 ELSE time_outs
      /\ chat_list' = {} /\ users_store' = {} /\ window' = "auth"
      /\ UNCHANGED <<idle, requests, replies>>
  BY DEF LogOut, Quiet
<1>2. time_outs = 1 /\ timer_id
  BY <1>1 DEF Inv, ChatInv
<1>3. time_outs' = 0
  BY <1>1, <1>2
<1>4. /\ Len(requests') = 0 /\ Len(replies') = 0 /\ Len(idle') = 0
      /\ Range(requests') = {} /\ Range(replies') = {} /\ Range(idle') = {}
  BY <1>1, Emptied
<1>5. AuthInv'
  BY <1>1, <1>3, <1>4 DEF AuthInv
<1> QED  BY <1>1, <1>5 DEF ChatInv

\* What the user does in the chat window.
LEMMA UserOwn == Inv /\ (UserActs \/ PollChats) => AuthInv' /\ ChatInv'
<1> SUFFICES ASSUME Inv, UserActs \/ PollChats PROVE AuthInv' /\ ChatInv'
  OBVIOUS
<1> USE DEF Inv
<1>1. TypeOK /\ (adding => window = "chat")
  BY DEF TypeInv, WindowInv
<1>2. ASSUME UNCHANGED <<tables, session, client_info, window, time_outs, timer_id, orderly,
                         chat_list, users_store, replies>>,
             orderly => window = "chat",
             orderly =>
                 /\ SelectionInv'
                 /\ \A r \in Range(requests)' : r \in Range(requests) \/ OwnRequest(r)'
                 /\ \A r \in Range(idle)' : r \in Range(idle) \/ OwnReply(r)'
      PROVE  AuthInv' /\ ChatInv'
  <2>1. Growing
    BY <1>1, <1>2, NothingTaken, LengthFacts
  <2>2. ChatInv'
    BY <1>2, <2>1, ChatFrame
  <2>3. AuthInv'
    BY <1>2 DEF AuthInv
  <2> QED  BY <2>2, <2>3
<1>3. ASSUME NEW password \in Digests, ChangePassword(password) PROVE AuthInv' /\ ChatInv'
  <2> DEFINE r == [type |-> "UPDATE_USER", password |-> password]
  <2>1. r \in Requests /\ OwnRequest(r)'
    BY DEF Requests, OwnRequest, AuthTypes
  <2> HIDE DEF r
  <2>2. Range(requests') \subseteq Range(requests) \cup {r}
    BY <1>1, <1>3, <2>1, Sent DEF ChangePassword, r
  <2>3. orderly /\ window = "chat" => SelectionInv'
    <3>1. UNCHANGED <<tables, session, adding, selected_username, idle>>
      BY <1>3 DEF ChangePassword, gui
    <3>2. orderly /\ window = "chat" => SelectionInv
      BY DEF ChatInv
    <3> QED  BY <1>1, <3>1, <3>2, SelectionKept, NothingTaken, LengthFacts
  <2> QED  BY <1>2, <1>3, <2>1, <2>2, <2>3 DEF ChangePassword, gui
<1>4. CASE PollChats
  <2> DEFINE r == [type |-> "GET_CHATS"]
  <2>1. r \in Requests /\ OwnRequest(r)'
    BY DEF Requests, OwnRequest, AuthTypes
  <2> HIDE DEF r
  <2>2. Range(requests') \subseteq Range(requests) \cup {r}
    BY <1>1, <1>4, <2>1, Sent DEF PollChats, r
  <2>3. orderly => window = "chat"
    BY <1>1, <1>4 DEF PollChats, AuthInv, TypeOK
  <2>4. orderly => SelectionInv'
    <3>1. UNCHANGED <<tables, session, adding, selected_username, idle>>
      BY <1>4 DEF PollChats, gui
    <3>2. orderly => SelectionInv
      BY <2>3 DEF ChatInv
    <3> QED  BY <1>1, <3>1, <3>2, SelectionKept, NothingTaken, LengthFacts
  <2> QED  BY <1>2, <1>4, <2>1, <2>2, <2>3, <2>4 DEF PollChats, gui
<1>5. CASE ShowAddChat
  <2> DEFINE e == [type |-> "send_get_users"]
  <2>1. e \in Callbacks /\ OwnReply(e)'
    BY DEF Callbacks, OwnReply, AuthTypes
  <2> HIDE DEF e
  <2>2. Range(idle') = Range(idle) \cup {e}
    BY <1>1, <1>5, <2>1, Appended DEF ShowAddChat, TypeOK, e
  <2>3. orderly => SelectionInv'
    <3>1. orderly /\ window = "chat" => KnownSession
      BY DEF ChatInv
    <3>2. session.id \in UserIds => session.id # 0
      BY <1>1, UserTyped DEF TypeOK
    <3>3. UNCHANGED <<users, session>> /\ selected_username' = 0 /\ window = "chat"
      BY <1>5 DEF ShowAddChat, tables
    <3> QED  BY <3>1, <3>2, <3>3 DEF KnownSession, SelectionInv, Another, UserIds
  <2> QED  BY <1>2, <1>5, <2>1, <2>2, <2>3 DEF ShowAddChat
<1>6. CASE CreateChat
  <2> DEFINE e == [type |-> "send_add_chat"]
  <2>1. e \in Callbacks /\ OwnReply(e)'
    BY DEF Callbacks, OwnReply, AuthTypes
  <2> HIDE DEF e
  <2>2. Range(idle') = Range(idle) \cup {e}
    BY <1>1, <1>6, <2>1, Appended DEF CreateChat, TypeOK, e
  <2>3. orderly => SelectionInv'
    <3>1. orderly => Another(selected_username)
      BY <1>1, <1>6 DEF CreateChat, ChatInv, SelectionInv
    <3>2. UNCHANGED <<users, session, selected_username>>
      BY <1>6 DEF CreateChat, tables, gui
    <3> QED  BY <3>1, <3>2 DEF SelectionInv, Another, UserIds
  <2> QED  BY <1>1, <1>2, <1>6, <2>1, <2>2, <2>3 DEF CreateChat, gui
<1>7. CASE HideAddChat
  <2>1. orderly => SelectionInv'
    <3>1. orderly => Another(selected_username)
      BY <1>1, <1>7 DEF HideAddChat, ChatInv, SelectionInv
    <3>2. UNCHANGED <<users, session, selected_username>>
      BY <1>7 DEF HideAddChat, tables
    <3> QED  BY <3>1, <3>2 DEF SelectionInv, Another, UserIds
  <2> QED  BY <1>1, <1>2, <1>7, <2>1 DEF HideAddChat
<1>8. ASSUME NEW row \in users_store, SelectUser(row) PROVE AuthInv' /\ ChatInv'
  <2>1. orderly => SelectionInv'
    <3>1. orderly => Another(row.id)
      BY <1>1, <1>8 DEF SelectUser, ChatInv
    <3>2. UNCHANGED <<users, session>> /\ selected_username' = row.id
      BY <1>8 DEF SelectUser, tables
    <3> QED  BY <3>1, <3>2 DEF SelectionInv, Another, UserIds
  <2> QED  BY <1>1, <1>2, <1>8, <2>1 DEF SelectUser
<1> QED
  BY <1>3, <1>4, <1>5, <1>6, <1>7, <1>8, SendAuthOwn, LogOutOwn
     DEF UserActs, SignIn, SignUp, AuthTypes

\* What the server answers.
LEMMA ServedOwn == Inv /\ Served => AuthInv' /\ ChatInv'
<1> SUFFICES ASSUME Inv, Served PROVE AuthInv' /\ ChatInv'
  OBVIOUS
<1> USE DEF Inv
<1>1. PICK rows, e : /\ Answer(rows) /\ Fits(Head(requests).type, rows)
                     /\ e = [type |-> Head(requests).type, rows |-> rows]
  BY DEF Served
<1>2. /\ requests # << >> /\ Growing /\ TypeOK /\ UNCHANGED <<gui, idle, connected, orderly>>
      /\ e \in Replies /\ Head(requests) \in Range(requests)
      /\ window \in {"auth", "chat"}
  BY <1>1, Taken DEF Served, Fits, TypeInv, TypeOK, Answer
<1>3. /\ Len(requests') = Len(requests) - 1 /\ Len(replies') = Len(replies) + 1
      /\ Range(requests') \subseteq Range(requests)
      /\ Range(replies') = Range(replies) \cup {e}
  BY <1>1, <1>2, AnswerQueued
<1>4. Len(requests) \in Nat \ {0} /\ Len(replies) \in Nat /\ Len(idle) \in Nat
  BY <1>2, Taken, LengthFacts DEF TypeOK
<1>5. CASE orderly /\ window = "auth"
  <2>1. /\ time_outs = 0 /\ chat_list = {} /\ users_store = {}
        /\ Len(requests) + Len(replies) + Len(idle) <= 1
        /\ \A r \in Range(requests) : r.type \in AuthTypes
    BY <1>5 DEF AuthInv
  <2>2. Len(replies) = 0 /\ Len(idle) = 0
    BY <1>4, <2>1
  <2>3. replies = << >> /\ idle = << >>
    BY <1>2, <2>2, EmptyQueue DEF TypeOK
  <2>4. Range(replies') = {e} /\ Range(idle') = {}
    BY <1>2, <1>3, <2>3, Emptied
  <2>5. SignedIn(e)'
    BY <1>1, <1>2, <2>1 DEF Fits, SignedIn
  <2>6. Len(requests') + Len(replies') + Len(idle') <= 1
    BY <1>2, <1>3, <1>4, <2>1
  <2>7. AuthInv'
    BY <1>2, <1>3, <2>1, <2>4, <2>5, <2>6 DEF AuthInv, gui
  <2> QED  BY <1>2, <1>5, <2>7 DEF ChatInv, gui
<1>6. CASE orderly /\ window = "chat"
  <2>1. Head(requests).type \notin AuthTypes /\ KnownSession /\ SelectionInv
    BY <1>2, <1>6 DEF ChatInv, OwnRequest
  <2>2. session' = session
    BY <1>1, <2>1 DEF Fits
  <2>3. OwnReply(e)'
    BY <1>1, <2>1, <2>2 DEF Fits, OwnReply
  <2>4. SelectionInv'
    BY <1>2, <2>1, <2>2, StaysTrue DEF SelectionInv, gui
  <2>5. ChatInv'
    <3>1. UNCHANGED <<session, client_info, window, time_outs, timer_id, chat_list,
                      users_store, orderly, idle>>
      BY <1>2, <2>2 DEF gui
    <3>2. \A r \in Range(requests)' : r \in Range(requests)
      BY <1>3
    <3>3. \A r \in Range(replies)' : r \in Range(replies) \/ OwnReply(r)'
      BY <1>3, <2>3
    <3> QED  BY <1>2, <2>4, <3>1, <3>2, <3>3, ChatFrame
  <2> QED  BY <1>2, <1>6, <2>5 DEF AuthInv, gui
<1> QED  BY <1>2, <1>5, <1>6, Disorderly

\* The connection and the other users.
LEMMA NetOwn ==
    Inv /\ (NullCrash \/ OthersAddChat \/ ConnectionLost \/ Reconnects
            \/ ReplyLost \/ ReplyQueued) => AuthInv' /\ ChatInv'
<1> SUFFICES ASSUME Inv, NullCrash \/ OthersAddChat \/ ConnectionLost \/ Reconnects
                         \/ ReplyLost \/ ReplyQueued
             PROVE  AuthInv' /\ ChatInv'
  OBVIOUS
<1> USE DEF Inv
<1>1. TypeOK /\ (orderly => connected)
  BY DEF TypeInv, WindowInv
<1>2. CASE NullCrash \/ ConnectionLost \/ Reconnects
  BY <1>1, <1>2, Disorderly DEF NullCrash, ConnectionLost, Reconnects, Disconnect
<1>3. CASE OthersAddChat
  <2>1. Growing
    <3>1. \A id \in UserIds : id \in Nat
      BY <1>1, UserTyped DEF TypeOK
    <3> QED  BY <1>3, <3>1, ChatAdded, TypeFacts DEF OthersAddChat
  <2>2. UNCHANGED <<gui, idle, requests, replies, session, connected, faults, orderly>>
    BY <1>3 DEF OthersAddChat
  <2>3. AuthInv'
    BY <2>1, <2>2, StaysTrue DEF AuthInv, gui
  <2>4. SelectionInv => SelectionInv'
    BY <2>1, <2>2, SelectionKept DEF gui
  <2>5. ChatInv'
    <3>1. orderly /\ window = "chat" => SelectionInv'
      BY <2>4 DEF ChatInv
    <3> QED  BY <2>1, <2>2, <3>1, ChatFrame DEF gui
  <2> QED  BY <2>3, <2>5
<1>4. CASE ReplyLost \/ ReplyQueued
  <2>1. /\ replies # << >> /\ replies' = Tail(replies)
        /\ idle' = idle \/ idle' = Append(idle, Head(replies))
        /\ UNCHANGED <<tables, gui, requests, session, orderly>>
    BY <1>4 DEF ReplyLost, ReplyQueued
  <2>2. /\ Len(replies) \in Nat \ {0} /\ Len(replies') = Len(replies) - 1
        /\ Range(replies') \subseteq Range(replies)
        /\ Head(replies) \in Replies /\ Head(replies) \in Range(replies)
    BY <1>1, <2>1, Taken DEF TypeOK
  <2>3. Head(replies) \in Callbacks /\ Head(replies).type # "send_add_chat"
    BY <2>2 DEF Callbacks, Replies
  <2>4. /\ Len(idle') \in {Len(idle), Len(idle) + 1}
        /\ Range(idle') \subseteq Range(idle) \cup {Head(replies)}
    <3>1. CASE idle' = idle
      BY <3>1
    <3>2. CASE idle' = Append(idle, Head(replies))
      <4>1. idle \in Seq(Callbacks)
        BY <1>1 DEF TypeOK
      <4>2. Len(idle') = Len(idle) + 1 /\ Range(idle') = Range(idle) \cup {Head(replies)}
        BY <2>3, <3>2, <4>1, Appended
      <4> QED  BY <4>2
    <3> QED  BY <2>1, <3>1, <3>2
  <2>5. Growing
    BY <1>1, <2>1, NothingTaken, LengthFacts
  <2>6. AuthInv'
    <3>1. Len(requests) + Len(replies) + Len(idle) <= 1
             => Len(requests') + Len(replies') + Len(idle') <= 1
      BY <1>1, <2>1, <2>2, <2>4, LengthFacts
    <3>2. orderly /\ window = "auth" => Len(requests') + Len(replies') + Len(idle') <= 1
      BY <3>1 DEF AuthInv
    <3> QED  BY <2>1, <2>2, <2>4, <2>5, <3>2, AuthFrame DEF gui
  <2>7. ChatInv'
    <3>1. orderly /\ window = "chat" => SelectionInv /\ \A r \in Range(replies) : OwnReply(r)
      BY DEF ChatInv
    <3>2. orderly /\ window = "chat" => SelectionInv'
      BY <2>1, <2>3, <2>4, <2>5, <3>1, SelectionKept DEF gui
    <3>3. orderly /\ window = "chat" =>
             \A r \in Range(idle)' : r \in Range(idle) \/ OwnReply(r)'
      BY <2>1, <2>2, <2>4, <2>5, <3>1, StaysTrue
    <3> QED  BY <2>1, <2>2, <2>5, <3>2, <3>3, ChatFrame DEF gui
  <2> QED  BY <2>6, <2>7
<1> QED  BY <1>2, <1>3, <1>4

\* A sign-in that is answered opens the chat window of the session's user.
LEMMA OpenChatOwn ==
    ASSUME Inv, orderly, NEW type \in AuthTypes, OpenChat(type)
    PROVE  AuthInv' /\ ChatInv'
<1> USE DEF Inv
<1>1. /\ TypeOK /\ Len(requests) \in Nat /\ Len(replies) \in Nat
      /\ (adding => window = "chat") /\ window \in {"auth", "chat"}
  BY LengthFacts DEF TypeInv, WindowInv, TypeOK
<1>2. /\ Head(idle).type = type /\ Head(idle) \in Range(idle)
      /\ idle' \in Seq(Callbacks) /\ Range(idle') \subseteq Range(idle)
      /\ Len(idle) \in Nat \ {0} /\ Len(idle') = Len(idle) - 1
      /\ UNCHANGED <<tables, session, connected, faults, orderly>>
      /\ UNCHANGED <<chat_list, users_store, adding, selected_username, requests, replies>>
  BY <1>1, CallbackRun DEF OpenChat
<1>3. window = "auth"
  BY <1>1, <1>2 DEF ChatInv, OwnReply
<1>4. /\ time_outs = 0 /\ chat_list = {} /\ users_store = {} /\ SignedIn(Head(idle))
      /\ Len(requests) + Len(replies) + Len(idle) <= 1
  BY <1>2, <1>3 DEF AuthInv
<1>5. Growing
  BY <1>1, <1>2, NothingTaken, LengthFacts
<1>6. CASE Rows = {}
  <2>1. UNCHANGED <<client_info, window, time_outs, timer_id>>
    BY <1>6 DEF OpenChat
  <2>2. Len(requests') + Len(replies') + Len(idle') <= 1
    BY <1>1, <1>2, <1>4
  <2>3. AuthInv'
    BY <1>2, <1>5, <2>1, <2>2, AuthFrame
  <2> QED  BY <1>3, <2>1, <2>3 DEF ChatInv
<1>7. CASE Rows # {}
  <2>1. client_info' \in Rows /\ window' = "chat" /\ time_outs' = time_outs + 1
    BY <1>7 DEF OpenChat
  <2>2. timer_id'
    BY <1>7 DEF OpenChat
  <2>3. client_info' = session /\ KnownSession
    BY <1>4, <2>1 DEF SignedIn, Rows
  <2>4. Len(requests') = 0 /\ Len(replies') = 0 /\ Len(idle') = 0
    BY <1>1, <1>2, <1>4
  <2>5. requests' = << >> /\ replies' = << >> /\ idle' = << >>
    BY <1>1, <1>2, <2>4, EmptyQueue DEF TypeOK
  <2>6. Range(requests') = {} /\ Range(replies') = {} /\ Range(idle') = {}
    BY <2>5, Emptied
  <2>7. KnownSession' /\ (session = client_info)' /\ (time_outs = 1)'
    BY <1>2, <1>4, <1>5, <2>1, <2>3, StaysTrue
  <2>8. SelectionInv'
    BY <1>1, <1>2, <1>3, <2>6 DEF SelectionInv
  <2>9. chat_list' = {} /\ users_store' = {}
    BY <1>2, <1>4
  <2>10. ChatInv'
    BY <2>2, <2>6, <2>7, <2>8, <2>9 DEF ChatInv
  <2> QED  BY <2>1, <2>10 DEF AuthInv
<1> QED  BY <1>6, <1>7

LEMMA IdleOwn == Inv /\ RunIdle => AuthInv' /\ ChatInv'
<1> SUFFICES ASSUME Inv, RunIdle, orderly' PROVE AuthInv' /\ ChatInv'
  BY Disorderly
<1> USE DEF Inv
<1>1. CASE OpenChat("LOGIN") \/ OpenChat("REGISTER")
  <2>1. orderly
    BY <1>1 DEF OpenChat, Runs
  <2> QED  BY <1>1, <2>1, OpenChatOwn DEF AuthTypes
<1>2. CASE \/ send_get_users_for_search_request_idle \/ send_add_chat_request_idle
           \/ PasswordChanged \/ handle_get_users_for_search_response
           \/ handle_add_chat_response \/ handle_get_chats_response
  <2>1. PICK type : Runs(type) /\ type \notin AuthTypes
    BY <1>2
       DEF send_get_users_for_search_request_idle, send_add_chat_request_idle,
           PasswordChanged, handle_get_users_for_search_response, handle_add_chat_response,
           handle_get_chats_response, AuthTypes
  <2>2. TypeOK /\ window \in {"auth", "chat"}
    BY DEF TypeInv, TypeOK
  <2>3. /\ Head(idle).type = type /\ Head(idle) \in Range(idle)
        /\ Range(idle') \subseteq Range(idle)
        /\ UNCHANGED <<tables, session, connected, faults, orderly>>
    BY <2>1, <2>2, CallbackRun
  <2>4. orderly /\ window = "chat"
    BY <2>1, <2>2, <2>3 DEF AuthInv, SignedIn
  <2>5. Growing
    BY <2>2, <2>3, NothingTaken, LengthFacts
  <2>6. OwnReply(Head(idle)) /\ SelectionInv
    BY <2>3, <2>4 DEF ChatInv
  <2>7. UNCHANGED <<adding, selected_username>> => SelectionInv'
    BY <2>3, <2>5, <2>6, SelectionKept
  <2>8. CASE send_get_users_for_search_request_idle
    <3> DEFINE r == [type |-> "GET_USERS_FOR_SEARCH"]
    <3>1. r \in Requests /\ OwnRequest(r)'
      BY DEF Requests, OwnRequest, AuthTypes
    <3>2. UNCHANGED <<gui, replies>> /\ Send(r)
      BY <2>8 DEF send_get_users_for_search_request_idle
    <3> HIDE DEF r
    <3>3. Range(requests') \subseteq Range(requests) \cup {r}
      BY <2>2, <3>1, <3>2, Sent
    <3>4. ChatInv'
      BY <2>3, <2>5, <2>7, <3>1, <3>2, <3>3, ChatFrame DEF gui
    <3> QED  BY <2>4, <3>2, <3>4 DEF AuthInv, gui
  <2>9. CASE send_add_chat_request_idle
    <3>1. PICK r : r = [type |-> "ADD_CHAT", invitee_user_id |-> selected_username]
      OBVIOUS
    <3>2. /\ Send(r) /\ adding' = FALSE
          /\ UNCHANGED <<client_info, window, time_outs, timer_id, chat_list, users_store,
                         selected_username, replies>>
          /\ Head(idle).type = "send_add_chat"
      BY <2>9, <3>1 DEF send_add_chat_request_idle, Runs
    <3>3. Another(selected_username)
      BY <2>3, <2>6, <3>2 DEF SelectionInv
    <3>4. r \in Requests /\ OwnRequest(r)
      BY <2>2, <3>1, <3>3 DEF Requests, OwnRequest, AuthTypes, TypeOK
    <3>5. Range(requests') \subseteq Range(requests) \cup {r}
      BY <2>2, <3>2, <3>4, Sent
    <3>6. OwnRequest(r)'
      BY <2>3, <2>5, <3>4, StaysTrue
    <3>7. SelectionInv'
      BY <2>3, <2>5, <2>6, <3>2, SelectionKept
    <3>8. ChatInv'
      BY <2>3, <2>5, <3>2, <3>5, <3>6, <3>7, ChatFrame
    <3> QED  BY <2>4, <3>2, <3>8 DEF AuthInv
  <2>10. CASE PasswordChanged
    <3>1. /\ IF Rows = {} THEN UNCHANGED client_info ELSE client_info' \in Rows
          /\ UNCHANGED <<window, time_outs, timer_id, chat_list, users_store, adding,
                         selected_username, requests, replies>>
          /\ Head(idle).type = "UPDATE_USER"
      BY <2>10 DEF PasswordChanged, Runs
    <3>2. Rows \subseteq {session} /\ session = client_info
      BY <2>4, <2>6, <3>1 DEF OwnReply, Rows, ChatInv
    <3>3. client_info' = client_info
      BY <3>1, <3>2
    <3>4. ChatInv'
      BY <2>3, <2>5, <2>7, <3>1, <3>3, ChatFrame
    <3> QED  BY <2>4, <3>1, <3>4 DEF AuthInv
  <2>11. CASE handle_get_users_for_search_response
    <3>1. /\ users_store' = IF Rows = {} THEN users_store ELSE Rows
          /\ UNCHANGED <<client_info, window, time_outs, timer_id, chat_list, adding,
                         requests, replies>>
          /\ Head(idle).type = "GET_USERS_FOR_SEARCH"
          /\ selected_username' \in {selected_username} \cup {row.id : row \in users_store}
      BY <2>11 DEF handle_get_users_for_search_response, UsersCleared, Runs
    <3>2. \A row \in Rows : Another(row.id)
      BY <2>6, <3>1 DEF OwnReply, Rows
    <3>3. \A row \in users_store' : row \in users_store \/ Another(row.id)'
      BY <2>3, <2>5, <3>1, <3>2, StaysTrue
    <3>4. SelectionInv'
      <4>1. \A row \in users_store : Another(row.id)
        BY <2>4 DEF ChatInv
      <4>2. CASE selected_username' = selected_username
        BY <2>7, <3>1, <4>2
      <4>3. CASE \E row \in users_store : selected_username' = row.id
        <5>1. Another(selected_username')
          BY <4>1, <4>3
        <5> QED  BY <2>3, <2>5, <5>1 DEF SelectionInv, Another, Growing
      <4> QED  BY <3>1, <4>2, <4>3
    <3>5. ChatInv'
      BY <2>3, <2>5, <3>1, <3>3, <3>4, ChatFrame
    <3> QED  BY <2>4, <3>1, <3>5 DEF AuthInv
  <2>12. CASE handle_add_chat_response
    <3>1. UNCHANGED <<gui, requests, replies>>
      BY <2>12 DEF handle_add_chat_response
    <3>2. ChatInv'
      BY <2>3, <2>5, <2>7, <3>1, ChatFrame DEF gui
    <3> QED  BY <2>4, <3>1, <3>2 DEF AuthInv, gui
  <2>13. CASE handle_get_chats_response
    <3>1. /\ chat_list' \subseteq chat_list \cup Rows
          /\ UNCHANGED <<client_info, window, time_outs, timer_id, users_store, adding,
                         selected_username, requests, replies>>
          /\ Head(idle).type = "GET_CHATS"
      BY <2>13 DEF handle_get_chats_response, Runs
    <3>2. Rows \subseteq database_fetch_user_chats(session.id)
      BY <2>6, <3>1 DEF OwnReply, Rows
    <3>3. \A row \in chat_list' :
             row \in chat_list \/ row \in database_fetch_user_chats(session.id)'
      BY <2>3, <2>5, <3>1, <3>2, ChatsStay
    <3>4. ChatInv'
      BY <2>3, <2>5, <2>7, <3>1, <3>3, ChatFrame
    <3> QED  BY <2>4, <3>1, <3>4 DEF AuthInv
  <2> QED  BY <1>2, <2>8, <2>9, <2>10, <2>11, <2>12, <2>13
<1> QED  BY <1>1, <1>2 DEF RunIdle

LEMMA SessionInit == Init => Inv
<1> SUFFICES ASSUME Init PROVE AuthInv /\ ChatInv
  BY TypeInit DEF Inv
<1>1. /\ Len(requests) = 0 /\ Len(replies) = 0 /\ Len(idle) = 0
      /\ Range(requests) = {} /\ Range(replies) = {} /\ Range(idle) = {}
  BY Emptied DEF Init
<1> QED  BY <1>1 DEF Init, AuthInv, ChatInv

LEMMA SessionStep == Inv /\ [Next]_vars => Inv'
<1> SUFFICES ASSUME Inv, [Next]_vars PROVE AuthInv' /\ ChatInv'
  BY TypeStep DEF Inv
<1>1. CASE Serve \/ QueryFails
  BY <1>1, ServerServes, ServedOwn, NetOwn DEF Inv
<1>2. CASE UNCHANGED vars
  <2>1. UNCHANGED <<tables, gui, idle, requests, replies, session, orderly>>
    BY <1>2 DEF vars
  <2>2. Growing
    BY <2>1, NothingTaken, LengthFacts DEF Inv, TypeInv
  <2>3. AuthInv'
    BY <2>1, <2>2, StaysTrue DEF AuthInv, Inv, gui
  <2>4. ChatInv'
    <3>1. orderly /\ window = "chat" => SelectionInv'
      BY <2>1, <2>2, SelectionKept DEF ChatInv, Inv, gui
    <3> QED  BY <2>1, <2>2, <3>1, ChatFrame DEF Inv, gui
  <2> QED  BY <2>3, <2>4
<1> QED  BY <1>1, <1>2, UserOwn, NetOwn, IdleOwn DEF Next

LEMMA SessionInvariant == Spec => []Inv
BY SessionInit, SessionStep, PTL DEF Spec

\* After an orderly sign-in the server serves, and the list shows, one user.
THEOREM SessionAgrees == Spec => []ShownUserIsServed
<1>1. Inv => ShownUserIsServed
  BY DEF Inv, ChatInv, ShownUserIsServed
<1> QED  BY <1>1, SessionInvariant, PTL

\* After an orderly log-out no time-out runs and no list is left.
THEOREM LogOutCompletes == Spec => []LoggedOutIsSilent
<1>1. Inv => LoggedOutIsSilent
  BY DEF Inv, AuthInv, LoggedOutIsSilent
<1> QED  BY <1>1, SessionInvariant, PTL

\* Whoever is invited is another user, or none.
THEOREM InvitationsAreToOthers == Spec => []InviteesAreOthers
<1>1. Inv => InviteesAreOthers
  <2> SUFFICES ASSUME Inv, orderly, NEW i \in DOMAIN requests, requests[i].type = "ADD_CHAT"
               PROVE  requests[i].invitee_user_id \in (UserIds \cup {0}) \ {session.id}
    BY DEF InviteesAreOthers
  <2>1. requests[i] \in Range(requests) /\ window \in {"auth", "chat"}
    BY DEF Range, Inv, TypeInv, TypeOK
  <2>2. OwnRequest(requests[i])
    BY <2>1 DEF Inv, AuthInv, ChatInv, AuthTypes
  <2> QED  BY <2>2 DEF OwnRequest, Another
<1> QED  BY <1>1, SessionInvariant, PTL
=============================================================================
