------------------------- MODULE UchatClientSession -------------------------
(***************************************************************************)
(* The session of a uChat client, on both sides of its connection: signing *)
(* in and up, changing the password, the list of chats that a time-out     *)
(* polls every second, the window that creates a chat, logging out; and    *)
(* the t_client_info of the server's thread, which is all the server knows *)
(* of who is asking (the credentials of a request are only read at LOGIN). *)
(*                                                                         *)
(* A request of this connection takes effect in one step (UchatServer has  *)
(* the statements, and Implements justifies the step).  A reply passes the *)
(* controller and data_queue, where it may get lost (UchatTransport), and  *)
(* waits with the other callbacks of the GTK main loop in idle.  Names and *)
(* passwords are those the windows accept, a password being its digest.    *)
(* The messages of a selected chat are in UchatMessageView.                *)
(***************************************************************************)
EXTENDS UchatDatabase

CONSTANTS
    InitUsers,      \* the rows of users at first
    GarbageIds,     \* what t_client_info.id may hold before it is assigned
    Garbage,        \* what a username pointer that is not valid points at
    MaxChats,       \* bound: no chat is asked for once there are so many
    MaxInFlight,    \* bound on what the user has sent and the client not handled
    MaxPolls,       \* the same for GET_CHATS
    MaxTimeOuts,    \* bound: nobody signs in while so many time-outs run
    MaxFaults       \* bound on lost connections, lost replies and failed queries

ASSUME SessionAssumption ==
    /\ InitUsers \in Seq(UserRow)
    /\ \A i, j \in DOMAIN InitUsers : InitUsers[i].username = InitUsers[j].username => i = j
    /\ GarbageIds \subseteq Nat /\ Garbage \notin Usernames
    /\ MaxChats \in Nat /\ MaxInFlight \in Nat /\ MaxPolls \in Nat
    /\ MaxTimeOuts \in Nat /\ MaxFaults \in Nat

VARIABLES
    client_info,        \* [id, username] of the client, as last received
    window,             \* "auth": signing in or up, "chat": our_chat
    time_outs,          \* number of time-outs that run chats_store_update
    timer_id,           \* whether timer_id is the id of one of them
    chat_list,          \* its rows, which are those of chats_store
    users_store,
    adding,             \* add_chat_window, which is modal, is shown
    selected_username,  \* in fact the id of the user selected, or 0
    idle,               \* callbacks handed to g_idle_add_full
    requests, replies,  \* sent and not handled by the server, by the GTK thread
    session,            \* [id, username] of the server's thread
    connected, faults,
    orderly             \* history, see Quiet

gui == <<client_info, window, time_outs, timer_id, chat_list, users_store,
         adding, selected_username>>
vars == <<tables, gui, idle, requests, replies, session, connected, faults, orderly>>

\* Nothing assigned yet, or freed by a log-out (the id it leaves is not read).
NoClient == [id |-> 0, username |-> Garbage]

\* Rows of an answer, requests, and answers as the client gets them.
UserRows == [id : Nat, username : Usernames]
ChatRows == [id : Nat, title : Usernames]
Sessions == [id : Nat, username : Usernames \cup {Garbage}]

Requests ==
    [type : {"LOGIN", "REGISTER"}, username : Usernames, password : Digests]
    \cup [type : {"UPDATE_USER"}, password : Digests]
    \cup [type : {"GET_USERS_FOR_SEARCH", "GET_CHATS"}]
    \cup [type : {"ADD_CHAT"}, invitee_user_id : Nat]

Replies ==
    [type : {"LOGIN", "REGISTER", "UPDATE_USER", "GET_USERS_FOR_SEARCH"},
     rows : SUBSET UserRows]
    \cup [type : {"GET_CHATS", "ADD_CHAT"}, rows : SUBSET ChatRows]

Callbacks == Replies \cup [type : {"send_get_users", "send_add_chat"}]

Init ==
    /\ users = InitUsers /\ chats = 0 /\ members = {} /\ messages = << >>
    /\ client_info = NoClient /\ window = "auth"
    /\ time_outs = 0 /\ timer_id = FALSE
    /\ chat_list = {} /\ users_store = {}
    /\ adding = FALSE /\ selected_username = 0
    /\ idle = << >> /\ requests = << >> /\ replies = << >>
    /\ session \in [id : GarbageIds, username : {Garbage}]
    /\ connected = TRUE /\ faults = 0 /\ orderly = TRUE

----------------------------------------------------------------------------
(* What went before *)

\* Nothing of what the client has sent or received is still to be handled.  The
\* history orderly is TRUE when the last sign-in was sent in a quiet state with
\* nothing left of an earlier user, when since then the connection has not been
\* lost, and when the log-out, if there was one, also found the client quiet.
Quiet == connected /\ requests = << >> /\ replies = << >> /\ idle = << >>

----------------------------------------------------------------------------
(* Requests of the user *)

\* What is written to a connection that is lost is lost.
Send(r) == requests' = IF connected THEN Append(requests, r) ELSE requests

InFlight(polls) ==
    LET poll(r) == (r.type = "GET_CHATS") = polls
    IN  Len(SelectSeq(requests, poll)) + Len(SelectSeq(replies, poll))
        + Len(SelectSeq(idle, poll))

MaySend == InFlight(FALSE) < MaxInFlight

\* onSignInClicked, onSignUpClicked.  The username they assign to client_info is
\* not read before the reply assigns it again, with the id: left out.
SendAuth(type, username, password) ==
    /\ window = "auth" /\ MaySend /\ time_outs < MaxTimeOuts
    /\ Send([type |-> type, username |-> username, password |-> password])
    /\ orderly' = (Quiet /\ time_outs = 0 /\ chat_list = {} /\ users_store = {})
    /\ UNCHANGED <<tables, gui, idle, replies, session, connected, faults>>

SignIn(username, password) == SendAuth("LOGIN", username, password)

SignUp(username, password) == SendAuth("REGISTER", username, password)

\* onChangeButtonOnPasswButtonClicked
ChangePassword(password) ==
    /\ window = "chat" /\ ~adding /\ MaySend
    /\ Send([type |-> "UPDATE_USER", password |-> password])
    /\ UNCHANGED <<tables, gui, idle, replies, session, connected, faults, orderly>>

\* [mutant] chats_store_update does not return TRUE
PollChatsOnce ==
    /\ time_outs > 0 /\ InFlight(TRUE) < MaxPolls
    /\ connected
    /\ Send([type |-> "GET_CHATS"])
    /\ time_outs' = time_outs - 1
    /\ UNCHANGED <<tables, client_info, window, timer_id, chat_list, users_store, adding,
                   selected_username, idle, replies, session, connected, faults, orderly>>

\* chats_store_update
PollChats ==
    /\ time_outs > 0 /\ InFlight(TRUE) < MaxPolls
    /\ connected
    /\ Send([type |-> "GET_CHATS"])
    /\ UNCHANGED <<tables, gui, idle, replies, session, connected, faults, orderly>>

\* [mutant] the user selected when the window was last shown stays selected
ShowAddChatKeepsSelection ==
    /\ window = "chat" /\ ~adding /\ MaySend
    /\ adding' = TRUE
    /\ idle' = Append(idle, [type |-> "send_get_users"])
    /\ UNCHANGED <<tables, client_info, window, time_outs, timer_id, chat_list, users_store,
                   selected_username, requests, replies, session, connected, faults, orderly>>

\* onAddChatButtonClicked; users_store still shows the last list received.
ShowAddChat ==
    /\ window = "chat" /\ ~adding /\ MaySend
    /\ adding' = TRUE /\ selected_username' = 0
    /\ idle' = Append(idle, [type |-> "send_get_users"])
    /\ UNCHANGED <<tables, client_info, window, time_outs, timer_id, chat_list, users_store,
                   requests, replies, session, connected, faults, orderly>>

\* on_users_selection_changed
SelectUser(row) ==
    /\ adding /\ row \in users_store
    /\ selected_username' = row.id
    /\ UNCHANGED <<tables, client_info, window, time_outs, timer_id, chat_list, users_store,
                   adding, idle, requests, replies, session, connected, faults, orderly>>

\* onCreateChatButtonClicked
CreateChat ==
    /\ adding /\ MaySend /\ chats < MaxChats
    /\ idle' = Append(idle, [type |-> "send_add_chat"])
    /\ UNCHANGED <<tables, gui, requests, replies, session, connected, faults, orderly>>

\* onAddChatGoBackButtonClicked, onAddChatWindowClose
HideAddChat ==
    /\ adding
    /\ adding' = FALSE
    /\ UNCHANGED <<tables, client_info, window, time_outs, timer_id, chat_list, users_store,
                   selected_username, idle, requests, replies, session, connected, faults,
                   orderly>>

\* gtk_list_store_clear: GTK may choose some of the rows as they go.
UsersCleared == selected_username' \in {selected_username} \cup {row.id : row \in users_store}

\* onLogOutButtonClicked: no request is sent, timer_id keeps its value, and
\* only the time-out it names is removed.
LogOut ==
    /\ window = "chat" /\ ~adding
    /\ window' = "auth"
    /\ time_outs' = IF timer_id THEN time_outs - 1 ELSE time_outs
    /\ timer_id' = FALSE
    /\ chat_list' = {} /\ users_store' = {} /\ UsersCleared
    /\ client_info' = NoClient
    /\ orderly' = (orderly /\ Quiet)
    /\ UNCHANGED <<tables, adding, idle, requests, replies, session, connected, faults>>

----------------------------------------------------------------------------
(* The server's thread *)

\* An answer without rows has an error status.
Answer(rows) ==
    /\ requests' = Tail(requests)
    /\ replies' = Append(replies, [type |-> Head(requests).type, rows |-> rows])
    /\ UNCHANGED <<gui, idle, connected, orderly>>

Serves(type) == requests # << >> /\ Head(requests).type = type

Register ==
    /\ Serves("REGISTER") /\ UNCHANGED faults
    /\ LET r == Head(requests)
           row == [id |-> Len(users) + 1, username |-> r.username]
       IN  \/ /\ database_add_user(r.username, r.password)
              /\ session' = row
              /\ Answer({row})
           \/ /\ database_fetch_user_data(r.username) # {}
              /\ Answer({})
              /\ UNCHANGED <<tables, session>>

\* [mutant] the first user of a connection stays its user
LogInOnce ==
    /\ Serves("LOGIN") /\ UNCHANGED <<tables, faults>>
    /\ LET r == Head(requests)
           found == database_fetch_user_data(r.username)
       IN  /\ session' = IF found = {} \/ session.username # Garbage THEN session
                         ELSE UserOut(CHOOSE i \in found : TRUE)
           /\ Answer({UserOut(i) : i \in {j \in found : users[j].password = r.password}})

\* The session is the user's before the password is compared.
LogIn ==
    /\ Serves("LOGIN") /\ UNCHANGED <<tables, faults>>
    /\ LET r == Head(requests)
           found == database_fetch_user_data(r.username)
       IN  /\ session' = IF found = {} THEN session
                         ELSE UserOut(CHOOSE i \in found : TRUE)
           /\ Answer({UserOut(i) : i \in {j \in found : users[j].password = r.password}})

UpdateUser ==
    /\ Serves("UPDATE_USER") /\ UNCHANGED <<session, faults>>
    /\ database_update_user(session.id, Head(requests).password)
    /\ Answer({UserOut(i) : i \in database_fetch_user_data(session.username)})

ListUsers ==
    /\ Serves("GET_USERS_FOR_SEARCH") /\ UNCHANGED <<tables, session, faults>>
    /\ Answer(database_fetch_user_list(session.id))

\* The three INSERTs; the third is refused to a user who invites himself.
NewChat(id, invitee) ==
    /\ chats' = chats + 1
    /\ members' = members \cup {<<chats + 1, id>>, <<chats + 1, invitee>>}
    /\ UNCHANGED <<users, messages>>

Refused(id, invitee) == invitee \notin UserIds \/ ChatExists(id, invitee)

AddChat ==
    /\ Serves("ADD_CHAT") /\ UNCHANGED <<session, faults>>
    /\ LET invitee == Head(requests).invitee_user_id IN
          \/ /\ Refused(session.id, invitee)
             /\ Answer({})
             /\ UNCHANGED tables
          \/ /\ ~Refused(session.id, invitee)
             /\ NewChat(session.id, invitee)
             /\ Answer(IF invitee = session.id THEN {}
                       ELSE {[id |-> chats + 1, title |-> users[invitee].username]})

Untitled(c) == TitleUsers(c, session.id) = {}

ListChats ==
    /\ Serves("GET_CHATS") /\ UNCHANGED <<tables, session, faults>>
    /\ \A c \in UserChats(session.id) : ~Untitled(c)
    /\ Answer(database_fetch_user_chats(session.id))

\* A statement fails before anything is written (UchatServer has the others).
QueryFails ==
    /\ requests # << >> /\ faults < MaxFaults
    /\ faults' = faults + 1
    /\ Answer({})
    /\ UNCHANGED <<tables, session>>

\* Other connections create chats.
OthersAddChat ==
    /\ chats < MaxChats
    /\ \E id, invitee \in UserIds :
          /\ id # invitee /\ ~Refused(id, invitee)
          /\ NewChat(id, invitee)
    /\ UNCHANGED <<gui, idle, requests, replies, session, connected, faults, orderly>>

----------------------------------------------------------------------------
(* The connection *)

\* Lost with it: what the server has not read and the client not received.
Disconnect ==
    /\ connected' = FALSE /\ orderly' = FALSE
    /\ requests' = << >>
    /\ \E n \in 0..Len(replies) : replies' = SubSeq(replies, 1, n)
    /\ UNCHANGED <<tables, gui, idle, session>>

ConnectionLost ==
    /\ connected /\ faults < MaxFaults
    /\ faults' = faults + 1
    /\ Disconnect

\* The title of a chat without another member is NULL: the server dies of it.
NullCrash ==
    /\ Serves("GET_CHATS") /\ UNCHANGED faults
    /\ \E c \in UserChats(session.id) : Untitled(c)
    /\ Disconnect

\* reconnect_to_server; nobody logs in again.
Reconnects ==
    /\ ~connected
    /\ connected' = TRUE
    /\ session' \in [id : GarbageIds, username : {Garbage}]
    /\ UNCHANGED <<tables, gui, idle, requests, replies, faults, orderly>>

\* A reply joined to the one before it, or too long, is thrown away.
ReplyLost ==
    /\ replies # << >> /\ faults < MaxFaults
    /\ faults' = faults + 1
    /\ replies' = Tail(replies)
    /\ UNCHANGED <<tables, gui, idle, requests, session, connected, orderly>>

\* controller, check_and_process_data
ReplyQueued ==
    /\ replies # << >>
    /\ idle' = Append(idle, Head(replies))
    /\ replies' = Tail(replies)
    /\ UNCHANGED <<tables, gui, requests, session, connected, faults, orderly>>

----------------------------------------------------------------------------
(* The callbacks of the GTK main loop *)

Runs(type) ==
    /\ idle # << >> /\ Head(idle).type = type
    /\ idle' = Tail(idle)
    /\ UNCHANGED <<tables, session, connected, faults, orderly>>

\* A reply with SUCCESS.
Rows == Head(idle).rows

send_get_users_for_search_request_idle ==
    /\ Runs("send_get_users")
    /\ Send([type |-> "GET_USERS_FOR_SEARCH"])
    /\ UNCHANGED <<gui, replies>>

\* selected_username is read only now.
send_add_chat_request_idle ==
    /\ Runs("send_add_chat")
    /\ Send([type |-> "ADD_CHAT", invitee_user_id |-> selected_username])
    /\ adding' = FALSE
    /\ UNCHANGED <<client_info, window, time_outs, timer_id, chat_list, users_store,
                   selected_username, replies>>

\* [mutant] signing up does not keep the id of the time-out
OpenChatUntracked(type) ==
    /\ Runs(type)
    /\ IF Rows = {} THEN UNCHANGED <<client_info, window, time_outs, timer_id>>
       ELSE /\ client_info' \in Rows
            /\ window' = "chat"
            /\ time_outs' = time_outs + 1
            /\ timer_id' = (type = "LOGIN")
    /\ UNCHANGED <<chat_list, users_store, adding, selected_username, requests, replies>>

\* LOGIN and REGISTER: a time-out starts whatever runs already.
OpenChat(type) ==
    /\ Runs(type)
    /\ IF Rows = {} THEN UNCHANGED <<client_info, window, time_outs, timer_id>>
       ELSE /\ client_info' \in Rows
            /\ window' = "chat"
            /\ time_outs' = time_outs + 1
            /\ timer_id' = TRUE
    /\ UNCHANGED <<chat_list, users_store, adding, selected_username, requests, replies>>

PasswordChanged ==
    /\ Runs("UPDATE_USER")
    /\ IF Rows = {} THEN UNCHANGED client_info ELSE client_info' \in Rows
    /\ UNCHANGED <<window, time_outs, timer_id, chat_list, users_store, adding,
                   selected_username, requests, replies>>

handle_get_users_for_search_response ==
    /\ Runs("GET_USERS_FOR_SEARCH")
    /\ IF Rows = {} THEN UNCHANGED <<users_store, selected_username>>
       ELSE users_store' = Rows /\ UsersCleared
    /\ UNCHANGED <<client_info, window, time_outs, timer_id, chat_list, adding,
                   requests, replies>>

\* The new chat is only logged: the next poll brings it.
handle_add_chat_response ==
    /\ Runs("ADD_CHAT")
    /\ UNCHANGED <<gui, requests, replies>>

\* A chat that find_chat_in_list finds by its id keeps the title it has.
handle_get_chats_response ==
    /\ Runs("GET_CHATS")
    /\ chat_list' = chat_list \cup
                       {row \in Rows : \A listed \in chat_list : listed.id # row.id}
    /\ UNCHANGED <<client_info, window, time_outs, timer_id, users_store, adding,
                   selected_username, requests, replies>>

----------------------------------------------------------------------------

UserActs ==
    \/ \E username \in Usernames, password \in Digests :
          SignIn(username, password) \/ SignUp(username, password)
    \/ \E password \in Digests : ChangePassword(password)
    \/ ShowAddChat \/ CreateChat \/ HideAddChat \/ LogOut
    \/ \E row \in users_store : SelectUser(row)

Serve ==
    \/ Register \/ LogIn \/ UpdateUser \/ ListUsers \/ AddChat
    \/ ListChats \/ NullCrash

RunIdle ==
    \/ send_get_users_for_search_request_idle \/ send_add_chat_request_idle
    \/ OpenChat("LOGIN") \/ OpenChat("REGISTER") \/ PasswordChanged
    \/ handle_get_users_for_search_response \/ handle_add_chat_response
    \/ handle_get_chats_response

Next ==
    \/ UserActs \/ PollChats
    \/ Serve \/ QueryFails \/ OthersAddChat
    \/ ConnectionLost \/ Reconnects \/ ReplyLost \/ ReplyQueued
    \/ RunIdle

Spec == Init /\ [][Next]_vars

\* As in UchatMessageView: the server, the controller and the GTK main loop do
\* what is due, the server comes back, and users and faults need never act.
FairSpec ==
    /\ Spec
    /\ WF_vars(PollChats) /\ WF_vars(Serve) /\ WF_vars(Reconnects)
    /\ WF_vars(ReplyQueued) /\ WF_vars(RunIdle)

----------------------------------------------------------------------------
(* Properties *)

\* The shape of the state.  That time_outs stays a natural number says that no
\* time-out is removed which has ended or was removed before (onLogOutButtonClicked).
TypeOK ==
    /\ DatabaseTypeOK
    /\ client_info \in Sessions /\ session \in Sessions
    /\ window \in {"auth", "chat"} /\ adding \in BOOLEAN
    /\ time_outs \in Nat /\ timer_id \in BOOLEAN
    /\ chat_list \subseteq ChatRows /\ users_store \subseteq UserRows
    /\ selected_username \in Nat
    /\ requests \in Seq(Requests) /\ replies \in Seq(Replies) /\ idle \in Seq(Callbacks)
    /\ connected \in BOOLEAN /\ orderly \in BOOLEAN /\ faults \in Nat

\* After an orderly sign-in the server acts for the user that the client shows,
\* and only this user's chats are listed, with their titles for this user: the
\* server's t_client_info and client_info are assigned by different replies and
\* handlers (process_user_login, handle_auth_response, handle_get_chats_response).
ShownUserIsServed ==
    orderly /\ window = "chat" =>
        /\ session = client_info
        /\ chat_list \subseteq database_fetch_user_chats(client_info.id)

\* After an orderly log-out the client asks for nothing and holds nothing of the
\* user who left: timer_id named the only time-out (onLogOutButtonClicked).
LoggedOutIsSilent ==
    orderly /\ window = "auth" => time_outs = 0 /\ chat_list = {} /\ users_store = {}

\* Nobody is made to invite himself, from which the server would be left with a
\* chat it dies of listing: what is selected never outlives its user
\* (onAddChatButtonClicked, send_add_chat_request_idle).
InviteesAreOthers ==
    orderly =>
        \A i \in DOMAIN requests :
            requests[i].type = "ADD_CHAT" =>
                requests[i].invitee_user_id \in (UserIds \cup {0}) \ {session.id}

\* A chat of the user who is signed in comes to be listed, whoever created it
\* (chats_store_update, handle_get_chats_response).
ChatIsListed ==
    \A c \in 1..MaxChats :
        (orderly /\ window = "chat" /\ <<c, client_info.id>> \in members)
            ~> (window = "auth" \/ ~orderly \/ \E row \in chat_list : row.id = c)
=============================================================================
