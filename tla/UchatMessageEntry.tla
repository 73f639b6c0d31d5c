-------------------------- MODULE UchatMessageEntry --------------------------
(***************************************************************************)
(* The message entry of the uChat client and the context menu of the       *)
(* message view (client/src/gui/gui_main.c): typing a message, choosing    *)
(* one and editing or deleting it, while chats are changed, users of the   *)
(* client follow each other and replies to polls change the rows shown.    *)
(*                                                                         *)
(* One entry serves for new messages and for edits: edit_messages keeps    *)
(* the draft in message_old and every way out of the edit has to put it    *)
(* back.  What is chosen is kept in three globals (here selected_message), *)
(* which outlive the selection, the rows shown, the chat and the session.  *)
(*                                                                         *)
(* The chats that can be chosen are the ones listed, which a time-out asks *)
(* the server for; what it answers is listed even after a log-out.         *)
(* The entry's text is always message_buffer (messages_entry_changed).     *)
(* Which rows a reply shows is the matter of UchatMessageView: here it may *)
(* be any of them.  Whom the server takes the client for is session.       *)
(***************************************************************************)
EXTENDS UchatDatabase

CONSTANTS
    InitUsers,      \* the users, all with accounts
    InitMembers,    \* the chats' members
    NChats,         \* chats 1..NChats
    Locals,         \* the users who share this client
    InitMessages,   \* the messages at first
    GarbageIds,     \* what t_client_info.id may hold before it is assigned
    DeletedText,    \* "{Deleted message}", what a deleted message shows
    Empty,          \* the empty text
    MaxMessages,    \* bound on the messages posted
    MaxInFlight,    \* bound on the requests and replies in flight
    MaxFaults       \* bound on lost connections

ASSUME EntryAssumption ==
    /\ InitUsers \in Seq(UserRow)
    /\ \A i, j \in DOMAIN InitUsers :
          InitUsers[i].username = InitUsers[j].username => i = j
    /\ NChats \in Nat /\ InitMembers \in SUBSET ((1..NChats) \X (DOMAIN InitUsers))
    /\ GarbageIds \subseteq Nat
    /\ Locals \subseteq DOMAIN InitUsers
    /\ InitMessages \in Seq(MessageRow)
    /\ \A m \in DOMAIN InitMessages :
          <<InitMessages[m].chat_id, InitMessages[m].user_id>> \in InitMembers
    /\ DeletedText \notin Bodies \cup {Empty} /\ Empty \notin Bodies
    /\ MaxMessages \in Nat /\ MaxInFlight \in Nat /\ MaxFaults \in Nat

VARIABLES
    me,                 \* the user client_info names, 0: signed out
    selected_chat,
    timer,              \* the chat that is polled, 0: none
    chats_store,        \* the chats listed
    messages_store,     \* the rows shown
    selection,          \* id of the row selected in the tree view, or 0
    selected_message,   \* selected_message_id, _sender and _text
    menu,               \* menu_for_ed_del is popped up with its two items
    being_edited, message_old, message_buffer,
    requests, replies,  \* on the connection
    session,            \* client_info.id of the server's thread
    faults,
    draft, edited,      \* history: the text of the new message, and the message
                        \* for which "Edit message" was chosen, 0: no edit
    chosen,             \* history: this user has selected a chat
    careful             \* history: see below

entry == <<being_edited, message_old, message_buffer, draft, edited>>
choice == <<selection, selected_message, menu>>
place == <<me, selected_chat, timer, chats_store, chosen>>
net == <<requests, replies, session, faults>>
vars == <<tables, entry, choice, place, messages_store, net, careful>>

\* The history careful is TRUE as long as the menu has only been opened on the row
\* that was selected, and its rows were not emptied under it; nobody has logged out
\* in an edit, or sent a message before he selected a chat; no list of chats has come
\* after its user had logged out; and the connection has not been lost.

Init ==
    /\ users = InitUsers /\ chats = NChats /\ members = InitMembers /\ messages = InitMessages
    /\ me = 0 /\ selected_chat = 0 /\ timer = 0 /\ chats_store = {} /\ chosen = FALSE
    /\ messages_store = {} /\ selection = 0 /\ menu = FALSE
    /\ selected_message = [id |-> 0, username |-> {}, text |-> Empty]
    /\ being_edited = FALSE /\ message_old = Empty /\ message_buffer = Empty
    /\ requests = << >> /\ replies = << >> /\ session \in GarbageIds /\ faults = 0
    /\ draft = Empty /\ edited = 0 /\ careful = TRUE

----------------------------------------------------------------------------
(* What GTK calls when the selection changes *)

\* [mutant] choosing a message does not end the edit of another one
RowChosenInEdit(row) ==
    /\ selected_message' = row
    /\ UNCHANGED entry

\* messages_selection_changed with a row selected
RowChosen(row) ==
    /\ selected_message' = row
    /\ being_edited' = FALSE
    /\ message_buffer' = IF being_edited THEN message_old ELSE message_buffer
    /\ edited' = 0
    /\ UNCHANGED <<message_old, draft>>

\* ... and with none
NoRowChosen == UNCHANGED <<selected_message, entry>>

\* gtk_list_store_clear removes row after row; when the cursor is on the row that
\* goes, GTK selects the next one, and in the end none is selected.
StoreEmptied ==
    /\ messages_store' = {}
    /\ selection' = 0
    /\ NoRowChosen \/ \E row \in messages_store : RowChosen(row)

----------------------------------------------------------------------------
(* The user, whose input goes to the menu while it is popped up *)

Acts == me # 0 /\ ~menu

MaySend == Len(requests) + Len(replies) < MaxInFlight

\* auth_window of the next user.  The reply to LOGIN is behind all other replies.
SignIn(u) ==
    /\ me = 0 /\ requests = << >> /\ replies = << >>
    /\ me' = u /\ session' = u
    /\ UNCHANGED <<tables, entry, choice, selected_chat, timer, chats_store, chosen,
                   messages_store, requests, replies, faults, careful>>

\* messages_entry_changed
Type(text) ==
    /\ Acts /\ text # message_buffer
    /\ message_buffer' = text
    /\ draft' = IF being_edited THEN draft ELSE text
    /\ UNCHANGED <<tables, being_edited, message_old, edited, choice, place,
                   messages_store, net, careful>>

\* A click with the primary button: on a row GTK selects it, ...
Click(row) ==
    /\ Acts /\ row.id # selection
    /\ selection' = row.id
    /\ RowChosen(row)
    /\ UNCHANGED <<tables, menu, place, messages_store, net, careful>>

\* ... elsewhere tree_view_messegabar_button_press_event unselects.
ClickElsewhere ==
    /\ Acts /\ ~being_edited /\ selection # 0
    /\ selection' = 0
    /\ UNCHANGED <<tables, entry, selected_message, menu, place, messages_store, net,
                   careful>>

\* [mutant] the menu always has both items
RightClickAnyMenu(row) ==
    /\ Acts
    /\ menu' = (selection # 0)
    /\ selection' = row.id
    /\ IF row.id = selection THEN NoRowChosen ELSE RowChosen(row)
    /\ careful' = (careful /\ (menu' => row.id = selection))
    /\ UNCHANGED <<tables, place, messages_store, net>>

\* The handler looks at what is selected before GTK selects the row that is clicked.
\* A menu without its two items can only be closed again: not popped up.
RightClick(row) ==
    /\ Acts
    /\ menu' = (selection # 0 /\ selected_message.username = {users[me].username})
    /\ selection' = row.id
    /\ IF row.id = selection THEN NoRowChosen ELSE RowChosen(row)
    /\ careful' = (careful /\ (menu' => row.id = selection))
    /\ UNCHANGED <<tables, place, messages_store, net>>

CloseMenu ==
    /\ menu
    /\ menu' = FALSE
    /\ UNCHANGED <<tables, entry, selection, selected_message, place, messages_store, net,
                   careful>>

\* [mutant] the message stays selected while it is edited
edit_messages_selected ==
    /\ menu
    /\ menu' = FALSE
    /\ being_edited' = TRUE
    /\ message_old' = message_buffer
    /\ message_buffer' = selected_message.text
    /\ edited' = selected_message.id
    /\ UNCHANGED <<tables, draft, selection, selected_message, place, messages_store, net,
                   careful>>

edit_messages ==
    /\ menu
    /\ menu' = FALSE
    /\ being_edited' = TRUE
    /\ message_old' = message_buffer
    /\ message_buffer' = selected_message.text
    /\ selection' = 0
    /\ edited' = selected_message.id
    /\ UNCHANGED <<tables, draft, selected_message, place, messages_store, net, careful>>

delete_messages ==
    /\ menu /\ MaySend
    /\ menu' = FALSE
    /\ requests' = Append(requests, [type |-> "DELETE_MESSAGE", id |-> selected_message.id])
    /\ selection' = 0
    /\ UNCHANGED <<tables, entry, selected_message, place, messages_store, replies, session,
                   faults, careful>>

\* [mutant] the text is sent even if it is the one that was shown
SendEditAlways ==
    /\ Acts /\ being_edited /\ message_buffer # Empty /\ MaySend
    /\ requests' = Append(requests, [type |-> "UPDATE_MESSAGE", id |-> selected_message.id,
                                     body |-> message_buffer])
    /\ message_buffer' = message_old
    /\ being_edited' = FALSE /\ edited' = 0
    /\ UNCHANGED <<tables, message_old, draft, choice, place, messages_store,
                   replies, session, faults, careful>>

\* getMessage in an edit: a text that is the same is not sent.
SendEdit ==
    /\ Acts /\ being_edited /\ message_buffer # Empty /\ MaySend
    /\ requests' = IF message_buffer = selected_message.text THEN requests
                   ELSE Append(requests, [type |-> "UPDATE_MESSAGE",
                                          id |-> selected_message.id,
                                          body |-> message_buffer])
    /\ message_buffer' = message_old
    /\ being_edited' = FALSE /\ edited' = 0
    /\ UNCHANGED <<tables, message_old, draft, choice, place, messages_store,
                   replies, session, faults, careful>>

\* getMessage otherwise, whether or not a chat is selected.
SendNew ==
    /\ Acts /\ ~being_edited /\ message_buffer # Empty /\ MaySend
    /\ Len(messages) < MaxMessages
    /\ requests' = Append(requests, [type |-> "ADD_MESSAGE", chat_id |-> selected_chat,
                                     body |-> message_buffer])
    /\ message_buffer' = Empty /\ draft' = Empty
    /\ careful' = (careful /\ chosen)
    /\ UNCHANGED <<tables, being_edited, message_old, edited, choice, place, messages_store,
                   replies, session, faults>>

\* on_chats_selection_changed
SelectChat(c) ==
    /\ Acts /\ c # timer
    /\ timer' = c /\ selected_chat' = c /\ chosen' = TRUE
    /\ StoreEmptied
    /\ UNCHANGED <<tables, me, chats_store, menu, net, careful>>

Deselect ==
    /\ Acts /\ timer # 0
    /\ timer' = 0
    /\ UNCHANGED <<tables, entry, choice, me, selected_chat, chats_store, chosen,
                   messages_store, net, careful>>

\* [mutant] the chats stay listed
LogOutKeepsChats ==
    /\ Acts
    /\ me' = 0 /\ timer' = 0 /\ chosen' = FALSE
    /\ StoreEmptied
    /\ careful' = (careful /\ ~being_edited')
    /\ UNCHANGED <<tables, selected_chat, chats_store, menu, net>>

\* onLogOutButtonClicked.  While chats_store is emptied GTK may select its chats in
\* turn; the entry and what is chosen are left to the next user.
LogOut ==
    /\ Acts
    /\ me' = 0 /\ timer' = 0 /\ chosen' = FALSE
    /\ selected_chat' \in {selected_chat} \cup chats_store
    /\ chats_store' = {}
    /\ StoreEmptied
    /\ careful' = (careful /\ ~being_edited')
    /\ UNCHANGED <<tables, menu, net>>

----------------------------------------------------------------------------
(* The time-outs and the replies *)

\* chats_store_update, from the sign-in to the log-out
PollChats ==
    /\ me # 0 /\ MaySend
    /\ requests' = Append(requests, [type |-> "GET_CHATS"])
    /\ UNCHANGED <<tables, entry, choice, place, messages_store, replies, session, faults,
                   careful>>

\* massage_store_update
Poll ==
    /\ timer # 0 /\ MaySend
    /\ requests' = Append(requests, [type |-> "GET_MESSAGES", chat_id |-> timer])
    /\ UNCHANGED <<tables, entry, choice, place, messages_store, replies, session, faults,
                   careful>>

Reads(type) ==
    /\ replies # << >> /\ Head(replies).type = type
    /\ replies' = Tail(replies)

\* Whoever is signed in, and nobody: the reply is another's after a log-out.  One that
\* another reply has been joined to is thrown away.
handle_get_chats_response ==
    /\ Reads("GET_CHATS")
    /\ chats_store' \in {chats_store, chats_store \cup Head(replies).chats}
    /\ careful' = (careful /\ (me = 0 => chats_store' = {}))
    /\ UNCHANGED <<tables, entry, choice, me, selected_chat, timer, chosen, messages_store,
                   requests, session, faults>>

\* handle_get_messages_response: is_clear may empty the store first.
Refresh ==
    /\ Reads("GET_MESSAGES")
    /\ \/ /\ StoreEmptied
          /\ careful' = (careful /\ ~menu)
       \/ /\ \E rows \in SUBSET Head(replies).rows :
                messages_store' = {row \in messages_store :
                                      \A new \in rows : new.id # row.id} \cup rows
          /\ UNCHANGED <<selection, selected_message, entry, careful>>
    /\ UNCHANGED <<tables, menu, place, requests, session, faults>>

----------------------------------------------------------------------------
(* The server's thread and the other clients *)

\* A row as it is shown.
Row(m) == [id |-> m, username |-> MessageOut(m).username,
           text |-> IF messages[m].deleted THEN DeletedText ELSE messages[m].body]

\* The server dies or the network fails, the client reconnects, and the thread that
\* serves it knows nobody.  What was sent in between is lost like what was before.
NewConnection ==
    /\ requests' = << >>
    /\ \E n \in 0..Len(replies) : replies' = SubSeq(replies, 1, n)
    /\ session' \in GarbageIds
    /\ careful' = FALSE

ConnectionLost ==
    /\ faults < MaxFaults
    /\ faults' = faults + 1
    /\ NewConnection
    /\ UNCHANGED <<tables, entry, choice, place, messages_store>>

Answered ==
    /\ requests' = Tail(requests)
    /\ UNCHANGED <<replies, session, careful>>

Serves(type) ==
    /\ requests # << >> /\ Head(requests).type = type
    /\ UNCHANGED <<entry, choice, place, messages_store, faults>>

\* The row is read back, and a NULL username in it is fatal.
AddMessage ==
    /\ Serves("ADD_MESSAGE")
    /\ InsertMessage(session, Head(requests).chat_id, Head(requests).body)
    /\ IF session \in UserIds THEN Answered ELSE NewConnection

ModifyMessage ==
    /\ Serves("UPDATE_MESSAGE")
    /\ UpdateMessage(Head(requests).id, Head(requests).body)
    /\ Answered

DeleteMessage ==
    /\ Serves("DELETE_MESSAGE")
    /\ RemoveMessage(Head(requests).id)
    /\ Answered

GetMessages ==
    /\ Serves("GET_MESSAGES")
    /\ UNCHANGED tables
    /\ LET shown == ChatMessages(Head(requests).chat_id)
       IN  IF \A m \in shown : messages[m].user_id \in UserIds
           THEN /\ requests' = Tail(requests)
                /\ replies' = Append(replies, [type |-> "GET_MESSAGES",
                                               rows |-> {Row(m) : m \in shown}])
                /\ UNCHANGED <<session, careful>>
           ELSE NewConnection

\* A chat that has no other member is fatal: its title is NULL.
GetChats ==
    /\ Serves("GET_CHATS")
    /\ UNCHANGED tables
    /\ IF \A c \in UserChats(session) : TitleUsers(c, session) # {}
       THEN /\ requests' = Tail(requests)
            /\ replies' = Append(replies, [type |-> "GET_CHATS",
                                           chats |-> UserChats(session)])
            /\ UNCHANGED <<session, careful>>
       ELSE NewConnection

Others ==
    /\ \/ /\ Len(messages) < MaxMessages
          /\ \E p \in members, body \in Bodies : InsertMessage(p[2], p[1], body)
       \/ \E m \in MessageIds, body \in Bodies : UpdateMessage(m, body)
       \/ \E m \in MessageIds : RemoveMessage(m)
    /\ UNCHANGED <<entry, choice, place, messages_store, net, careful>>

UserActs ==
    \/ \E u \in Locals : SignIn(u)
    \/ \E text \in Bodies \cup {Empty} : Type(text)
    \/ \E row \in messages_store : Click(row) \/ RightClick(row)
    \/ ClickElsewhere \/ CloseMenu \/ edit_messages \/ delete_messages
    \/ SendEdit \/ SendNew
    \/ \E c \in chats_store : SelectChat(c)
    \/ Deselect \/ LogOut

Next ==
    \/ UserActs \/ PollChats \/ handle_get_chats_response \/ Poll \/ Refresh
    \/ AddMessage \/ ModifyMessage \/ DeleteMessage \/ GetMessages \/ GetChats
    \/ ConnectionLost \/ Others

Spec == Init /\ [][Next]_vars

----------------------------------------------------------------------------
(* Properties *)

ShownRow == [id : Nat, username : SUBSET Usernames, text : Bodies \cup {DeletedText}]

Request == [type : {"GET_CHATS"}]
           \cup [type : {"GET_MESSAGES"}, chat_id : Nat]
           \cup [type : {"ADD_MESSAGE"}, chat_id : Nat, body : Bodies]
           \cup [type : {"UPDATE_MESSAGE"}, id : Nat, body : Bodies]
           \cup [type : {"DELETE_MESSAGE"}, id : Nat]

Reply == [type : {"GET_CHATS"}, chats : SUBSET Nat]
         \cup [type : {"GET_MESSAGES"}, rows : SUBSET ShownRow]

\* The types; and so "{Deleted message}", which a deleted message shows and its edit
\* begins with, is never sent as a text of its own (getMessage's strcmp).
TypeOK ==
    /\ DatabaseTypeOK
    /\ me \in Nat /\ selected_chat \in Nat /\ timer \in Nat /\ chosen \in BOOLEAN
    /\ chats_store \in SUBSET Nat
    /\ messages_store \in SUBSET ShownRow
    /\ selection \in Nat /\ menu \in BOOLEAN
    /\ selected_message \in [id : Nat, username : SUBSET Usernames,
                             text : Bodies \cup {DeletedText, Empty}]
    /\ being_edited \in BOOLEAN /\ edited \in Nat
    /\ {message_old, message_buffer} \subseteq Bodies \cup {DeletedText, Empty}
    /\ draft \in Bodies \cup {Empty}
    /\ requests \in Seq(Request) /\ replies \in Seq(Reply)
    /\ session \in Nat /\ faults \in Nat /\ careful \in BOOLEAN

\* The text of a new message survives every edit that interrupts it, however the
\* edit ends: sent, or dropped because a row is chosen or the store is emptied; in
\* particular no edit begins inside another, whose text would take the place of the
\* draft (edit_messages, getMessage, messages_selection_changed).
DraftSurvivesEdits ==
    IF being_edited THEN message_old = draft ELSE message_buffer = draft

\* An edit stays with the message it was chosen for, though the globals that name
\* the message are overwritten by every selection (messages_selection_changed).
EditsAreMeant == being_edited => selected_message.id = edited

\* A careful user changes and deletes only what he has written: the server does not
\* look, so it rests on the menu, which is shown for a name compared before and is
\* obeyed after rows, chats and users may have changed.
OnlyOwnChange ==
    careful =>
        \A i \in DOMAIN requests :
            requests[i].type \in {"UPDATE_MESSAGE", "DELETE_MESSAGE"} =>
                messages[requests[i].id].user_id = session

\* With careful users the author of a message is a member of its chat, which the
\* server does not check either: it rests on the list of chats, which is the server's
\* answer of a while ago and outlives users, and on selected_chat, which outlives the
\* selection (handle_get_chats_response, on_chats_selection_changed, getMessage).
AuthorsAreMembers ==
    careful =>
        \A m \in MessageIds : <<messages[m].chat_id, messages[m].user_id>> \in members
=============================================================================
