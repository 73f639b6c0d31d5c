-------------------------- MODULE UchatMessageView --------------------------
(***************************************************************************)
(* The message view of the uChat client: the chat the user has selected is *)
(* polled every second (massage_store_update), the replies travel from the *)
(* server's thread over the TLS connection to the controller thread, from  *)
(* there through data_queue (check_and_process_data, every 100 ms) to the  *)
(* idle callbacks of the GTK main loop, and handle_get_messages_response   *)
(* merges them row by row into message_list and messages_store, while      *)
(* other users post, edit and delete and this one changes chats.           *)
(*                                                                         *)
(* The GTK thread runs one callback at a time, so none of its other actions*)
(* is taken while it handles a reply; the server and the controller run on.*)
(***************************************************************************)
EXTENDS UchatDatabase, UchatTransport, FiniteSets

CONSTANTS
    InitUsers,      \* the user of this client and one more for each chat
    NChats,         \* chats 1..NChats, each of user 1 and another
    Posts, Edits,   \* bounds: the texts of new messages, and of edits
    RowsPerRecord,  \* rows of a reply that fit in one TLS record
    MaxMessages,    \* bound on the messages posted
    MaxInFlight,    \* bound on the polls sent and not handled
    MaxFaults       \* bound on lost connections and failed queries

DeletedText == "{Deleted message}"

\* Nobody writes what a deleted message shows: the client could not tell them apart.
ASSUME ViewAssumption ==
    /\ InitUsers \in Seq(UserRow)
    /\ NChats \in Nat /\ Len(InitUsers) = NChats + 1
    /\ Posts \cup Edits \subseteq Bodies /\ DeletedText \notin Bodies
    /\ RowsPerRecord \in Nat \ {0}
    /\ MaxMessages \in Nat /\ MaxInFlight \in Nat /\ MaxFaults \in Nat

VARIABLES
    timer,          \* the chat that the 1 s time-out polls, 0: no time-out.
                    \* It is also the chat selected in the chats' tree view
    is_clear, first_load,
    message_list,   \* ids of the messages kept
    messages_store, \* the rows shown: [id, text, edited]
    requests,       \* GET_MESSAGES requests the server has not answered
    idle,           \* strings handed to g_idle_add_full
    handling, rows, \* a reply is being handled; the rows of it that are left
    connected,
    faults,
    settled         \* history: nothing was on its way when the chat was selected

view == <<timer, is_clear, first_load, message_list, messages_store, settled>>
vars == <<tables, transport, view, requests, idle, handling, rows, connected, faults>>

Init ==
    /\ users = InitUsers
    /\ chats = NChats
    /\ members = {<<c, 1>> : c \in 1..NChats} \cup {<<c, c + 1>> : c \in 1..NChats}
    /\ messages = << >>
    /\ wire = << >> /\ buffer = << >> /\ data_queue = << >>
    /\ timer = 0 /\ is_clear = FALSE /\ first_load = TRUE
    /\ message_list = << >> /\ messages_store = << >>
    /\ requests = << >> /\ idle = << >> /\ handling = FALSE /\ rows = << >>
    /\ connected = TRUE /\ faults = 0 /\ settled = FALSE

----------------------------------------------------------------------------
(* The other clients, each statement of whose requests is atomic *)

Statement ==
    /\ \/ /\ Len(messages) < MaxMessages
          /\ \E c \in 1..chats, body \in Posts : InsertMessage(1, c, body)
       \/ \E m \in MessageIds, body \in Edits : UpdateMessage(m, body)
       \/ \E m \in MessageIds : RemoveMessage(m)
    /\ UNCHANGED <<transport, view, requests, idle, handling, rows, connected, faults>>

----------------------------------------------------------------------------
(* The server's thread and the connection *)

\* The message of chat c that has k - 1 of the chat before it.
NthMessage(c, k) ==
    CHOOSE m \in ChatMessages(c) : Cardinality({n \in ChatMessages(c) : n <= m}) = k

ChatRows(c) == [k \in 1..Cardinality(ChatMessages(c)) |-> MessageOut(NthMessage(c, k))]

RecordsOf(reply) ==
    IF reply = << >> THEN 1 ELSE (Len(reply) + RowsPerRecord - 1) \div RowsPerRecord

\* No rows: an error status.
Answer(reply) ==
    /\ requests # << >>
    /\ requests' = Tail(requests)
    /\ SslWrite(reply, RecordsOf(reply))
    /\ UNCHANGED <<tables, buffer, data_queue, view, idle, handling, rows, connected>>

ServerAnswers ==
    /\ requests # << >> /\ Answer(ChatRows(Head(requests)))
    /\ UNCHANGED faults

QueryFails ==
    /\ faults < MaxFaults
    /\ Answer(<< >>)
    /\ faults' = faults + 1

\* The server dies or the network fails: what the client has not received is lost.
ConnectionLost ==
    /\ connected /\ faults < MaxFaults
    /\ connected' = FALSE
    /\ faults' = faults + 1
    /\ requests' = << >>
    /\ \E n \in 0..Len(wire) : wire' = SubSeq(wire, 1, n)
    /\ UNCHANGED <<tables, buffer, data_queue, view, idle, handling, rows>>

\* read_client_socket has no more to read: reconnect_to_server, then NULL.
Reconnects ==
    /\ ~connected /\ wire = << >>
    /\ connected' = TRUE
    /\ buffer' = << >>
    /\ UNCHANGED <<tables, wire, data_queue, view, requests, idle, handling, rows, faults>>

ControllerReads ==
    /\ \E fresh \in Fresh : SslRead(fresh)
    /\ UNCHANGED <<tables, view, requests, idle, handling, rows, connected, faults>>

----------------------------------------------------------------------------
(* The GTK thread *)

Rests == ~handling

\* massage_store_update; what it writes to a lost connection is lost.
PollFires ==
    /\ Rests /\ timer # 0
    /\ Len(requests) + Len(wire) + Len(buffer) + Len(data_queue) + Len(idle) < MaxInFlight
    /\ connected
    /\ requests' = Append(requests, timer)
    /\ UNCHANGED <<tables, transport, view, idle, handling, rows, connected, faults>>

\* check_and_process_data
PopQueue ==
    /\ Rests /\ data_queue # << >>
    /\ idle' = Append(idle, Head(data_queue))
    /\ data_queue' = Tail(data_queue)
    /\ UNCHANGED <<tables, wire, buffer, view, requests, handling, rows, connected, faults>>

\* No request, and no reply, whole or in part.
NothingOnItsWay ==
    requests = << >> /\ wire = << >> /\ buffer = << >> /\ data_queue = << >> /\ idle = << >>

\* [mutant] the rows of the chat before are left to the first reply to remove
SelectChatLazily(c) ==
    /\ Rests /\ c # timer
    /\ timer' = c
    /\ first_load' = TRUE /\ is_clear' = TRUE
    /\ settled' = NothingOnItsWay
    /\ UNCHANGED <<tables, transport, message_list, messages_store, requests, idle,
                   handling, rows, connected, faults>>

\* on_chats_selection_changed, with a chat selected...
SelectChat(c) ==
    /\ Rests /\ c # timer
    /\ timer' = c
    /\ first_load' = TRUE /\ is_clear' = TRUE
    /\ messages_store' = << >>
    /\ settled' = NothingOnItsWay
    /\ UNCHANGED <<tables, transport, message_list, requests, idle, handling, rows,
                   connected, faults>>

\* ... and with none.
Deselect ==
    /\ Rests /\ timer # 0
    /\ timer' = 0 /\ settled' = FALSE
    /\ first_load' = TRUE /\ is_clear' = TRUE
    /\ UNCHANGED <<tables, transport, message_list, messages_store, requests, idle,
                   handling, rows, connected, faults>>

\* onLogOutButtonClicked: emptying chats_store takes the selection away too.
LogOut ==
    /\ Rests
    /\ IF timer = 0 THEN UNCHANGED <<timer, first_load, is_clear>>
       ELSE timer' = 0 /\ first_load' = TRUE /\ is_clear' = TRUE
    /\ messages_store' = << >> /\ message_list' = << >> /\ settled' = FALSE
    /\ UNCHANGED <<tables, transport, requests, idle, handling, rows, connected, faults>>

\* process_data_from_controller: an error status and a text that is not JSON are
\* dropped, and every other reply begins the loop over its rows.
StartReply ==
    /\ Rests /\ idle # << >>
    /\ idle' = Tail(idle)
    /\ handling' = (StartsWhole(Head(idle)) /\ Head(idle)[1].string # << >>)
    /\ rows' = IF handling' THEN Head(idle)[1].string ELSE << >>
    /\ UNCHANGED <<tables, transport, view, requests, connected, faults>>

\* [mutant] an edited row is looked at before a deleted one
ShownEditedFirst(row) ==
    [id |-> row.id,
     text |-> IF row.row.deleted /\ ~row.row.updated THEN DeletedText ELSE row.row.body,
     edited |-> row.row.updated]

Shown(row) ==
    [id |-> row.id,
     text |-> IF row.row.deleted THEN DeletedText ELSE row.row.body,
     edited |-> row.row.updated /\ ~row.row.deleted]

\* [mutant] is_clear empties only what is shown
KeptStale == IF is_clear THEN [list |-> message_list, store |-> << >>]
             ELSE [list |-> message_list, store |-> messages_store]

\* The list and the rows shown, once is_clear has been obeyed.
Kept == IF is_clear THEN [list |-> << >>, store |-> << >>]
        ELSE [list |-> message_list, store |-> messages_store]

\* [mutant] the edit of a message that is shown is skipped
OnlyDeletions(row) == ~first_load /\ row.row.deleted

\* After the first load a row that is deleted or edited only changes what is shown.
OnlyUpdates(row) == ~first_load /\ (row.row.deleted \/ row.row.updated)

\* [mutant] every row is set, whatever its id
UpdateModelAll(store, row) ==
    [i \in DOMAIN store |-> [Shown(row) EXCEPT !.id = store[i].id]]

UpdateModel(store, row) ==
    [i \in DOMAIN store |-> IF store[i].id = row.id THEN Shown(row) ELSE store[i]]

\* One pass of the loop of handle_get_messages_response.
HandleRow ==
    /\ handling /\ rows # << >>
    /\ LET row == Head(rows)
           known == \E i \in DOMAIN Kept.list : Kept.list[i] = row.id
           new == ~OnlyUpdates(row) /\ ~known
       IN  /\ message_list' = IF new THEN Append(Kept.list, row.id) ELSE Kept.list
           /\ messages_store' = IF OnlyUpdates(row) THEN UpdateModel(Kept.store, row)
                                ELSE IF new THEN Append(Kept.store, Shown(row))
                                ELSE Kept.store
    /\ is_clear' = FALSE
    /\ rows' = Tail(rows)
    /\ UNCHANGED <<tables, transport, timer, first_load, settled, requests, idle,
                   handling, connected, faults>>

EndReply ==
    /\ handling /\ rows = << >>
    /\ first_load' = FALSE
    /\ handling' = FALSE
    /\ UNCHANGED <<tables, transport, timer, is_clear, message_list, messages_store,
                   settled, requests, idle, rows, connected, faults>>

Next ==
    \/ Statement
    \/ ServerAnswers \/ QueryFails \/ ConnectionLost \/ Reconnects \/ ControllerReads
    \/ PollFires \/ PopQueue \/ Deselect \/ LogOut
    \/ \E c \in 1..chats : SelectChat(c)
    \/ StartReply \/ HandleRow \/ EndReply

Spec == Init /\ [][Next]_vars

\* The server's thread and the controller run as long as they have something to
\* do, the server comes back, and GTK runs every time-out and idle callback: a
\* callback that is due is run before the user acts for ever.
FairSpec ==
    /\ Spec
    /\ WF_vars(ServerAnswers) /\ WF_vars(Reconnects) /\ WF_vars(ControllerReads)
    /\ WF_vars(PollFires) /\ WF_vars(PopQueue)
    /\ WF_vars(StartReply) /\ WF_vars(HandleRow) /\ WF_vars(EndReply)

----------------------------------------------------------------------------
(* Properties *)

ShownRow == [id : Nat, text : Bodies \cup {DeletedText}, edited : BOOLEAN]
OutRow == [id : Nat, username : SUBSET Usernames, row : MessageRow]
String == Seq(OutRow)
Record == [string : String, part : Nat, of : Nat]
ReadText == Seq(Record) \ {<< >>}

\* The shape of the state.  Among it, that no text handed on is empty, of which the
\* first byte would be read all the same (read_client_socket, check_and_process_data).
TypeOK ==
    /\ DatabaseTypeOK
    /\ wire \in Seq(Record) /\ buffer \in Seq(Record) /\ data_queue \in Seq(ReadText)
    /\ timer \in Nat /\ is_clear \in BOOLEAN /\ first_load \in BOOLEAN
    /\ message_list \in Seq(Nat)
    /\ messages_store \in Seq(ShownRow)
    /\ requests \in Seq(Nat) /\ idle \in Seq(ReadText)
    /\ handling \in BOOLEAN /\ rows \in String
    /\ connected \in BOOLEAN /\ faults \in Nat /\ settled \in BOOLEAN

Ids(store) == [i \in DOMAIN store |-> store[i].id]

\* What is shown and what is kept never drift apart: once is_clear has been obeyed
\* messages_store shows just the messages of message_list, in its order and each
\* once, through changes of chat, log-outs and replies to polls of another chat
\* (handle_get_messages_response, on_chats_selection_changed).
StoreMirrorsList ==
    /\ \A i, j \in DOMAIN message_list : message_list[i] = message_list[j] => i = j
    /\ ~is_clear => Ids(messages_store) = message_list

\* No reply, however late, lost or cut, undoes what the view has shown: a deleted
\* message stays deleted, an edited one stays edited until it is deleted.
ViewNeverGoesBack ==
    [][\A i \in DOMAIN messages_store, j \in DOMAIN messages_store' :
          LET old == messages_store[i]
              new == messages_store'[j]
          IN  old.id = new.id =>
                 /\ old.text = DeletedText => new.text = DeletedText
                 /\ old.edited => new.edited \/ new.text = DeletedText]_vars

\* Nothing is shown that is not so: a row is of a message of the table, it is shown as
\* deleted or edited only if it has been, and an unedited one with the text it was
\* posted with, however late, joined, cut or overtaken the replies were from which
\* the row was made (handle_get_messages_response, update_model).
ShownIsTrue ==
    \A i \in DOMAIN messages_store :
        LET shown == messages_store[i] IN
        /\ shown.id \in MessageIds
        /\ shown.text = DeletedText => messages[shown.id].deleted
        /\ shown.edited => messages[shown.id].updated
        /\ ~messages[shown.id].updated =>
              shown.text \in {messages[shown.id].body, DeletedText}

\* Who selects a chat when no reply to a poll of another one is on its way sees
\* messages of this chat only, until he selects another: no time-out, request, reply
\* or part of one is left of the chat before (on_chats_selection_changed).
SelectedChatOnly ==
    settled =>
        \A i \in DOMAIN messages_store :
            /\ messages_store[i].id \in MessageIds
            /\ messages[messages_store[i].id].chat_id = timer

Selected(m) == m \in MessageIds /\ timer = messages[m].chat_id

Touched(m) == m \in MessageIds /\ (messages[m].updated \/ messages[m].deleted)

IsShown(m) == \E i \in DOMAIN messages_store : messages_store[i].id = m

UpToDate(m) ==
    \E i \in DOMAIN messages_store :
        messages_store[i].id = m /\ messages_store[i] = Shown(MessageOut(m))

\* A message of the selected chat comes to be shown unless the user leaves the chat,
\* or somebody edits or deletes it before (and it never is: OnlyUpdates).
PostedIsShown ==
    \A m \in 1..MaxMessages :
        Selected(m) ~> (IsShown(m) \/ ~Selected(m) \/ Touched(m))

\* An edit or a deletion of a message that is shown comes to be shown.
ChangeIsShown ==
    \A m \in 1..MaxMessages :
        Selected(m) /\ IsShown(m) ~> (UpToDate(m) \/ ~Selected(m))

\* The loop of read_client_socket ends "when the end of the string is reached"
\* (get_server_response.c:69): what it hands over is a whole string.
WholeStringsQueued == \A i \in DOMAIN data_queue : StartsWhole(data_queue[i])
=============================================================================
