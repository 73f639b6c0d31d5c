# uChat: a TLA+ model of the server and its client

uChat is a messenger: a server (`server/`) with one thread per TLS connection over one sqlite
file, and a GTK client (`client/`) that polls it. This directory holds TLA+ modules that model both,
TLC configurations that check them on small instances, and TLAPS proofs of what holds for every
instance. Paths below are relative to the repository.

## The system

| component | state | operations | talks to |
|---|---|---|---|
| database (`server/src/database/database.c`) | tables `users`, `chats`, `users_chats`, `messages` in one file | one function per query or write; each opens its own connection and runs each SQL statement in its own transaction | called by the handlers |
| worker threads (`server/src/api`) | `t_client_info` (id, username) of the connection, the request being handled | `manage_thread`: read a request, dispatch it, answer; ten handlers | database; the client, over TLS |
| server process (`server/src/server.c`) | listening socket, `user_list` | daemon, socket, TLS set-up, accept loop, cleanup | starts the threads; ends them all when accepting fails |
| transport (the reading loops of both sides) | 1 MB buffer, fresh for each string | `SSL_write` a string, `SSL_read` records until the byte after them is zero | both sides |
| controller thread and queue (`client/src/client.c`, `client/src/api/get_server_response.c`) | `data_queue`, `client_info->ssl` | read a string and push it; reconnect; every 100 ms move one string to an idle callback | server, GTK thread |
| message view (`process_server_response.c`, `gui_main.c`) | `timer`, `is_clear`, `first_load`, `message_list`, `messages_store` | select a chat, poll it, merge a reply, log out | server, through the queue |
| client session and chat list | `client_info`, `timer_id`, `chat_list`, `chats_store` | sign in and up, change the password, poll the chats, create a chat, log out | server |
| message entry and context menu | `being_edited`, `message_buffer`, `message_old`, `selected_message_*` | type, send, edit, delete | server |

What is hard here: every handler is a chain of separate transactions that other threads and a crash
may come between (the look-up and the three INSERTs of a chat, a write and its read-back); a
session's identity outlives refused logins and is read before any login; the client's replies pass
through four queues and may be cut, joined, lost or late when they are merged into what is shown,
while the user changes chats; one accept loop runs every handshake, and one failure in it ends the
server for all; what the user has chosen outlives the rows, the chat and the session he chose it in.
`PROJECT.json` lists each of these under `hazards`, at its line.

What makes each part correct:

- database: nothing is taken back; deleted and edited are for ever;
- handlers: a request takes effect once and atomically as far as its answers tell; what SUCCESS
  reports was in the file; a read-back finds the row just written; a session is one user;
- transport: what is handed over is what was written, whole;
- message view: what is shown mirrors what is kept, is so in the table, never goes back, and catches up;
- session: the server acts for the user whom the client shows, and a log-out ends everything that was
  his;
- entry: a draft survives every edit, an edit names the message chosen, and a careful user changes only
  what is his and posts only to his own chats;
- connections: clients that do not crash stay at the other end of what the server reads, writes and shakes
  hands with, a client that lost its connection comes back without leaving sockets behind, and the threads
  live as the handlers' model says.

## Modules

| module | models |
|---|---|
| `UchatDatabase` | the tables and an operator for every SQL statement of `database.c` |
| `UchatServer` (extends it) | the threads: `pc[s]` is the next statement of the handler of session `s`; properties; the refinement mapping |
| `UchatChatRaces` (extends `UchatServer`) | the same threads with a history of the pairs whose chat is being made twice |
| `ChatService` | what the server promises: each request has one atomic effect and an answer that tells the truth about it |
| `UchatTransport` | records, the reading loop and the queue it fills |
| `UchatMessageView` (extends `UchatDatabase`, `UchatTransport`) | the client's message view with everything a reply passes through to get there |
| `UchatClientSession` (extends `UchatDatabase`) | the client's session and chat list with the server's `t_client_info`, over one connection |
| `UchatMessageEntry` (extends `UchatDatabase`) | the client's message entry and context menu, down to the requests they send and the rows these change |
| `UchatConnections` | the server process and its accept loop, the threads' and the clients' life, reconnecting |
| `MCUchatServer`, `MCUchatChatRaces`, `MCUchatMessageView`, `MCUchatClientSession`, `MCUchatMessageEntry`, `MCUchatConnections` | values for TLC |
| `UchatServerProofs`, `UchatSafetyProofs`, `UchatChatRacesProofs`, `UchatRefinementProofs`, `UchatMessageViewProofs`, `UchatClientSessionProofs`, `UchatMessageEntryProofs`, `UchatConnectionsProofs` | theorems |

### UchatDatabase

Rows are never removed and ids are AUTOINCREMENT, so `users` and `messages` are sequences whose
positions are the ids, `chats` is the number of rows (its only column that is read is its id),
`members` is the set of the UNIQUE pairs of `users_chats`. Time stamps are reduced to set / not set:
the order by `created_at` of a listing is not modelled.

### UchatServer

`Receive` is `fetch_client_data`, `identify_request_type` and the parsing of the handler; one action
per SQL statement follows (`pc` names it), and `WriteResponse` ends the request. `DatabaseFails` lets
any statement fail without effect, as it does when another connection holds the lock (no busy time-out
is set); `CheckChatUnread` is the one statement whose failure the code takes for an empty result.
`NullCrash` is the death of the process in `mx_strdup(NULL)` when a row with a NULL title or author is
read; `Crash` is any other death, also the one after a failed accept or handshake. `Connect` leaves
`client_info` with whatever was in the malloc'ed memory. A connection whose peer is gone runs its
request to the end before its thread exits. Concurrent transactions of sqlite on one file are
serialised by its lock, so a statement is an atom. A query that fails half way through its rows (an
I/O error: the code would return the rows so far) is not modelled.

The properties:

- `TypeOK`, among it that only digests of passwords are stored;
- `SessionNamesItsUser`: id and name of a session belong to one row of `users`;
- `ChatsKeepToTheirPair`: threads that create chats at once keep out of each other's;
- `WriteIsReadBack`: the read-back of a write finds that write, with a title or an author;
- `RowsAreKept`: no step takes anything back;
- `Implements`: the server implements `ChatService`. A chat counts as a room of the service once it has
  both members; `call` is the request with the row it has written. So requests take effect once, in the
  one step that completes their write, answers tell the state of some moment of the call, and an error
  answer promises nothing.

### UchatChatRaces

`OneChatPerPair` does not hold of the server (run `duplicate_chat`). This module says what does: with
the history variable `raced`, the pairs for which at some time two threads were between the look-up and
the last INSERT at once, or for which a look-up that failed read as "no such chat" (`CheckChatUnread`).
A pair is forgotten when nobody creates its chat any more and it has one chat at most. The steps are
those of `UchatServer`, none is added or forbidden. `OnlyRacesDuplicate`: when two complete chats have the
same members, their pair is in `raced`; so the check does its work from one ADD_CHAT to the next, whichever
of the two users sends it and wherever earlier attempts were cut off.

### UchatTransport and UchatMessageView

A string is a number of records; `SslRead` takes one and applies the tests of the loop. `Fresh` is what
the byte that the stop test reads may be: zero in memory fresh from the system, which a 1 MB buffer
that is never freed always is, or anything in a reused one. The GTK thread runs one callback at a time;
the loop over the rows of a reply is one step per row (`HandleRow`), during which the server, the other
clients and the controller run on. Emptying `chats_store` on log-out makes GTK emit "changed", so that
`LogOut` includes what `on_chats_selection_changed` does without a selection. What other clients do
to `messages` are statements of `UchatDatabase`. The chats are given; the user's own messages are
statements like anyone's, and none of them posts the very text that a deleted message shows.

The properties:

- `TypeOK`, among it that no text that is handed on is empty;
- `StoreMirrorsList`: once `is_clear` has been obeyed, the rows shown are the messages kept, in order,
  once each;
- `ShownIsTrue`: a row shown is of a message of the table, is shown as deleted or edited only if it has
  been, and with the text it was posted with as long as it was never edited;
- `SelectedChatOnly`: whoever selects a chat when nothing is on its way sees messages of this chat only,
  until he leaves it;
- `ViewNeverGoesBack`: what has been shown as deleted or edited stays so, whatever replies are late;
- `PostedIsShown`, `ChangeIsShown`: the view catches up. A message that is edited or deleted before it
  first appears in a running view never appears (`OnlyUpdates`): `PostedIsShown` exempts it.

A view may also show messages of the chat selected before, when a reply to a poll of it arrives after
the change: the code compares no chat id, and no text in the repository promises otherwise. The history
variable `settled` is TRUE when no request and no part of a reply was on its way at the moment of the
selection: this is when `SelectedChatOnly` speaks.

### UchatClientSession

One client and the thread that serves it. `SignIn`, `SignUp`, `ChangePassword`, `ShowAddChat`, `SelectUser`,
`CreateChat`, `HideAddChat` and `LogOut` are the handlers of the buttons; `add_chat_window` is modal
(`chat.glade`), so nothing else is clicked while it is shown. `PollChats` is the time-out. Emptying
`users_store`, on a log-out or before a new list of users is filled in, may move GTK's cursor, so that
`selected_username` may become the id of any row on its way out (`UsersCleared`). The server handles a
request in one step, whose atomicity `Implements` justifies; statements that fail between two writes are
`UchatServer`'s, one that fails before them is `QueryFails`. A reply goes from `replies` (connection and
`data_queue`) to `idle`, where it is handled in turn with the callbacks that send GET_USERS_FOR_SEARCH and
ADD_CHAT. `chat_list` is also `chats_store`: the code always changes them together. `timer_id` is reduced to
whether it names a running time-out, `time_outs` counts those.

The program does not keep its users apart in every execution, and the model shows it: a log-out sends
nothing and cancels nothing, so that a reply still in flight fills the lists of the next user; two
sign-ins one after the other leave a time-out that no log-out removes, and the server's identity may
be the second's while the client shows the first; after a reconnection the server knows nobody. No text in
the repository promises otherwise. The history variable `orderly` is TRUE when none of this has
happened since the last sign-in that started with nothing left over and nothing in flight. The properties
state what holds then:

- `TypeOK`, with the type of every request, reply and row on its way;
- `ShownUserIsServed`: the identity of the server's thread is the client's, and every chat listed is one
  of this user's, titled for this user;
- `LoggedOutIsSilent`: after a log-out no time-out runs and no list holds anything;
- `InviteesAreOthers`: no ADD_CHAT names its sender, after which listing the chats would kill the server
  (`NullCrash`);
- `ChatIsListed` (liveness): every chat of the user comes to be listed.

### UchatMessageEntry

One entry serves for new messages and for edits. `Type` is `messages_entry_changed`, `Click`,
`ClickElsewhere` and `RightClick` are what a press of a button does to the tree view (the handler and
GTK's own), `edit_messages` and `delete_messages` the items of the menu, `SendEdit` and `SendNew` the two
halves of `getMessage`; `SelectChat`, `Deselect`, `LogOut`, `Poll` and `Refresh` are what they are in the
view, as far as the entry is concerned. The chats that can be selected are the rows of `chats_store`, which
`PollChats` asks for, `GetChats` answers (or the server dies of a chat without a second member),
`handle_get_chats_response` adds to and `LogOut` empties: a reply that is handled after the log-out fills it
again with the chats of the user who left. Which rows a reply shows is the view's matter: here it may be any
of those it has. Emptying the store may move GTK's cursor, so that `messages_selection_changed` runs with
any row on its way out (`StoreEmptied`). The server's statements and its identity are those of the other
modules, and what other clients do to `messages` are statements again. `on_enter_press`
(`gui_main.c:676`) is connected with a signature it does not have and sends nothing, and
`handle_message_response` is called by nobody: neither is an action. The replies to ADD_MESSAGE,
UPDATE_MESSAGE and DELETE_MESSAGE are dropped by the client, so that what is lost is lost silently; the
bounds of the 1024-byte buffers are not modelled.

Again the program does not protect its user in every execution. The menu decides by the row selected
before the click which items it has and acts on the row selected after it; `being_edited` survives a
log-out, so that the next user's text edits a message of the last one's; a message sent before a chat is
selected goes to chat 0 or to the last user's; a list of chats that comes after a log-out offers the last
user's chats to the next one, who may post there; after a lost connection the server takes the client for
nobody or for whoever the memory names. `careful` is the history variable that is TRUE when none of
this has happened. The properties:

- `TypeOK`, among it that the text shown for a deleted message is never sent as anyone's text;
- `DraftSurvivesEdits`: the text of a new message survives every edit, however it ends;
- `EditsAreMeant`: an edit stays with the message for which it was chosen;
- `OnlyOwnChange`: a careful user edits and deletes only messages of his;
- `AuthorsAreMembers`: with careful users, authors are members of the chats they post to. It rests on the
  list of chats being emptied at the log-out, and is false without the condition on late lists.

### UchatConnections

`Start` is `main` of the server up to `listen` (daemon, socket, TLS context, bind), `Accept` to
`CreateThread` are one round of the accept loop, `ThreadReads` to `ThreadEnds` are `manage_thread` with
the requests reduced to their number. `StartClient`, `Connect` and the actions after it are the
client's `main`, its controller thread and `reconnect_to_server`, which differ in what a failure does
(`first`). A connection has two ends that are closed apart: `ThreadEnds` leaves the socket and the
entry in `user_list`, so that the descriptors of the server run out in the end (`Full`), after which
accepting, logging or opening the database is fatal; the socket of a lost connection is never closed by
the client either. The loop is left, and the process with it, when accepting or a handshake fails, and
SIGPIPE ends it when a second response meets a peer that is gone. A client that freezes in its handshake
stalls the loop for everyone (`Stalled`). While a client reconnects its GTK thread may write with the SSL
object that is in `SSL_connect` (`WriteRaces`).

What the programs do to themselves is kept apart from faults of the environment. A thread of the server
ends the process when `malloc` gives it no buffer to read into (1 MB for each request, never freed) or when
a handler copies a column that is NULL (`ThreadCrashes`); the loop, when SSL or `pthread_create` fails
(`LibraryFails`). A client that has been connected may crash at any moment (`ClientCrashes`): its GTK thread
writes with the SSL object that a failed attempt has freed, or to a lost connection (SIGPIPE), its
controller thread pushes to the `data_queue` that `main` has released. These are no faults: nothing is
claimed of the server or a client in their absence but `PeersStay`, which says so. Faults are a client that
is killed or freezes and a connection that breaks. `MaxTrouble` bounds faults and clients' crashes together;
the server's deaths are bounded by its starts. Closing the window leaves `main` waiting for a thread whose
loop has no end. The properties:

- `TypeOK`, among it that a connection in its handshake is in `user_list` and the bound on the backlog;
- `RetriesLeakNothing`: `reconnect_to_server` closes what it opened, wherever it fails;
- `PeersStay`: in the first run of the server, as long as there was no fault and no client crashed, a client
  is at the other end of every connection that the server has accepted or not yet accepted. So no window
  that is closed, no race in a reconnection and no failed attempt makes the accept loop fail or a response
  meet a reset;
- `ReconnectsAgain` (liveness): with a server that stays and a loop that is not stalled, a client gets
  its connection or ends;
- `RunsThreads`: what happens to connections here is what `UchatServer` says of its sessions.

## Runs

| run | instance | shows |
|---|---|---|
| `accounts` | 2 connections that also create chats, 2 names, 1 user in the file, 1 password and the digest of another, 1 chat | `TypeOK`, `SessionNamesItsUser`, `WriteIsReadBack`, `Implements` |
| `chats` | 2 connections, 2 users, invitees 0..2, garbage ids 0..2, no ADD_CHAT sent once a chat exists (two threads may both pass) | `ChatsKeepToTheirPair`, `WriteIsReadBack`, `OnlyRacesDuplicate`, `Implements` |
| `messages` | 2 connections, 1 user, chats 1 and 2, 1 message (2 when both threads pass), a session with an id that is nobody's | `WriteIsReadBack`, `RowsAreKept`, `Implements` |
| `message_view` | 2 chats, 2 messages, 2 polls in flight, a row per record (replies of one or two), stop-test bytes 0 and 1, buffers of 3 records, one text to post and another to edit with | `TypeOK`, `StoreMirrorsList`, `ShownIsTrue`, `SelectedChatOnly`, `ViewNeverGoesBack` |
| `message_view_live` | 2 chats, 2 messages, 1 poll in flight, replies of one record, 1 fault | `PostedIsShown`, `ChangeIsShown` |
| `client_session` | 2 names, one registered, 2 passwords, 1 chat, 1 request of the user and 1 poll in flight, 1 fault | `TypeOK`, `ShownUserIsServed`, `LoggedOutIsSilent`, `InviteesAreOthers`, `ChatIsListed` |
| `message_entry` | 2 users of one client and of one chat, a message of each, 1 request or reply in flight, 1 fault | `TypeOK`, `DraftSurvivesEdits`, `EditsAreMeant`, `OnlyOwnChange` |
| `message_sending` | 2 users of one client, one of them without a chat, 1 message to be posted, 1 request or reply in flight, 1 fault | `AuthorsAreMembers` |
| `connections` | 2 clients, 2 descriptors, a backlog of 1, 1 request unread, 2 starts of the server, 1 fault or client's crash | `TypeOK`, `RetriesLeakNothing`, `PeersStay`, `ReconnectsAgain`, `RunsThreads` |
| `duplicate_chat` | as `chats` | `OneChatPerPair` is violated |
| `refused_chat` | as `chats` | `RefusedMeansNotAdded` is violated |
| `long_reply` | 1 chat, 2 messages, a row per record | `WholeStringsQueued` is violated |

Bounds. Two connections suffice for every race of the handlers: each race is between one thread's
statement pair and another's statement. `MaxChats` and `MaxMessages` bound when requests are sent, not
what is written, so two threads get past them together. Ids that requests name include one that is
nobody's and the session's own. In `accounts` the user in the file has a digest that no request's
password has: the log-in is refused until an UPDATE_USER, sent by a session whose uninitialised id is
his, has replaced it. In the view, two messages are needed for one to arrive after the first
load, and two chats and one poll in flight for a late reply; a reply of two rows is two records, which the
reading loop hands over in one piece, in two (neither is JSON) or joined to the next; `Posts` and `Edits` bound the texts, and that an
edit's differs from what was posted is what tells the two apart. In the session, one request in flight
when the user logs out is enough to reach the next user; two requests, and with them sign-ins that
overlap, are left to the proofs, which have no bound. One chat has two titles, so that a list of the
wrong user shows. In the entry, two messages of different authors are what an edit can mistake for each
other, and the second user is who may inherit it; a list of chats in flight at the log-out is enough to reach the
next user. Of the connections two clients are needed for one to
block the other; with two descriptors the third connection finds none, and the five connections there
may be at a time are never all in use, so that this bound keeps nobody out. Deadlock is checked in every
run but `connections`, where the server may stay down and clients frozen.

Fairness (`FairSpec`) is used for the four liveness properties only. In the view and the session it is
weak fairness of the server's thread, of the controller, of reconnecting (the server comes back) and of
the time-outs and callbacks of the GTK main loop, which runs all its due sources in turn; none for
users and none for faults, whose number `MaxFaults` (`MaxTrouble` of the connections) bounds. In the view's run polls are sent one at a
time; in the program a poll is handled long before the next. In the session polls have a bound of
their own (`MaxPolls`), so that what the user sends cannot keep the time-out from running. Of the
connections the machines run the accept loop, each thread and each controller thread, one weak fairness
each; nobody has to start a server or a client, and no race in OpenSSL has to hit (`WriteRaces`).

The three violations are disagreements with what the code says of itself:

- `database.c:273` refuses a chat that exists: two threads pass the check together, or one whose check
  fails (`duplicate_chat`);
- `process_client_request.c:337` says a chat could not be added when its three rows were written and only
  reading it back failed (`refused_chat`; a chat of which an INSERT failed does not count as added);
- `get_server_response.c:69` says the end of the string is reached when a TLS record is: long
  replies are cut and lost (`long_reply`). With a long history the view of a chat stops working, which
  is why the liveness run has replies that fit a record.

## Proofs

The assumptions are one per component (`ServerAssumption`, `ViewAssumption`, `SessionAssumption`,
`EntryAssumption`, `ConnectionsAssumption`): the constants are sets and numbers of the right kind, the file
first holds users with different names, and nobody writes the text that deleted messages are shown with.
From them alone TLAPS proves the following, for any number of
connections, users, chats, messages, requests in flight and faults.

Of the server:

- `TypeCorrect` (`TypeOK`). Inductive with `Fits`: the request of a thread is of the type that its
  `pc` belongs to, which the types of the fields its statements read rest on.
- `RowsKept` (`RowsAreKept`): every step is a statement of `UchatDatabase` or leaves the tables alone.
- `IdentityCorrect` (`SessionNamesItsUser`): names stay unique because `database_add_user` is guarded by
  UNIQUE; ids stay because rows are kept.
- `ChatsCorrect` and `WritesReadBack`, from one inductive invariant `SafetyInv`. Its parts for each
  session (`Tracks`) say what the thread has written so far: in `insert_current_user` its chat is empty,
  in `insert_invitee_user` it holds the requester, in `fetch_chat` both and the invitee exists; the row of a
  new message is its own. Between threads: chats being built differ, and a chat is built by
  nobody after it is complete. A step of one thread keeps what it tracks itself (`AuthTracks`,
  `ChatTracks`, `MessageTracks`) and, by `RowsKept` and `ChatsUndisturbed`, what the others track.
- `DuplicatesComeOfRaces` (`OnlyRacesDuplicate`), on top of `SafetyInv`, which gives each thread a chat of
  its own. `RacesInv` adds what a thread that has passed the look-up may count on: there is no complete
  chat of its pair, or the pair is in `raced`; and a pair that two threads create is in `raced`. Who
  completes a chat (`Completes`) takes this from every other thread that creates the same, and these are
  in `raced` with him. A look-up that finds nothing establishes it anew (`NoneFound`).
- `ServerImplements` (`Implements`), on top of `SafetyInv`. `RequestInv` adds that a thread at a
  statement handles a request of a type that reaches it and has not answered yet. Then every statement is
  the service's call, its effect, its answer, its end or a stutter: most are stutters, because what a
  half-built chat has in the tables is no room of the service, and what other threads' effects and answers
  are depends on nothing that the statement changes.

Of the view:

- `ViewMirrors` (`StoreMirrorsList`). The loop keeps the mirror whatever the rows are, so nothing
  need be known of the replies: `MirrorInv` only adds that both are sequences.
- `ViewGoesForward` (`ViewNeverGoesBack`), from `OrderInv`. Every row on its way has a position (`At`): in the
  loop, in the n-th idle callback, in `data_queue`, in the buffer, in the connection, or still in the table.
  `InOrder` says that of two rows of a message the one that is nearer to the view is the older one, and
  `StoreInOrder` that what is shown is older than both. A step moves rows from position to position without
  letting one pass another (`Carried`), or loses some; only the other clients' statements make rows newer,
  and these change the table, which is last. That the rows of a reply are the table's rests on `Numbered`: a
  finite set of numbers can be listed in ascending order.

- `ViewTypes` (`TypeOK`), with `OrderInv`, from which it has that the row at hand is one of the table.
- `ViewTellsTheTruth` (`ShownIsTrue`), from `TruthInv`. Deleted and edited: `OrderInv` has what is shown no
  newer than the table. The text: `RowsTrue` says of the rows on their way, and `StoreTrue` of those
  shown, that they have their message's text unless it has been edited meanwhile. Rows come from the
  table by an answer, or from where they were (`RowsFollow`), and the table only moves on (`TableMoves`).
- `OneChatShown` (`SelectedChatOnly`), from `ChatInv`: if nothing was on its way when the chat was
  selected, what is requested, on its way and shown is all of this chat (`OneChat`), and no row is left
  over between two replies.

Of the session, from one invariant with three parts: `TypeInv`; `AuthInv`, that in an orderly sign-in
at most one request or reply is on its way, and it is the sign-in; `ChatInv`, that in an orderly chat window
the server's identity is the client's, requests and replies are no sign-ins, and the rows and
invitees on their way are this user's chats and other users:

- `SessionTypes` (`TypeOK`), `SessionAgrees` (`ShownUserIsServed`), `LogOutCompletes`
  (`LoggedOutIsSilent`), `InvitationsAreToOthers` (`InviteesAreOthers`).

Of the entry:

- `EntryTypes` (`TypeOK`), with `EditTextInv`: the text being edited is typed or the chosen message's;
- `DraftsKept` (`DraftSurvivesEdits`) and `EditsKeepTheirMessage` (`EditsAreMeant`), from `EditInv`, the
  two together and that no row is selected and no menu is open while an edit lasts;
- `CarefulChange` (`OnlyOwnChange`) and `CarefulPost` (`AuthorsAreMembers`), from `CareInv`: the rows
  shown or on their way name their message's author, and while all are careful what is chosen, edited or on
  its way to the server is the user's own. Its part `ListInv` is about the list of chats: while all are
  careful, no chat is listed when nobody is signed in, and the chats listed or on their way are chats of the
  user who is (the server answers for `session`, which is his id).

Of the connections:

- `ConnectionTypes` (`TypeOK`), with `QueueInv` and `ThreadInv`: a connection waits in the backlog once and
  before it is in `user_list`, and a thread's connection is in `user_list`;
- `RetriesClose` (`RetriesLeakNothing`), from `SocketInv`: whose connection the socket is at each point of
  `reconnect_to_server`;
- `PeersAreThere` (`PeersStay`), from `CalmInv`: before the first fault, crash of a client and restart no
  connection is broken or refused, each one served has an owner, what a client shakes hands on or reads
  from is served, and a client that got in once still reads;
- `ThreadsAreServed` (`RunsThreads`): a refinement, each step is `UchatServer`'s connecting, answering,
  disconnecting or dying, or a stutter.

Every invariant, action property and refinement that the runs check is proved. Only model-checked are the
liveness properties `PostedIsShown`, `ChangeIsShown`, `ChatIsListed` and `ReconnectsAgain`, which are
out of the prover's reach. Of the three violations one is proved under the condition that saves it:
`OnlyRacesDuplicate` for `OneChatPerPair`.

## Not modelled

- The text of things: JSON (a request is a record, parsed or malformed), time stamps and the order of a
  listing by them, log lines, layout, styles and resources.
- Memory exhaustion, except as the death of the process it leads to, and the server's loop over
  the records of a request: requests fit one record, and the buffer they are read into is always fresh.
- Data races inside the libraries: the controller thread calls GTK, and shares an SSL object with the GTK
  thread; the model has the order of these accesses (`WriteRaces`, `ClientCrashes`), not what they do to the
  library's own state.
- The libraries. `sqlite3` and `OpenSSL` are prebuilt archives and headers, `cJSON` and `libmx` are utilities
  without state of their own; a header file declares what other people wrote and has no behaviour to
  model. They are most of the source: of the 66 thousand lines of C and headers about 4.5 thousand are
  the program's own, the server's and the client's. The map covers most of these, and so about a
  twentieth of everything; what it leaves out of the program's own code is widgets, styling and logging.

## What could come next

Each component of the program's own code is modelled or listed above. A larger model of the transport and
the view would add the order of a listing by `created_at`, and, to the liveness run, replies that go through
several records.
