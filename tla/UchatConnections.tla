--------------------------- MODULE UchatConnections ---------------------------
(***************************************************************************)
(* The life of the connections between the uChat server process and its    *)
(* clients: the accept loop of server.c, which runs every handshake itself *)
(* and ends the process when anything fails, the threads it starts, and    *)
(* the client's main, its controller thread and reconnect_to_server.       *)
(*                                                                         *)
(* A connection has two ends: owner[k] is the client that has the one open *)
(* (or Nobody), and the server has the other while k is in backlog or in   *)
(* user_list.  The requests of a connection are counted, not described:    *)
(* the threads' work is UchatServer's, which this system implements.       *)
(***************************************************************************)
EXTENDS Naturals, Sequences, FiniteSets

CONSTANTS
    Clients,
    Nobody,         \* not a client
    MaxConnections, \* bound on the connections that exist at a time
    MaxDescriptors, \* the sockets that the server process may hold
    BACKLOG,        \* connections that wait to be accepted (4)
    MaxRequests,    \* bound on the requests of a connection not yet read
    MaxStarts,      \* bound on the starts of the server
    MaxTrouble      \* bound on the faults and the clients' crashes together

ASSUME ConnectionsAssumption ==
    /\ Nobody \notin Clients
    /\ MaxConnections \in Nat /\ MaxDescriptors \in Nat \ {0}
    /\ BACKLOG \in Nat /\ MaxRequests \in Nat
    /\ MaxStarts \in Nat /\ MaxTrouble \in Nat

VARIABLES
    server,         \* where the accept loop is, or "down"
    backlog,        \* connections to be accepted
    user_list,      \* the connections accepted, ended ones included
    current,        \* the one whose handshake is under way, or 0
    thread,         \* "none", "read", "respond", or "exit"
    unread,         \* requests that the thread has not read
    refused,        \* connections on which a response met a peer that was gone
    owner,
    controller,     \* where the client's main or controller thread is
    first,          \* the client is in main, where a failure is final
    client_socket,  \* the connection client_info names, or 0
    closed,         \* clients whose window has been closed
    frozen,         \* clients that do not run any more but keep their sockets
    broken,         \* connections that the network has broken
    starts, faults,
    established,    \* history: connections whose handshake the client finished
    crashed         \* clients' ends by mistakes of their own, counted

process == <<server, backlog, user_list, current, thread, refused>>
client == <<controller, first, client_socket, closed>>
faulty == <<frozen, broken, faults, crashed>>
vars == <<process, unread, owner, client, faulty, starts, established>>

Connections == 1..MaxConnections

Waiting == {backlog[i] : i \in DOMAIN backlog}

\* The server's process or its kernel has the connection.
Served(k) == k \in user_list \cup Waiting

\* What the threads and the peer of the server's end see: end of file or reset.
PeerGone(k) == owner[k] = Nobody \/ k \in broken

\* The same for the client's end.
ServerGone(k) == ~Served(k) \/ k \in broken

\* No descriptor is left, for a socket as for a database or the log file.
Full == Cardinality(user_list) >= MaxDescriptors

Free(k) == owner[k] = Nobody /\ ~Served(k)

Init ==
    /\ server = "down" /\ backlog = << >> /\ user_list = {} /\ current = 0
    /\ thread = [k \in Connections |-> "none"]
    /\ unread = [k \in Connections |-> 0] /\ refused = {}
    /\ owner = [k \in Connections |-> Nobody]
    /\ controller = [c \in Clients |-> "off"]
    /\ first = [c \in Clients |-> TRUE]
    /\ client_socket = [c \in Clients |-> 0]
    /\ closed = {} /\ frozen = {} /\ broken = {}
    /\ starts = 0 /\ faults = 0 /\ established = {} /\ crashed = 0

----------------------------------------------------------------------------
(* The server process *)

\* The daemon, its socket, bind and listen; when the port is still held by old
\* connections bind fails and it is started again.
Start ==
    /\ server = "down" /\ starts < MaxStarts
    /\ server' = "accept" /\ starts' = starts + 1
    /\ UNCHANGED <<backlog, user_list, current, thread, refused, unread, owner,
                   client, faulty, established>>

\* client_list_cleanup and exit, or a signal: the kernel closes every socket.
Dies ==
    /\ server' = "down" /\ backlog' = << >> /\ user_list' = {} /\ current' = 0
    /\ thread' = [k \in Connections |-> "none"]
    /\ refused' = {} /\ unread' = [k \in Connections |-> 0]
    /\ broken' = {k \in broken : owner[k] # Nobody}
    /\ established' = {k \in established : owner[k] # Nobody}
    /\ UNCHANGED <<owner, client, frozen, faults, crashed, starts>>

\* [mutant] pthread_join in the place of pthread_detach
AcceptAfterThread ==
    /\ server = "accept" /\ backlog # << >> /\ ~Full
    /\ \A k \in Connections : thread[k] = "none"
    /\ server' = "handshake" /\ current' = Head(backlog)
    /\ backlog' = Tail(backlog) /\ user_list' = user_list \cup {Head(backlog)}
    /\ UNCHANGED <<thread, refused, unread, owner, client, faulty, starts, established>>

\* The connection goes to user_list before anything else is tried with it.
Accept ==
    /\ server = "accept" /\ backlog # << >> /\ ~Full
    /\ server' = "handshake" /\ current' = Head(backlog)
    /\ backlog' = Tail(backlog) /\ user_list' = user_list \cup {Head(backlog)}
    /\ UNCHANGED <<thread, refused, unread, owner, client, faulty, starts, established>>

AcceptFails ==
    server = "accept" /\ backlog # << >> /\ Full /\ Dies

\* SSL_accept returns 1: the client has sent its last message of the handshake.
HandshakeDone ==
    /\ server = "handshake" /\ current \in established /\ current \notin broken
    /\ server' = "create"
    /\ UNCHANGED <<backlog, user_list, current, thread, refused, unread, owner,
                   client, faulty, starts, established>>

HandshakeFails ==
    server = "handshake" /\ PeerGone(current) /\ Dies

CreateThread ==
    /\ server = "create"
    /\ thread' = [thread EXCEPT ![current] = "read"]
    /\ server' = "accept" /\ current' = 0
    /\ UNCHANGED <<backlog, user_list, refused, unread, owner, client, faulty,
                   starts, established>>

\* What was received is read even when its sender is gone.
ThreadReads(k) ==
    /\ thread[k] = "read" /\ unread[k] > 0
    /\ thread' = [thread EXCEPT ![k] = "respond"]
    /\ unread' = [unread EXCEPT ![k] = @ - 1]
    /\ UNCHANGED <<server, backlog, user_list, current, refused, owner, client,
                   faulty, starts, established>>

ThreadResponds(k) ==
    /\ thread[k] = "respond"
    /\ thread' = [thread EXCEPT ![k] = "read"]
    /\ refused' = IF PeerGone(k) THEN refused \cup {k} ELSE refused
    /\ UNCHANGED <<server, backlog, user_list, current, unread, owner, client,
                   faulty, starts, established>>

\* SIGPIPE: the peer is gone and has refused an earlier response.
WriteIsFatal(k) ==
    thread[k] = "respond" /\ k \in refused /\ Dies

\* SSL_read fails, which is logged.
ReadFails(k) ==
    /\ thread[k] = "read" /\ PeerGone(k) /\ (unread[k] = 0 \/ k \in broken) /\ ~Full
    /\ thread' = [thread EXCEPT ![k] = "exit"]
    /\ UNCHANGED <<server, backlog, user_list, current, refused, unread, owner,
                   client, faulty, starts, established>>

\* fopen of the log returns NULL, which is written to: by a thread whose peer is
\* gone, or by a handler that could not open the database either.
LogFails(k) ==
    /\ Full
    /\ \/ thread[k] = "read" /\ PeerGone(k)
       \/ thread[k] = "respond"
    /\ Dies

\* [mutant] fetch_client_data only returns NULL, and manage_thread reads again
ThreadContinues(k) ==
    /\ thread[k] = "exit"
    /\ thread' = [thread EXCEPT ![k] = "read"]
    /\ UNCHANGED <<server, backlog, user_list, current, refused, unread, owner,
                   client, faulty, starts, established>>

\* pthread_exit: the socket, the SSL object and the entry of user_list remain.
ThreadEnds(k) ==
    /\ thread[k] = "exit"
    /\ thread' = [thread EXCEPT ![k] = "none"]
    /\ unread' = [unread EXCEPT ![k] = 0]
    /\ refused' = refused \ {k}
    /\ UNCHANGED <<server, backlog, user_list, current, owner, client, faulty,
                   starts, established>>

----------------------------------------------------------------------------
(* The client *)

At(c, place) == controller[c] = place /\ c \notin frozen

Goto(c, place) == controller' = [controller EXCEPT ![c] = place]

StartClient(c) ==
    /\ At(c, "off")
    /\ Goto(c, "connect")
    /\ UNCHANGED <<process, unread, owner, first, client_socket, closed, faulty,
                   starts, established>>

\* [mutant] one connection more than listen was told
ConnectBeyond(c) ==
    /\ At(c, "connect") /\ server # "down" /\ Len(backlog) <= BACKLOG
    /\ \E k \in Connections :
          /\ Free(k) /\ \A j \in 1..(k - 1) : ~Free(j)
          /\ client_socket' = [client_socket EXCEPT ![c] = k]
          /\ owner' = [owner EXCEPT ![k] = c]
          /\ backlog' = Append(backlog, k)
          /\ established' = established \ {k}
    /\ Goto(c, "handshake")
    /\ UNCHANGED <<server, user_list, current, thread, refused, unread, first,
                   closed, faulty, starts>>

\* connect: it waits while the backlog is full.
Connect(c) ==
    /\ At(c, "connect") /\ server # "down" /\ Len(backlog) < BACKLOG
    /\ \E k \in Connections :
          /\ Free(k) /\ \A j \in 1..(k - 1) : ~Free(j)
          /\ client_socket' = [client_socket EXCEPT ![c] = k]
          /\ owner' = [owner EXCEPT ![k] = c]
          /\ backlog' = Append(backlog, k)
          /\ established' = established \ {k}
    /\ Goto(c, "handshake")
    /\ UNCHANGED <<server, user_list, current, thread, refused, unread, first,
                   closed, faulty, starts>>

\* free_and_exit in main, another attempt in reconnect_to_server.
GiveUp(c) ==
    /\ IF first[c] THEN Goto(c, "off") ELSE Goto(c, "sleep")
    /\ UNCHANGED <<first, closed>>

ConnectionRefused(c) ==
    /\ At(c, "connect") /\ server = "down"
    /\ GiveUp(c)
    /\ UNCHANGED <<process, unread, owner, client_socket, faulty, starts, established>>

\* Of connections whose last end is closed nothing is kept.
Forget(ks) ==
    /\ broken' = {k \in broken : k \in ks => Served(k)}
    /\ established' = {k \in established : k \in ks => Served(k)}

\* The client closes its end: what the server has received of it stays.
Close(c) ==
    /\ owner' = [owner EXCEPT ![client_socket[c]] = Nobody]
    /\ Forget({client_socket[c]})
    /\ client_socket' = [client_socket EXCEPT ![c] = 0]

\* SSL_connect returns 1, and main or reconnect_to_server goes on to read.
Connected(c) ==
    /\ At(c, "handshake") /\ server = "handshake" /\ current = client_socket[c]
    /\ current \notin broken
    /\ established' = established \cup {current}
    /\ Goto(c, "read")
    /\ first' = [first EXCEPT ![c] = FALSE]
    /\ UNCHANGED <<process, unread, owner, client_socket, closed, faulty, starts>>

\* [mutant] the socket of a failed handshake is not closed
LeaveOpen(c) ==
    /\ At(c, "handshake")
    /\ client_socket' = [client_socket EXCEPT ![c] = 0]
    /\ GiveUp(c)
    /\ UNCHANGED <<process, unread, owner, faulty, starts, established>>

\* SSL_connect does not return 1.
LeaveHandshake(c) ==
    /\ At(c, "handshake")
    /\ Close(c) /\ GiveUp(c)
    /\ UNCHANGED <<process, unread, frozen, faults, starts, crashed>>

ConnectFails(c) == ServerGone(client_socket[c]) /\ LeaveHandshake(c)

\* During a reconnection the GTK thread goes on writing to client_info->ssl, the
\* object that the controller thread is in SSL_connect with: it may fail.
WriteRaces(c) == ~first[c] /\ c \notin closed /\ LeaveHandshake(c)

\* After sleep(3) the old socket number is overwritten: it is never closed.
ConnectionLost(c) ==
    /\ At(c, "read") /\ ServerGone(client_socket[c])
    /\ Goto(c, "sleep")
    /\ client_socket' = [client_socket EXCEPT ![c] = 0]
    /\ UNCHANGED <<process, unread, owner, first, closed, faulty, starts, established>>

WakeUp(c) ==
    /\ At(c, "sleep")
    /\ Goto(c, "connect")
    /\ UNCHANGED <<process, unread, owner, first, client_socket, closed, faulty,
                   starts, established>>

\* The GTK thread, when the user does something and at every poll.
SendRequest(c) ==
    LET k == client_socket[c] IN
    /\ At(c, "read") /\ c \notin closed /\ ~ServerGone(k) /\ unread[k] < MaxRequests
    /\ unread' = [unread EXCEPT ![k] = @ + 1]
    /\ UNCHANGED <<process, owner, client, faulty, starts, established>>

\* [mutant] main returns after gtk_main: the process ends with its window
CloseWindowExits(c) ==
    /\ At(c, "read") /\ ~first[c]
    /\ Close(c) /\ Goto(c, "off")
    /\ first' = [first EXCEPT ![c] = TRUE]
    /\ UNCHANGED <<process, unread, closed, frozen, faults, starts, crashed>>

\* gtk_main returns, and main waits for the controller thread.
CloseWindow(c) ==
    /\ c \notin closed \cup frozen /\ controller[c] # "off" /\ ~first[c]
    /\ closed' = closed \cup {c}
    /\ UNCHANGED <<process, unread, owner, controller, first, client_socket,
                   faulty, starts, established>>

----------------------------------------------------------------------------
(* What the programs do to themselves *)

\* A thread takes the process with it: SSL_read into the buffer that malloc has not
\* given it, or mx_strdup of a column that is NULL in a handler.
ThreadCrashes(k) == thread[k] \in {"read", "respond"} /\ Dies

\* SSL_new, SSL_set_fd or pthread_create fails: the loop is left.
LibraryFails == server \in {"handshake", "create"} /\ Dies

\* The kernel closes every socket of the client, the lost connections' too.
ClientEnds(c) ==
    /\ controller[c] # "off"
    /\ Goto(c, "off")
    /\ first' = [first EXCEPT ![c] = TRUE]
    /\ client_socket' = [client_socket EXCEPT ![c] = 0]
    /\ closed' = closed \ {c} /\ frozen' = frozen \ {c}
    /\ owner' = [k \in Connections |-> IF owner[k] = c THEN Nobody ELSE owner[k]]
    /\ Forget({k \in Connections : owner[k] = c})
    /\ UNCHANGED <<process, unread, starts>>

MoreTrouble == faults + crashed < MaxTrouble

\* The GTK thread writes with the SSL object that a failed attempt has freed, or to
\* a connection that is lost (SIGPIPE); the controller thread pushes a reply to the
\* queue that main has released, or reads into a buffer malloc has not given it.
ClientCrashes(c) ==
    /\ MoreTrouble /\ crashed' = crashed + 1 /\ UNCHANGED faults
    /\ ~first[c] /\ c \notin frozen /\ ClientEnds(c)

Crashes ==
    \/ LibraryFails
    \/ \E k \in Connections : ThreadCrashes(k)
    \/ \E c \in Clients : ClientCrashes(c)

----------------------------------------------------------------------------
(* Faults from outside *)

Fault == MoreTrouble /\ faults' = faults + 1 /\ UNCHANGED crashed

\* There is no other way to end a client whose window is closed.
ClientKilled(c) == Fault /\ ClientEnds(c)

\* The process or its machine stops, or the network swallows what it sends.
ClientFreezes(c) ==
    /\ Fault /\ controller[c] # "off" /\ c \notin frozen
    /\ frozen' = frozen \cup {c}
    /\ UNCHANGED <<process, unread, owner, client, broken, starts, established>>

NetworkBreaks(k) ==
    /\ Fault /\ owner[k] # Nobody /\ Served(k) /\ k \notin broken
    /\ broken' = broken \cup {k}
    /\ UNCHANGED <<process, unread, owner, client, frozen, starts, established>>

Faults ==
    \/ \E c \in Clients : ClientKilled(c) \/ ClientFreezes(c)
    \/ \E k \in Connections : NetworkBreaks(k)

----------------------------------------------------------------------------
AcceptLoop ==
    Accept \/ AcceptFails \/ HandshakeDone \/ HandshakeFails \/ CreateThread

Thread(k) ==
    \/ ThreadReads(k) \/ ThreadResponds(k) \/ WriteIsFatal(k)
    \/ ReadFails(k) \/ LogFails(k) \/ ThreadEnds(k)

Controller(c) ==
    \/ Connect(c) \/ ConnectionRefused(c) \/ Connected(c) \/ ConnectFails(c)
    \/ ConnectionLost(c) \/ WakeUp(c)

User(c) == StartClient(c) \/ SendRequest(c) \/ WriteRaces(c) \/ CloseWindow(c)

Next ==
    \/ Start \/ AcceptLoop \/ Crashes \/ Faults
    \/ \E k \in Connections : Thread(k)
    \/ \E c \in Clients : Controller(c) \/ User(c)

Spec == Init /\ [][Next]_vars

\* The two machines run their threads.  Nothing else is owed: nobody has to start
\* a server or a client, to send, to crash or to cause a fault, and a race in
\* OpenSSL need not break a handshake.
FairSpec ==
    /\ Spec
    /\ WF_vars(AcceptLoop)
    /\ \A k \in Connections : WF_vars(Thread(k))
    /\ \A c \in Clients : WF_vars(Controller(c))

----------------------------------------------------------------------------
(* Properties *)

TypeOK ==
    /\ server \in {"down", "accept", "handshake", "create"}
    /\ backlog \in Seq(Connections) /\ Len(backlog) <= BACKLOG
    /\ user_list \subseteq Connections /\ Cardinality(user_list) <= MaxDescriptors
    /\ current \in user_list \cup {0}
    /\ thread \in [Connections -> {"none", "read", "respond", "exit"}]
    /\ unread \in [Connections -> 0..MaxRequests] /\ refused \subseteq Connections
    /\ owner \in [Connections -> Clients \cup {Nobody}]
    /\ controller \in [Clients -> {"off", "connect", "handshake", "read", "sleep"}]
    /\ first \in [Clients -> BOOLEAN]
    /\ client_socket \in [Clients -> Connections \cup {0}]
    /\ closed \subseteq Clients /\ frozen \subseteq Clients
    /\ broken \subseteq Connections /\ established \subseteq Connections
    /\ starts \in 0..MaxStarts /\ faults \in Nat /\ crashed \in Nat
    /\ faults + crashed <= MaxTrouble

\* However often reconnect_to_server fails and in whatever place, it leaves no
\* socket behind: what a client holds open beside the socket in use are the
\* connections it once had and lost, which nothing ever closes.
RetriesLeakNothing ==
    \A k \in Connections : owner[k] # Nobody =>
        k = client_socket[owner[k]] \/ k \in established

\* As long as there was no fault and no client crashed, a client is there on every
\* connection of the first server process: whatever its users do, closing its window
\* included, none leaves a handshake before it is done (which ends the accept loop,
\* server.c:217) and nobody's response is written to a client that is gone (SIGPIPE).
PeersStay ==
    starts = 1 /\ faults = 0 /\ crashed = 0
        => \A k \in Connections : Served(k) => ~PeerGone(k)

\* A frozen client is in its handshake: SSL_accept waits, and everybody with it.
Stalled == current # 0 /\ owner[current] \in frozen

Online(c) == controller[c] = "read" /\ ~ServerGone(client_socket[c])

\* A client that has lost its connection, or never had it, gets one or ends, as
\* soon as there is a server that stays and whose accept loop is not stalled
\* (reconnect_to_server).
ReconnectsAgain ==
    \A c \in Clients :
        <>[](server # "down" /\ ~Stalled)
            => []<>(Online(c) \/ controller[c] = "off" \/ c \in frozen)

----------------------------------------------------------------------------
(* The threads of the process are those of UchatServer *)

\* The requests of this module are all alike and answered without the database.
Request == [type |-> "ADD_CHAT", malformed |-> TRUE]

conn ==
    [k \in Connections |-> CASE thread[k] = "none" -> "closed"
                             [] thread[k] = "exit" -> "gone"
                             [] OTHER -> "open"]

Handles(k) == thread[k] = "respond"

Threads == INSTANCE UchatServer WITH
    Sessions <- Connections,
    Usernames <- {}, Digests <- {}, Bodies <- {}, Passwords <- {}, Sha256 <- << >>,
    InviteeIds <- {}, ChatIds <- {}, NamedMessages <- {}, InitUsers <- << >>,
    RequestTypes <- {Request.type}, MalformedTypes <- {Request.type},
    GarbageIds <- {0}, Garbage <- Nobody, MaxChats <- 1, MaxMessages <- 0,
    users <- << >>, chats <- 0, members <- {}, messages <- << >>,
    client_info <- [k \in Connections |-> [id |-> 0, username |-> Nobody]],
    pc <- [k \in Connections |-> IF Handles(k) THEN "respond" ELSE "recv"],
    req <- [k \in Connections |-> IF Handles(k) THEN Request ELSE [type |-> "NONE"]],
    row <- [k \in Connections |-> 0],
    out <- [k \in Connections |->
               [status |-> IF Handles(k) THEN "ERROR_JSON" ELSE "NONE", data |-> {}]]

\* The accept loop, the end of threads and of the process do to the connections
\* what UchatServer says: a session begins once, when its handshake is over, only
\* its own thread ends it while the process lives, and a session that has ended
\* reads nothing any more (server.c:193-240 and get_client_request.c:23-42).
RunsThreads == Threads!Spec
=============================================================================
