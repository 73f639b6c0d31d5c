------------------------ MODULE UchatConnectionsProofs ------------------------
(***************************************************************************)
(* The connections, for any number of clients, descriptors, starts and     *)
(* faults: types, sockets that failed attempts leave behind, the peers of  *)
(* the server, and the threads' life as UchatServer has it.                *)
(***************************************************************************)
EXTENDS UchatConnections, FiniteSetTheorems, SequenceTheorems, TLAPS

----------------------------------------------------------------------------
(* The queue of connections *)

NoDuplicates(q) == \A i, j \in DOMAIN q : q[i] = q[j] => i = j

Elements(q) == {q[i] : i \in DOMAIN q}

LEMMA QueueHead ==
    ASSUME NEW q \in Seq(Connections), q # << >>, NoDuplicates(q)
    PROVE  /\ Head(q) \in Connections /\ Tail(q) \in Seq(Connections)
           /\ Len(Tail(q)) <= Len(q) /\ NoDuplicates(Tail(q))
           /\ Elements(Tail(q)) = Elements(q) \ {Head(q)}
           /\ Head(q) \in Elements(q)
<1>1. /\ Head(q) \in Connections /\ Tail(q) \in Seq(Connections)
      /\ Len(Tail(q)) = Len(q) - 1
      /\ \A i \in 1..Len(Tail(q)) : Tail(q)[i] = q[i + 1]
  BY HeadTailProperties
<1>2. Len(q) \in Nat \ {0} /\ Head(q) = q[1] /\ DOMAIN q = 1..Len(q)
  BY EmptySeq, LenProperties
<1>3. DOMAIN Tail(q) = 1..(Len(q) - 1)
  BY <1>1, LenProperties
<1>4. NoDuplicates(Tail(q))
  BY <1>1, <1>2, <1>3 DEF NoDuplicates
<1>5. ASSUME NEW x PROVE x \in Elements(Tail(q)) <=> x \in Elements(q) /\ x # Head(q)
  <2>1. ASSUME x \in Elements(Tail(q)) PROVE x \in Elements(q) /\ x # Head(q)
    <3>1. PICK i \in 1..(Len(q) - 1) : x = q[i + 1]
      BY <1>1, <1>3, <2>1 DEF Elements
    <3> QED  BY <3>1, <1>2 DEF Elements, NoDuplicates
  <2>2. ASSUME x \in Elements(q), x # Head(q) PROVE x \in Elements(Tail(q))
    <3>1. PICK i \in 1..Len(q) : x = q[i] /\ i # 1
      BY <1>2, <2>2 DEF Elements
    <3>2. i - 1 \in 1..(Len(q) - 1) /\ (i - 1) + 1 = i
      BY <3>1, <1>2
    <3>3. Tail(q)[i - 1] = x
      BY <3>1, <3>2, <1>1
    <3> QED  BY <3>2, <3>3, <1>3 DEF Elements
  <2> QED  BY <2>1, <2>2
<1>6. Elements(Tail(q)) = Elements(q) \ {Head(q)}
  BY <1>5
<1>7. 1 \in DOMAIN q /\ Len(q) - 1 <= Len(q)
  BY <1>2
<1>8. Head(q) \in Elements(q)
  BY <1>2, <1>7 DEF Elements
<1> QED  BY <1>1, <1>4, <1>6, <1>7, <1>8

LEMMA QueueAppend ==
    ASSUME NEW q \in Seq(Connections), NoDuplicates(q),
           NEW k \in Connections, k \notin Elements(q)
    PROVE  /\ Append(q, k) \in Seq(Connections) /\ Len(Append(q, k)) = Len(q) + 1
           /\ NoDuplicates(Append(q, k))
           /\ Elements(Append(q, k)) = Elements(q) \cup {k}
<1>1. /\ Append(q, k) \in Seq(Connections) /\ Len(Append(q, k)) = Len(q) + 1
      /\ \A i \in 1..Len(q) : Append(q, k)[i] = q[i]
      /\ Append(q, k)[Len(q) + 1] = k
  BY AppendProperties
<1>2. Len(q) \in Nat /\ DOMAIN q = 1..Len(q) /\ DOMAIN Append(q, k) = 1..(Len(q) + 1)
  BY <1>1, LenProperties
<1>3. \A i \in DOMAIN Append(q, k) : i \in DOMAIN q \/ i = Len(q) + 1
  BY <1>2
<1>4. NoDuplicates(Append(q, k))
  BY <1>1, <1>2, <1>3 DEF NoDuplicates, Elements
<1>5. Elements(Append(q, k)) = Elements(q) \cup {k}
  BY <1>1, <1>2, <1>3 DEF Elements
<1> QED  BY <1>1, <1>4, <1>5

----------------------------------------------------------------------------
(* Types *)

QueueInv ==
    /\ NoDuplicates(backlog)
    /\ \A k \in Waiting : k \notin user_list

\* A thread belongs to a connection of user_list, and not to one being set up.
ThreadInv ==
    /\ \A k \in Connections : thread[k] # "none" => k \in user_list \ {current}
    /\ server \in {"handshake", "create"} => current \in user_list
    /\ server \in {"accept", "down"} => current = 0
    /\ server = "down" => user_list = {} /\ backlog = << >>
    /\ starts = 0 => server = "down"

TypeInv == TypeOK /\ QueueInv /\ ThreadInv

\* A thread that has ended keeps its descriptor: user_list only grows, one by one.
LEMMA UserListGrows ==
    ASSUME TypeOK, ~Full, NEW k \in Connections
    PROVE  Cardinality(user_list \cup {k}) <= MaxDescriptors
<1>1. IsFiniteSet(user_list)
  <2>1. IsFiniteSet(Connections)
    BY ConnectionsAssumption, FS_Interval, 1 \in Int, MaxConnections \in Int DEF Connections
  <2> QED  BY <2>1, FS_Subset DEF TypeOK
<1>2. Cardinality(user_list) \in Nat
  BY <1>1, FS_CardinalityType
<1>3. Cardinality(user_list \cup {k})
         = IF k \in user_list THEN Cardinality(user_list) ELSE Cardinality(user_list) + 1
  BY <1>1, FS_AddElement
<1> QED  BY <1>2, <1>3, ConnectionsAssumption DEF Full

LEMMA DiesTypes == TypeInv /\ Dies => TypeInv'
<1> SUFFICES ASSUME TypeInv, Dies PROVE TypeInv'
  OBVIOUS
<1>1. Cardinality({}) = 0
  BY FS_EmptySet
<1>2. << >> \in Seq(Connections) /\ Len(<< >>) = 0 /\ DOMAIN << >> = {}
  OBVIOUS
<1>3. TypeOK'
  BY <1>1, <1>2, ConnectionsAssumption DEF TypeInv, TypeOK, Dies, client
<1>4. QueueInv'
  BY <1>2 DEF QueueInv, NoDuplicates, Waiting, Dies
<1>5. ThreadInv'
  BY DEF ThreadInv, Dies, TypeInv
<1> QED  BY <1>3, <1>4, <1>5 DEF TypeInv

\* Steps of the clients and the network that leave the server alone.
LEMMA ProcessKept ==
    ASSUME QueueInv, ThreadInv, UNCHANGED <<process, starts>>
    PROVE  QueueInv' /\ ThreadInv'
BY DEF QueueInv, ThreadInv, process, NoDuplicates, Waiting

\* The steps of a thread.
LEMMA ThreadKept ==
    ASSUME QueueInv, ThreadInv, TypeOK,
           UNCHANGED <<server, backlog, user_list, current, starts>>,
           NEW k \in Connections, thread[k] # "none", NEW label,
           thread' = [thread EXCEPT ![k] = label]
    PROVE  QueueInv' /\ ThreadInv'
BY DEF QueueInv, ThreadInv, NoDuplicates, Waiting, TypeOK

LEMMA ProcessTypes == TypeInv /\ (Start \/ AcceptLoop \/ \E k \in Connections : Thread(k)) => TypeInv'
<1> SUFFICES ASSUME TypeInv PROVE Start \/ AcceptLoop \/ (\E k \in Connections : Thread(k)) => TypeInv'
  OBVIOUS
<1> USE ConnectionsAssumption DEF TypeInv
<1>1. CASE Start
  BY <1>1 DEF Start, TypeOK, client, faulty, QueueInv, ThreadInv, NoDuplicates, Waiting
<1>2. CASE Accept
  <2>1. /\ Head(backlog) \in Connections /\ Tail(backlog) \in Seq(Connections)
        /\ Len(Tail(backlog)) <= Len(backlog) /\ NoDuplicates(Tail(backlog))
        /\ Elements(Tail(backlog)) = Elements(backlog) \ {Head(backlog)}
        /\ Head(backlog) \in Elements(backlog)
    BY <1>2, QueueHead DEF Accept, TypeOK, QueueInv
  <2>2. Cardinality(user_list \cup {Head(backlog)}) <= MaxDescriptors
    BY <1>2, <2>1, UserListGrows DEF Accept
  <2>3. Len(backlog) \in Nat /\ Len(Tail(backlog)) \in Nat
    BY <2>1, LenProperties DEF TypeOK
  <2>4. TypeOK'
    BY <1>2, <2>1, <2>2, <2>3 DEF Accept, TypeOK, client, faulty
  <2>5. Waiting = Elements(backlog) /\ Waiting' = Elements(Tail(backlog))
    BY <1>2 DEF Waiting, Elements, Accept
  <2>6. QueueInv'
    BY <1>2, <2>1, <2>5 DEF Accept, QueueInv
  <2>7. Head(backlog) \notin user_list
    BY <2>1, <2>5 DEF QueueInv
  <2>8. ThreadInv'
    BY <1>2, <2>1, <2>7 DEF Accept, ThreadInv, TypeOK
  <2> QED  BY <2>4, <2>6, <2>8
<1>3. CASE AcceptFails \/ HandshakeFails
  BY <1>3, DiesTypes DEF AcceptFails, HandshakeFails, TypeOK
<1>4. CASE HandshakeDone
  BY <1>4 DEF HandshakeDone, TypeOK, client, faulty, QueueInv, ThreadInv, NoDuplicates, Waiting
<1>5. CASE CreateThread
  <2>1. current \in Connections
    BY <1>5 DEF CreateThread, ThreadInv, TypeOK
  <2>2. 0 \notin Connections
    BY DEF Connections
  <2> QED
    BY <1>5, <2>1, <2>2
    DEF CreateThread, TypeOK, client, faulty, QueueInv, ThreadInv, NoDuplicates, Waiting
<1>6. ASSUME NEW k \in Connections, Thread(k) PROVE TypeInv'
  <2>1. CASE ThreadReads(k)
    <3>1. unread[k] - 1 \in 0..MaxRequests
      BY <2>1 DEF ThreadReads, TypeOK
    <3> QED  BY <2>1, <3>1, ThreadKept DEF ThreadReads, TypeOK, client, faulty
  <2>2. CASE ThreadResponds(k)
    BY <2>2, ThreadKept DEF ThreadResponds, TypeOK, client, faulty
  <2>3. CASE WriteIsFatal(k) \/ LogFails(k)
    BY <2>3, DiesTypes DEF WriteIsFatal, LogFails, TypeOK
  <2>4. CASE ReadFails(k)
    BY <2>4, ThreadKept DEF ReadFails, TypeOK, client, faulty
  <2>5. CASE ThreadEnds(k)
    <3>1. QueueInv' /\ ThreadInv'
      BY <2>5, ThreadKept DEF ThreadEnds
    <3>2. TypeOK'
      BY <2>5 DEF ThreadEnds, TypeOK, client, faulty
    <3> QED  BY <3>1, <3>2
  <2> QED  BY <1>6, <2>1, <2>2, <2>3, <2>4, <2>5 DEF Thread
<1> QED  BY <1>1, <1>2, <1>3, <1>4, <1>5, <1>6 DEF AcceptLoop

LEMMA ClientTypes ==
    ASSUME TypeInv, NEW c \in Clients, Controller(c) \/ User(c)
    PROVE  TypeInv'
<1> USE ConnectionsAssumption DEF TypeInv
<1>1. CASE Connect(c)
  <2>1. PICK k \in Connections :
           /\ Free(k)
           /\ client_socket' = [client_socket EXCEPT ![c] = k]
           /\ owner' = [owner EXCEPT ![k] = c]
           /\ backlog' = Append(backlog, k)
           /\ established' = established \ {k}
    BY <1>1 DEF Connect
  <2>2. k \notin Waiting /\ k \notin user_list /\ Waiting = Elements(backlog)
    BY <2>1 DEF Free, Served, Waiting, Elements
  <2>3. /\ backlog' \in Seq(Connections) /\ Len(backlog') = Len(backlog) + 1
        /\ NoDuplicates(backlog') /\ Elements(backlog') = Waiting \cup {k}
    BY <2>1, <2>2, QueueAppend DEF TypeOK, QueueInv
  <2>4. Len(backlog) \in Nat /\ Len(backlog) < BACKLOG
    BY <1>1, LenProperties DEF Connect, TypeOK
  <2>5. Len(backlog') <= BACKLOG
    BY <2>3, <2>4
  <2>6. TypeOK'
    BY <1>1, <2>1, <2>3, <2>5 DEF Connect, Goto, TypeOK, faulty
  <2>7. QueueInv'
    BY <1>1, <2>2, <2>3 DEF Connect, QueueInv, Waiting, Elements
  <2>8. ThreadInv'
    BY <1>1 DEF Connect, ThreadInv
  <2> QED  BY <2>6, <2>7, <2>8
<1>2. CASE ConnectionRefused(c)
  BY <1>2, ProcessKept DEF ConnectionRefused, GiveUp, Goto, TypeOK, process, faulty
<1>3. CASE Connected(c)
  <2>1. QueueInv' /\ ThreadInv'
    BY <1>3, ProcessKept DEF Connected
  <2>2. current \in Connections
    BY <1>3 DEF Connected, ThreadInv, TypeOK
  <2>3. TypeOK'
    BY <1>3, <2>2 DEF Connected, Goto, TypeOK, process, faulty
  <2> QED  BY <2>1, <2>3
<1>4. CASE LeaveHandshake(c)
  <2>1. QueueInv' /\ ThreadInv'
    BY <1>4, ProcessKept DEF LeaveHandshake
  <2>2. TypeOK'
    BY <1>4 DEF LeaveHandshake, Close, Forget, GiveUp, Goto, TypeOK, process
  <2> QED  BY <2>1, <2>2
<1>5. CASE ConnectionLost(c)
  BY <1>5, ProcessKept DEF ConnectionLost, Goto, TypeOK, process, faulty
<1>6. CASE WakeUp(c)
  BY <1>6, ProcessKept DEF WakeUp, Goto, TypeOK, process, faulty
<1>7. CASE StartClient(c)
  BY <1>7, ProcessKept DEF StartClient, Goto, TypeOK, process, faulty
<1>8. CASE SendRequest(c)
  <2>1. QueueInv' /\ ThreadInv'
    BY <1>8, ProcessKept DEF SendRequest
  <2>2. \A k \in Connections : unread[k] < MaxRequests => unread[k] + 1 \in 0..MaxRequests
    BY DEF TypeOK
  <2>3. TypeOK'
    BY <1>8, <2>2 DEF SendRequest, TypeOK, process, client, faulty
  <2> QED  BY <2>1, <2>3
<1>9. CASE CloseWindow(c)
  BY <1>9, ProcessKept DEF CloseWindow, TypeOK, process, faulty
<1> QED
  BY <1>1, <1>2, <1>3, <1>4, <1>5, <1>6, <1>7, <1>8, <1>9
  DEF Controller, User, ConnectFails, WriteRaces

LEMMA EndTypes ==
    ASSUME TypeInv, NEW c \in Clients, ClientEnds(c),
           faults' \in Nat /\ crashed' \in Nat /\ faults' + crashed' <= MaxTrouble
    PROVE  TypeInv'
<1>1. QueueInv' /\ ThreadInv'
  BY ProcessKept DEF ClientEnds, TypeInv
<1>2. owner' \in [Connections -> Clients \cup {Nobody}]
  BY DEF ClientEnds, TypeInv, TypeOK
<1>3. TypeOK'
  BY <1>2 DEF ClientEnds, Forget, Goto, TypeInv, TypeOK, process
<1> QED  BY <1>1, <1>3 DEF TypeInv

LEMMA FaultTypes == TypeInv /\ (Crashes \/ Faults) => TypeInv'
<1> SUFFICES ASSUME TypeInv, Crashes \/ Faults PROVE TypeInv'
  OBVIOUS
<1>1. Fault => faults' \in Nat /\ crashed' \in Nat /\ faults' + crashed' <= MaxTrouble
  BY ConnectionsAssumption DEF Fault, MoreTrouble, TypeInv, TypeOK
<1>2. CASE LibraryFails \/ \E k \in Connections : ThreadCrashes(k)
  BY <1>2, DiesTypes DEF LibraryFails, ThreadCrashes
<1>3. ASSUME NEW c \in Clients, ClientKilled(c) PROVE TypeInv'
  BY <1>1, <1>3, EndTypes DEF ClientKilled
<1>4. ASSUME NEW c \in Clients, ClientFreezes(c) PROVE TypeInv'
  BY <1>1, <1>4, ProcessKept DEF ClientFreezes, TypeInv, TypeOK, process, client
<1>5. ASSUME NEW k \in Connections, NetworkBreaks(k) PROVE TypeInv'
  BY <1>1, <1>5, ProcessKept DEF NetworkBreaks, TypeInv, TypeOK, process, client
<1>6. ASSUME NEW c \in Clients, ClientCrashes(c) PROVE TypeInv'
  <2>1. faults' \in Nat /\ crashed' \in Nat /\ faults' + crashed' <= MaxTrouble
    BY <1>6, ConnectionsAssumption DEF ClientCrashes, MoreTrouble, TypeInv, TypeOK
  <2> QED  BY <1>6, <2>1, EndTypes DEF ClientCrashes
<1> QED  BY <1>2, <1>3, <1>4, <1>5, <1>6 DEF Crashes, Faults

LEMMA TypeInit == Init => TypeInv
<1>1. Cardinality({}) = 0
  BY FS_EmptySet
<1>2. << >> \in Seq(Connections) /\ Len(<< >>) = 0 /\ DOMAIN << >> = {}
  OBVIOUS
<1> QED
  BY <1>1, <1>2, ConnectionsAssumption
  DEF Init, TypeInv, TypeOK, QueueInv, ThreadInv, NoDuplicates, Waiting

LEMMA TypeStep == TypeInv /\ [Next]_vars => TypeInv'
<1> SUFFICES ASSUME TypeInv, [Next]_vars PROVE TypeInv'
  OBVIOUS
<1>1. CASE UNCHANGED vars
  BY <1>1, ProcessKept DEF vars, process, client, faulty, TypeInv, TypeOK
<1> QED  BY <1>1, ProcessTypes, ClientTypes, FaultTypes DEF Next

\* Every variable keeps its type: the backlog and the descriptors their limits,
\* and a handshake under way has its entry in user_list (the accept loop of main).
THEOREM ConnectionTypes == Spec => []TypeOK
<1>1. Spec => []TypeInv
  BY TypeInit, TypeStep, PTL DEF Spec
<1>2. TypeInv => TypeOK
  BY DEF TypeInv
<1> QED  BY <1>1, <1>2, PTL

----------------------------------------------------------------------------
(* The clients' sockets *)

\* A client has a socket from connect to the end of the connection; it is its
\* own, and once it reads from it the handshake is over.
SocketInv ==
    \A c \in Clients :
        IF controller[c] \in {"handshake", "read"}
        THEN /\ client_socket[c] \in Connections /\ owner[client_socket[c]] = c
             /\ controller[c] = "read" => client_socket[c] \in established
        ELSE client_socket[c] = 0

SocketsInv == TypeOK /\ SocketInv /\ RetriesLeakNothing

SocketVars == <<owner, controller, client_socket, established>>

LEMMA SocketsUntouched ==
    SocketInv /\ RetriesLeakNothing /\ UNCHANGED SocketVars
        => SocketInv' /\ RetriesLeakNothing'
BY DEF SocketInv, RetriesLeakNothing, SocketVars

\* The server's end takes nothing of what a client keeps.
LEMMA SocketsDies ==
    SocketsInv /\ Dies => SocketInv' /\ RetriesLeakNothing'
BY ConnectionsAssumption DEF SocketsInv, SocketInv, RetriesLeakNothing, Dies, client, TypeOK

LEMMA SocketsProcess ==
    ASSUME SocketsInv, Start \/ AcceptLoop \/ \E k \in Connections : Thread(k)
    PROVE  SocketInv' /\ RetriesLeakNothing'
<1>1. CASE \/ Start \/ Accept \/ HandshakeDone \/ CreateThread
           \/ \E k \in Connections :
                 ThreadReads(k) \/ ThreadResponds(k) \/ ReadFails(k) \/ ThreadEnds(k)
  <2>1. UNCHANGED SocketVars
    BY <1>1 DEF Start, Accept, HandshakeDone, CreateThread, ThreadReads,
                ThreadResponds, ReadFails, ThreadEnds, SocketVars, client
  <2> QED  BY <2>1, SocketsUntouched DEF SocketsInv
<1>2. CASE Dies
  BY <1>2, SocketsDies
<1> QED
  BY <1>1, <1>2 DEF AcceptLoop, AcceptFails, HandshakeFails, Thread, WriteIsFatal, LogFails

LEMMA SocketsClient ==
    ASSUME SocketsInv, NEW c \in Clients, Controller(c) \/ User(c)
    PROVE  SocketInv' /\ RetriesLeakNothing'
<1> USE ConnectionsAssumption
<1>0. 0 \notin Connections
  BY DEF Connections
<1>1. CASE Connect(c)
  <2>1. PICK k \in Connections :
           /\ Free(k)
           /\ client_socket' = [client_socket EXCEPT ![c] = k]
           /\ owner' = [owner EXCEPT ![k] = c]
           /\ established' = established \ {k}
    BY <1>1 DEF Connect
  <2>2. client_socket[c] = 0 /\ owner[k] = Nobody /\ controller[c] = "connect"
    BY <1>1, <2>1 DEF Connect, At, Free, SocketsInv, SocketInv
  <2>3. controller' = [controller EXCEPT ![c] = "handshake"]
    BY <1>1 DEF Connect, Goto
  <2>4. SocketInv'
    BY <2>1, <2>2, <2>3 DEF SocketsInv, SocketInv, TypeOK
  <2>5. RetriesLeakNothing'
    BY <1>0, <2>1, <2>2, <2>3 DEF SocketsInv, RetriesLeakNothing, TypeOK
  <2> QED  BY <2>4, <2>5
<1>2. CASE ConnectionRefused(c) \/ WakeUp(c) \/ StartClient(c)
  <2>1. PICK place \in {"off", "connect", "sleep"} :
           controller' = [controller EXCEPT ![c] = place]
    BY <1>2 DEF ConnectionRefused, WakeUp, StartClient, GiveUp, Goto
  <2>2. UNCHANGED <<owner, client_socket, established>> /\ controller[c] \notin {"handshake", "read"}
    BY <1>2 DEF ConnectionRefused, WakeUp, StartClient, At
  <2> QED
    BY <2>1, <2>2 DEF SocketsInv, SocketInv, RetriesLeakNothing, TypeOK
<1>3. CASE Connected(c)
  BY <1>3 DEF Connected, At, Goto, SocketsInv, SocketInv, RetriesLeakNothing, TypeOK
<1>4. CASE LeaveHandshake(c)
  <2> DEFINE k == client_socket[c]
  <2>1. k \in Connections /\ owner[k] = c /\ controller[c] = "handshake"
    BY <1>4 DEF LeaveHandshake, At, SocketsInv, SocketInv
  <2>2. /\ owner' = [owner EXCEPT ![k] = Nobody]
        /\ client_socket' = [client_socket EXCEPT ![c] = 0]
        /\ established' \subseteq established /\ established \ {k} \subseteq established'
    BY <1>4 DEF LeaveHandshake, Close, Forget
  <2>3. PICK place \in {"off", "sleep"} : controller' = [controller EXCEPT ![c] = place]
    BY <1>4 DEF LeaveHandshake, GiveUp, Goto
  <2>4. SocketInv'
    BY <2>1, <2>2, <2>3 DEF SocketsInv, SocketInv, TypeOK
  <2>5. RetriesLeakNothing'
    BY <2>1, <2>2, <2>3 DEF SocketsInv, RetriesLeakNothing, TypeOK
  <2> QED  BY <2>4, <2>5
<1>5. CASE ConnectionLost(c)
  BY <1>5 DEF ConnectionLost, At, Goto, SocketsInv, SocketInv, RetriesLeakNothing, TypeOK
<1>6. CASE SendRequest(c) \/ CloseWindow(c)
  BY <1>6, SocketsUntouched DEF SendRequest, CloseWindow, SocketsInv, SocketVars, client
<1> QED
  BY <1>1, <1>2, <1>3, <1>4, <1>5, <1>6
  DEF Controller, User, ConnectFails, WriteRaces

LEMMA SocketsEnd ==
    ASSUME SocketsInv, NEW c \in Clients, ClientEnds(c)
    PROVE  SocketInv' /\ RetriesLeakNothing'
<1>1. /\ owner' = [k \in Connections |-> IF owner[k] = c THEN Nobody ELSE owner[k]]
      /\ client_socket' = [client_socket EXCEPT ![c] = 0]
      /\ controller' = [controller EXCEPT ![c] = "off"]
  BY DEF ClientEnds, Goto
<1>2. \A k \in Connections : owner[k] # c => (k \in established' <=> k \in established)
  BY DEF ClientEnds, Forget, SocketsInv, TypeOK
<1>3. SocketInv'
  BY <1>1, <1>2 DEF SocketsInv, SocketInv, TypeOK
<1>4. RetriesLeakNothing'
  BY <1>1, <1>2 DEF SocketsInv, RetriesLeakNothing, TypeOK
<1> QED  BY <1>3, <1>4

LEMMA SocketsFaults ==
    SocketsInv /\ (Crashes \/ Faults) => SocketInv' /\ RetriesLeakNothing'
<1> SUFFICES ASSUME SocketsInv, Crashes \/ Faults PROVE SocketInv' /\ RetriesLeakNothing'
  OBVIOUS
<1>1. CASE LibraryFails \/ \E k \in Connections : ThreadCrashes(k)
  BY <1>1, SocketsDies DEF LibraryFails, ThreadCrashes
<1>2. CASE \E c \in Clients : ClientKilled(c) \/ ClientCrashes(c)
  BY <1>2, SocketsEnd DEF ClientKilled, ClientCrashes
<1>3. CASE \/ \E c \in Clients : ClientFreezes(c)
           \/ \E k \in Connections : NetworkBreaks(k)
  BY <1>3, SocketsUntouched DEF ClientFreezes, NetworkBreaks, SocketsInv, SocketVars, client
<1> QED  BY <1>1, <1>2, <1>3 DEF Crashes, Faults

LEMMA SocketsStep == SocketsInv /\ [Next]_vars => SocketInv' /\ RetriesLeakNothing'
<1> SUFFICES ASSUME SocketsInv, [Next]_vars PROVE SocketInv' /\ RetriesLeakNothing'
  OBVIOUS
<1>1. CASE UNCHANGED vars
  BY <1>1, SocketsUntouched DEF vars, client, SocketsInv, SocketVars
<1> QED  BY <1>1, SocketsProcess, SocketsClient, SocketsFaults DEF Next

\* However long a client runs, what it holds open beside its socket in use are
\* connections it once had: no failed attempt of reconnect_to_server leaves one.
THEOREM RetriesClose == Spec => []RetriesLeakNothing
<1>1. Init => SocketInv /\ RetriesLeakNothing
  BY DEF Init, SocketInv, RetriesLeakNothing
<1>2. TypeOK /\ SocketInv /\ RetriesLeakNothing /\ [Next]_vars
        => SocketInv' /\ RetriesLeakNothing'
  BY SocketsStep DEF SocketsInv
<1>3. Spec => [](SocketInv /\ RetriesLeakNothing)
  BY <1>1, <1>2, ConnectionTypes, PTL DEF Spec
<1> QED  BY <1>3, PTL

----------------------------------------------------------------------------
(* The peers of the server *)

\* The server is, or will be, in its first run, there was no fault and no client's crash.
Calm == faults = 0 /\ crashed = 0 /\ (starts = 0 \/ (starts = 1 /\ server # "down"))

\* Then nobody has left anything, and no client is past its first connection.
Unharmed ==
    /\ broken = {} /\ refused = {}
    /\ \A k \in Connections : Served(k) => owner[k] # Nobody
    /\ \A c \in Clients :
          /\ controller[c] \in {"handshake", "read"} => Served(client_socket[c])
          /\ ~first[c] => controller[c] = "read"

CalmInv == Calm => Unharmed

Inv == TypeInv /\ SocketsInv /\ CalmInv

LEMMA CalmDies == ThreadInv /\ server # "down" /\ Dies => ~Calm'
BY DEF ThreadInv, Dies, Calm

LEMMA CalmProcess ==
    ASSUME Inv, Start \/ AcceptLoop \/ \E k \in Connections : Thread(k), Calm'
    PROVE  Unharmed'
<1> USE DEF Inv, TypeInv, SocketsInv
<1>1. CASE Start
  <2>1. Calm
    <3>1. starts' = starts + 1 /\ faults' = faults /\ crashed' = crashed /\ starts \in Nat
      BY <1>1, ConnectionsAssumption DEF Start, faulty, TypeOK
    <3>2. faults' = 0 /\ crashed' = 0 /\ (starts' = 0 \/ starts' = 1)
      BY DEF Calm
    <3>3. faults = 0 /\ crashed = 0 /\ starts = 0
      BY <3>1, <3>2
    <3> QED  BY <3>3 DEF Calm
  <2>2. UNCHANGED <<broken, refused, owner, controller, client_socket, first,
                    user_list, backlog>>
    BY <1>1 DEF Start, faulty, client
  <2> QED  BY <2>1, <2>2 DEF CalmInv, Unharmed, Served, Waiting
<1>2. CASE Accept
  <2>1. Calm /\ UNCHANGED <<broken, refused, owner, controller, client_socket, first>>
    BY <1>2 DEF Accept, Calm, faulty, client
  <2>2. \A k : Served(k)' <=> Served(k)
    <3>1. /\ Elements(Tail(backlog)) = Elements(backlog) \ {Head(backlog)}
          /\ Head(backlog) \in Elements(backlog)
      BY <1>2, QueueHead DEF Accept, TypeOK, QueueInv
    <3>2. Waiting = Elements(backlog) /\ Waiting' = Elements(Tail(backlog))
      BY <1>2 DEF Waiting, Elements, Accept
    <3> QED  BY <1>2, <3>1, <3>2 DEF Accept, Served
  <2> QED  BY <2>1, <2>2 DEF CalmInv, Unharmed
<1>3. CASE HandshakeDone \/ CreateThread
  BY <1>3 DEF HandshakeDone, CreateThread, Calm, CalmInv, Unharmed, Served, Waiting,
              client, faulty
<1>4. ASSUME NEW k \in Connections,
             ThreadReads(k) \/ ThreadResponds(k) \/ ReadFails(k) \/ ThreadEnds(k)
      PROVE  Unharmed'
  <2>1. /\ Calm
        /\ UNCHANGED <<broken, owner, controller, client_socket, first, user_list, backlog>>
    BY <1>4 DEF ThreadReads, ThreadResponds, ReadFails, ThreadEnds, Calm, faulty, client
  <2>2. thread[k] # "none" => ~PeerGone(k)
    BY <2>1 DEF CalmInv, Unharmed, ThreadInv, Served, PeerGone
  <2>3. refused' \subseteq refused
    BY <1>4, <2>2 DEF ThreadReads, ThreadResponds, ReadFails, ThreadEnds
  <2> QED  BY <2>1, <2>3 DEF CalmInv, Unharmed, Served, Waiting
<1>5. ~Dies \/ ~(AcceptFails \/ HandshakeFails \/ \E k \in Connections : Thread(k))
  <2>1. AcceptFails \/ HandshakeFails => server # "down"
    BY DEF AcceptFails, HandshakeFails
  <2>2. ASSUME NEW k \in Connections, Thread(k) PROVE server # "down"
    <3>1. thread[k] # "none"
      BY <2>2 DEF Thread, ThreadReads, ThreadResponds, WriteIsFatal, ReadFails,
                  LogFails, ThreadEnds
    <3> QED  BY <3>1 DEF ThreadInv
  <2> QED  BY <2>1, <2>2, CalmDies
<1> QED
  BY <1>1, <1>2, <1>3, <1>4, <1>5
  DEF AcceptLoop, AcceptFails, HandshakeFails, Thread, WriteIsFatal, LogFails

LEMMA CalmClient ==
    ASSUME Inv, NEW c \in Clients, Controller(c) \/ User(c), Calm'
    PROVE  Unharmed'
<1> USE ConnectionsAssumption DEF Inv, TypeInv, SocketsInv
<1>1. Calm
  BY DEF Controller, User, Connect, ConnectionRefused, Connected, ConnectFails,
         LeaveHandshake, ConnectionLost, WakeUp, StartClient, SendRequest, WriteRaces,
         CloseWindow, Calm, process, faulty
<1>2. Unharmed
  BY <1>1 DEF CalmInv
<1>3. CASE Connect(c)
  <2>1. PICK k \in Connections :
           /\ Free(k)
           /\ client_socket' = [client_socket EXCEPT ![c] = k]
           /\ owner' = [owner EXCEPT ![k] = c]
           /\ backlog' = Append(backlog, k)
    BY <1>3 DEF Connect
  <2>2. /\ controller' = [controller EXCEPT ![c] = "handshake"] /\ controller[c] = "connect"
        /\ UNCHANGED <<first, broken, refused, user_list>>
    BY <1>3 DEF Connect, Goto, At, faulty
  <2>3. \A j : Served(j)' <=> Served(j) \/ j = k
    <3>1. k \notin Elements(backlog) /\ Waiting = Elements(backlog)
      BY <2>1 DEF Free, Served, Waiting, Elements
    <3>2. Elements(backlog') = Elements(backlog) \cup {k}
      BY <2>1, <3>1, QueueAppend DEF TypeOK, QueueInv
    <3> QED  BY <2>2, <3>1, <3>2 DEF Served, Waiting, Elements
  <2>4. ASSUME NEW j \in Connections, Served(j)' PROVE owner'[j] # Nobody
    BY <1>2, <2>1, <2>3, <2>4 DEF Unharmed, TypeOK
  <2>5. ASSUME NEW d \in Clients
        PROVE  /\ controller'[d] \in {"handshake", "read"} => Served(client_socket[d])' 
               /\ ~first'[d] => controller'[d] = "read"
    <3>1. CASE d = c
      <4>1. Served(client_socket[d])'
        BY <2>1, <2>3, <3>1 DEF TypeOK
      <4> QED  BY <1>2, <2>2, <3>1, <4>1 DEF Unharmed
    <3>2. CASE d # c
      <4>1. client_socket'[d] = client_socket[d] /\ controller'[d] = controller[d]
        BY <2>1, <2>2, <3>2 DEF TypeOK
      <4> QED  BY <1>2, <2>2, <2>3, <4>1 DEF Unharmed
    <3> QED  BY <3>1, <3>2
  <2> QED  BY <1>2, <2>2, <2>4, <2>5 DEF Unharmed
<1>4. CASE ConnectionRefused(c) \/ WakeUp(c) \/ StartClient(c)
  <2>1. PICK place \in {"off", "connect", "sleep"} :
           controller' = [controller EXCEPT ![c] = place]
    BY <1>4 DEF ConnectionRefused, WakeUp, StartClient, GiveUp, Goto
  <2>2. /\ UNCHANGED <<owner, client_socket, first, broken, refused, user_list, backlog>>
        /\ first[c]
    BY <1>2, <1>4 DEF ConnectionRefused, WakeUp, StartClient, GiveUp, At, process,
                      faulty, Unharmed, TypeOK
  <2> QED  BY <1>2, <2>1, <2>2 DEF Unharmed, Served, Waiting, TypeOK
<1>5. CASE Connected(c)
  BY <1>2, <1>5 DEF Connected, At, Goto, Unharmed, Served, Waiting, TypeOK, process, faulty
<1>6. ~LeaveHandshake(c) \/ ~(ConnectFails(c) \/ WriteRaces(c))
  BY <1>2 DEF ConnectFails, WriteRaces, LeaveHandshake, At, ServerGone, Unharmed
<1>7. ~ConnectionLost(c)
  BY <1>2 DEF ConnectionLost, At, ServerGone, Unharmed
<1>8. CASE SendRequest(c) \/ CloseWindow(c)
  BY <1>2, <1>8 DEF SendRequest, CloseWindow, Unharmed, Served, Waiting, process,
                    client, faulty
<1> QED
  BY <1>3, <1>4, <1>5, <1>6, <1>7, <1>8
  DEF Controller, User, ConnectFails, WriteRaces

LEMMA TroubleCounts == TypeInv /\ (Crashes \/ Faults) => ~Calm'
<1> SUFFICES ASSUME TypeInv, Crashes \/ Faults PROVE ~Calm'
  OBVIOUS
<1>1. faults \in Nat /\ crashed \in Nat
  BY DEF TypeInv, TypeOK
<1>2. CASE Faults
  <2>1. faults' = faults + 1
    BY <1>2 DEF Faults, ClientKilled, ClientFreezes, NetworkBreaks, Fault
  <2> QED  BY <1>1, <2>1 DEF Calm
<1>3. CASE \E c \in Clients : ClientCrashes(c)
  <2>1. crashed' = crashed + 1
    BY <1>3 DEF ClientCrashes
  <2> QED  BY <1>1, <2>1 DEF Calm
<1>4. CASE LibraryFails \/ \E k \in Connections : ThreadCrashes(k)
  <2>1. server # "down" /\ Dies
    BY <1>4 DEF LibraryFails, ThreadCrashes, TypeInv, ThreadInv
  <2> QED  BY <2>1, CalmDies DEF TypeInv
<1> QED  BY <1>2, <1>3, <1>4 DEF Crashes

LEMMA CalmStep == Inv /\ [Next]_vars => CalmInv'
<1> SUFFICES ASSUME Inv, [Next]_vars, Calm' PROVE Unharmed'
  BY DEF CalmInv
<1>1. CASE UNCHANGED vars
  BY <1>1 DEF vars, process, client, faulty, Inv, CalmInv, Calm, Unharmed, Served, Waiting
<1>2. ~Crashes /\ ~Faults
  BY TroubleCounts DEF Inv
<1> QED  BY <1>1, <1>2, CalmProcess, CalmClient DEF Next

LEMMA Invariance == Spec => []Inv
<1>1. Init => CalmInv
  BY ConnectionsAssumption
  DEF Init, CalmInv, Unharmed, Served, Waiting
<1>2. Spec => [](TypeInv /\ SocketInv /\ RetriesLeakNothing)
  <2>1. Init => SocketInv /\ RetriesLeakNothing
    BY DEF Init, SocketInv, RetriesLeakNothing
  <2>2. TypeInv /\ SocketInv /\ RetriesLeakNothing /\ [Next]_vars
          => SocketInv' /\ RetriesLeakNothing'
    BY SocketsStep DEF SocketsInv, TypeInv
  <2> QED  BY TypeInit, TypeStep, <2>1, <2>2, PTL DEF Spec
<1>3. TypeInv /\ SocketInv /\ RetriesLeakNothing /\ CalmInv /\ [Next]_vars => CalmInv'
  BY CalmStep DEF Inv, SocketsInv, TypeInv
<1>4. TypeInv /\ SocketInv /\ RetriesLeakNothing /\ CalmInv => Inv
  BY DEF Inv, SocketsInv, TypeInv
<1> QED  BY <1>1, <1>2, <1>3, <1>4, PTL DEF Spec

\* In the first run of the server, as long as there is no fault and no client's crash,
\* a client is at the other end of every connection the server has: the accept loop
\* meets no failed handshake (server.c:217), no thread a peer that is gone.
THEOREM PeersAreThere == Spec => []PeersStay
<1>1. ASSUME Inv PROVE PeersStay
  <2> SUFFICES ASSUME starts = 1, faults = 0, crashed = 0, NEW k \in Connections, Served(k)
               PROVE  ~PeerGone(k)
    BY DEF PeersStay
  <2>1. server # "down"
    <3>1. server = "down" => user_list = {} /\ backlog = << >>
      BY <1>1 DEF Inv, TypeInv, ThreadInv
    <3>2. backlog = << >> => Waiting = {}
      BY DEF Waiting
    <3> QED  BY <3>1, <3>2 DEF Served
  <2>2. Unharmed
    BY <1>1, <2>1 DEF Inv, CalmInv, Calm
  <2> QED  BY <2>2 DEF Unharmed, PeerGone
<1> QED  BY <1>1, Invariance, PTL

----------------------------------------------------------------------------
(* The threads of UchatServer *)

\* What UchatServer sees is a function of the threads' places alone.
LEMMA ThreadsUntouched == thread' = thread => UNCHANGED Threads!vars
BY DEF Threads!vars, Threads!tables, Threads!session, conn, Handles, Request

LEMMA DiesRefines == Dies => Threads!Crash
BY DEF Dies, Threads!Crash, Threads!Die, Threads!NoClient, Threads!NoRequest,
       Threads!NoResponse, Threads!Response, Threads!tables, conn, Handles, Request

LEMMA CreateThreadRefines ==
    ASSUME TypeInv, CreateThread
    PROVE  current \in Connections /\ Threads!Connect(current)
<1>1. current \in Connections /\ thread[current] = "none"
  BY DEF CreateThread, TypeInv, TypeOK, ThreadInv
<1>2. thread' = [thread EXCEPT ![current] = "read"] /\ thread \in [Connections -> {"none", "read", "respond", "exit"}]
  BY DEF CreateThread, TypeInv, TypeOK
<1>3. conn[current] = "closed" /\ conn' = [conn EXCEPT ![current] = "open"]
  BY <1>1, <1>2 DEF conn
<1>4. \A k \in Connections : Handles(k)' = Handles(k)
  BY <1>1, <1>2 DEF Handles
<1> QED
  BY <1>1, <1>3, <1>4 DEF Threads!Connect, Threads!tables, Request

LEMMA RequestIsOne == Request \in Threads!Requests /\ Threads!IsMalformed(Request)
<1>1. Request.type = "ADD_CHAT" /\ Request \in [type : {"ADD_CHAT"}, malformed : {TRUE}]
  BY DEF Request
<1>2. "ADD_CHAT" \in Threads!ParsedTypes
  BY DEF Threads!ParsedTypes, Threads!HandledTypes, Threads!FirstStatement
<1>3. Request \in [type : Threads!ParsedTypes \cap {Request.type}, malformed : {TRUE}]
  BY <1>1, <1>2
<1>4. Request \in Threads!AllRequests
  BY <1>3 DEF Threads!AllRequests
<1>5. Threads!IsMalformed(Request)
  BY DEF Threads!IsMalformed, Request
<1> QED  BY <1>1, <1>4, <1>5 DEF Threads!Requests

LEMMA ThreadRefines ==
    ASSUME TypeInv, NEW k \in Connections, Thread(k)
    PROVE  \/ Threads!Crash
           \/ \E r \in Threads!Requests : Threads!Receive(k, r)
           \/ Threads!WriteResponse(k)
           \/ Threads!PeerCloses(k) \/ Threads!ThreadExits(k)
<1>0. thread \in [Connections -> {"none", "read", "respond", "exit"}]
  BY DEF TypeInv, TypeOK
<1>1. CASE ThreadReads(k)
  <2>1. thread' = [thread EXCEPT ![k] = "respond"] /\ thread[k] = "read"
    BY <1>1 DEF ThreadReads
  <2>2. conn' = conn /\ conn[k] = "open"
    BY <1>0, <2>1 DEF conn
  <2>3. ~Handles(k) /\ \A j \in Connections : Handles(j)' <=> Handles(j) \/ j = k
    BY <1>0, <2>1 DEF Handles
  <2>4. Request.type = "ADD_CHAT"
    BY DEF Request
  <2>5. Threads!Receive(k, Request)
    <3>1. Threads!WithinBounds(Request)
      BY <2>4 DEF Threads!WithinBounds
    <3>2. Request.type \notin Threads!SilentTypes
      BY <2>4 DEF Threads!SilentTypes
    <3>3. Request' = Request
      BY DEF Request
    <3>4. Threads!Respond(k, "ERROR_JSON", {})
      BY <2>3 DEF Threads!Respond, Threads!Goto, Threads!Response
    <3> QED
      BY <2>2, <2>3, <3>1, <3>2, <3>3, <3>4, RequestIsOne
      DEF Threads!Receive, Threads!tables
  <2> QED  BY <2>5, RequestIsOne
<1>2. CASE ThreadResponds(k)
  <2>1. thread' = [thread EXCEPT ![k] = "read"] /\ thread[k] = "respond"
    BY <1>2 DEF ThreadResponds
  <2>2. conn' = conn
    BY <1>0, <2>1 DEF conn
  <2>3. Handles(k) /\ \A j \in Connections : Handles(j)' <=> Handles(j) /\ j # k
    BY <1>0, <2>1 DEF Handles
  <2> QED
    BY <2>2, <2>3
    DEF Threads!WriteResponse, Threads!Goto, Threads!NoRequest, Threads!NoResponse,
        Threads!Response, Threads!tables, Request
<1>3. CASE WriteIsFatal(k) \/ LogFails(k)
  BY <1>3, DiesRefines DEF WriteIsFatal, LogFails
<1>4. CASE ReadFails(k)
  <2>1. thread' = [thread EXCEPT ![k] = "exit"] /\ thread[k] = "read"
    BY <1>4 DEF ReadFails
  <2>2. conn[k] = "open" /\ conn' = [conn EXCEPT ![k] = "gone"]
    BY <1>0, <2>1 DEF conn
  <2>3. \A j \in Connections : Handles(j)' = Handles(j)
    BY <1>0, <2>1 DEF Handles
  <2> QED  BY <2>2, <2>3 DEF Threads!PeerCloses, Threads!tables, Request
<1>5. CASE ThreadEnds(k)
  <2>1. thread' = [thread EXCEPT ![k] = "none"] /\ thread[k] = "exit"
    BY <1>5 DEF ThreadEnds
  <2>2. conn[k] = "gone" /\ conn' = [conn EXCEPT ![k] = "closed"]
    BY <1>0, <2>1 DEF conn
  <2>3. ~Handles(k) /\ \A j \in Connections : Handles(j)' = Handles(j)
    BY <1>0, <2>1 DEF Handles
  <2> QED
    BY <2>2, <2>3 DEF Threads!ThreadExits, Threads!NoClient, Threads!tables, Request
<1> QED  BY <1>1, <1>2, <1>3, <1>4, <1>5 DEF Thread

LEMMA StepRefines == TypeInv /\ [Next]_vars => [Threads!Next]_(Threads!vars)
<1> SUFFICES ASSUME TypeInv, [Next]_vars PROVE [Threads!Next]_(Threads!vars)
  OBVIOUS
<1>1. CASE UNCHANGED vars \/ Start \/ Accept \/ HandshakeDone
  BY <1>1, ThreadsUntouched DEF vars, process, Start, Accept, HandshakeDone
<1>2. CASE Dies
  BY <1>2, DiesRefines DEF Threads!Next
<1>3. CASE CreateThread
  BY <1>3, CreateThreadRefines DEF Threads!Next, Threads!Connection
<1>4. ASSUME NEW k \in Connections, Thread(k) PROVE Threads!Next
  BY <1>4, ThreadRefines DEF Threads!Next, Threads!Connection
<1>5. ASSUME NEW c \in Clients, Controller(c) \/ User(c) PROVE thread' = thread
  BY <1>5 DEF Controller, User, Connect, ConnectionRefused, Connected, ConnectFails,
              LeaveHandshake, ConnectionLost, WakeUp, StartClient, SendRequest,
              WriteRaces, CloseWindow, process
<1>6. ASSUME Crashes \/ Faults PROVE Dies \/ thread' = thread
  BY <1>6 DEF Crashes, LibraryFails, ThreadCrashes, ClientCrashes, ClientEnds,
              Faults, ClientKilled, ClientFreezes, NetworkBreaks, process
<1> QED
  BY <1>1, <1>2, <1>3, <1>4, <1>5, <1>6, ThreadsUntouched
  DEF Next, AcceptLoop, AcceptFails, HandshakeFails

\* The accept loop and the threads' ends do to the connections what UchatServer
\* says, so what is proved and checked of its sessions holds in this process.
THEOREM ThreadsAreServed == Spec => RunsThreads
<1>1. Init => Threads!Init
  BY DEF Init, Threads!Init, Threads!NoClient, Threads!NoRequest, Threads!NoResponse,
         Threads!Response, conn, Handles, Request
<1>2. Spec => []TypeInv
  BY TypeInit, TypeStep, PTL DEF Spec
<1> QED  BY <1>1, <1>2, StepRefines, PTL DEF Spec, RunsThreads, Threads!Spec
=============================================================================
