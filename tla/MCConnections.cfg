\* Two clients, a server that can be started twice and holds two sockets, one fault.
CONSTANTS
    Clients = {c1, c2}
    Nobody = Nobody
    MaxConnections <- EnoughConnections
    MaxDescriptors = 2
    BACKLOG = 1
    MaxRequests = 1
    MaxStarts = 2
    MaxTrouble = 1
SPECIFICATION FairSpec
INVARIANTS TypeOK RetriesLeakNothing 
PROPERTIES ReconnectsAgain RunsThreads
\* The server may stay down, and a client frozen.
CHECK_DEADLOCK FALSE
