\* A user of the file and one who has to sign up share a client; the connection, a
\* reply or a query may fail once; fair but for the user and the faults.
CONSTANTS
    Usernames = {"ann", "bob"}
    Digests = {"d1", "d2"}
    Bodies = {}
    InitUsers <- OneUser
    GarbageIds = {0, 2}
    Garbage = Garbage
    MaxChats = 1
    MaxInFlight = 1
    MaxPolls = 1
    MaxTimeOuts = 2
    MaxFaults = 1
SPECIFICATION FairSpec
INVARIANTS TypeOK ShownUserIsServed LoggedOutIsSilent InviteesAreOthers
PROPERTY ChatIsListed
