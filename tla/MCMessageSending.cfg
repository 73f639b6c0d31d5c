\* ann and eve share a client; a message is posted, and the connection may be lost.
CONSTANTS
    Usernames = {"ann", "bob", "eve"}
    Digests = {"digest"}
    Bodies = {"x"}
    InitUsers <- Users
    InitMembers <- OneChat
    NChats = 1
    Locals = {1, 3}
    InitMessages <- NoMessages
    GarbageIds = {0}
    DeletedText = DeletedText
    Empty = Empty
    MaxMessages = 1
    MaxInFlight = 1
    MaxFaults = 1
SPECIFICATION Spec
INVARIANT AuthorsAreMembers
