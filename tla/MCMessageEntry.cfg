\* ann and bob share a client whose view shows a message of each.
CONSTANTS
    Usernames = {"ann", "bob", "eve"}
    Digests = {"digest"}
    Bodies = {"x"}
    InitUsers <- Users
    InitMembers <- OneChat
    NChats = 1
    Locals = {1, 2}
    InitMessages <- TwoMessages
    GarbageIds = {0}
    DeletedText = DeletedText
    Empty = Empty
    MaxMessages = 2
    MaxInFlight = 1
    MaxFaults = 1
SPECIFICATION Spec
INVARIANTS TypeOK DraftSurvivesEdits EditsAreMeant OnlyOwnChange
