\* Two chats, replies of one record, a fair scheduler.
CONSTANTS
    Usernames = {"ann", "bob", "eve"}
    Digests = {"digest"}
    Bodies = {"x"}
    Fresh = {0}
    BufRecords = 9
    InitUsers <- ThreeUsers
    Posts = {"x"}
    Edits = {"x"}
    NChats = 2
    RowsPerRecord = 9
    MaxMessages = 2
    MaxInFlight = 1
    MaxFaults = 1
SPECIFICATION FairSpec
PROPERTY PostedIsShown
PROPERTY ChangeIsShown
