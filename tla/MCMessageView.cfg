\* Two chats, replies of up to two records, read into buffers of any content.
CONSTANTS
    Usernames = {"ann", "bob", "eve"}
    Digests = {"digest"}
    Bodies = {"x", "y"}
    Fresh = {0, 1}
    BufRecords = 3
    InitUsers <- ThreeUsers
    Posts = {"x"}
    Edits = {"y"}
    NChats = 2
    RowsPerRecord = 1
    MaxMessages = 2
    MaxInFlight = 2
    MaxFaults = 0
SPECIFICATION Spec
INVARIANT TypeOK
INVARIANT StoreMirrorsList
INVARIANT ShownIsTrue
INVARIANT SelectedChatOnly
PROPERTY ViewNeverGoesBack
