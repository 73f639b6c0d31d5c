\* A reply of two records.
CONSTANTS
    Usernames = {"ann", "bob", "eve"}
    Digests = {"digest"}
    Bodies = {"x"}
    Fresh = {0}
    BufRecords = 9
    InitUsers <- TwoUsers
    Posts = {"x"}
    Edits = {"x"}
    NChats = 1
    RowsPerRecord = 1
    MaxMessages = 2
    MaxInFlight = 2
    MaxFaults = 1
SPECIFICATION Spec
INVARIANT WholeStringsQueued
