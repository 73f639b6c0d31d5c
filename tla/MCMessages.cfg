\* Two connections send, edit, delete and read messages.
CONSTANTS
    Sessions = {s1, s2}
    Usernames = {"ann", "bob"}
    Passwords = {"p1"}
    Digests <- MCDigests
    Sha256 <- MCSha256p1
    Bodies = {"x"}
    InviteeIds = {1}
    ChatIds = {1, 2}
    NamedMessages = {1}
    RequestTypes <- MessageRequests
    MalformedTypes = {}
    GarbageIds = {1, 2}
    Garbage = Garbage
    InitUsers <- OneUser
    MaxChats = 0
    MaxMessages = 1
SPECIFICATION Spec
SYMMETRY SessionSymmetry
INVARIANT WriteIsReadBack
PROPERTY RowsAreKept
PROPERTY Implements
