\* Two connections create chats between two registered users.
CONSTANTS
    Sessions = {s1, s2}
    Usernames = {"ann", "bob"}
    Passwords = {"p1"}
    Digests <- MCDigests
    Sha256 <- MCSha256p1
    Bodies = {"x"}
    InviteeIds = {0, 1, 2}
    ChatIds = {1}
    NamedMessages = {1}
    RequestTypes <- ChatRequests
    MalformedTypes = {}
    GarbageIds = {0}
    Garbage = Garbage
    InitUsers <- TwoUsers
    MaxChats = 1
    MaxMessages = 0
SPECIFICATION Spec
SYMMETRY SessionSymmetry
INVARIANT RefusedMeansNotAdded
