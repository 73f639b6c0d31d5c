\* Two connections register, log in, change passwords and create chats.
CONSTANTS
    Sessions = {s1, s2}
    Usernames = {"ann", "bob"}
    Passwords = {"p1"}
    Digests <- MCDigests
    Sha256 <- MCSha256p1
    Bodies = {"x"}
    InviteeIds = {2}
    ChatIds = {1}
    NamedMessages = {1}
    RequestTypes <- AccountAndChatRequests
    MalformedTypes = {"REGISTER", "LOGIN", "UPDATE_USER"}
    GarbageIds = {1}
    Garbage = Garbage
    InitUsers <- ForgottenUser
    MaxChats = 1
    MaxMessages = 0
SPECIFICATION Spec
SYMMETRY SessionSymmetry
INVARIANT TypeOK
INVARIANT SessionNamesItsUser
INVARIANT WriteIsReadBack
PROPERTY Implements
