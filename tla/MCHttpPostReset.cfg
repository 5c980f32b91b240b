SPECIFICATION Spec
CONSTANTS
    Schemes = {"http"}
    Addresses = 2
    Length = 3
    ResponseMax = 10
    RespMax = 4
    IdMax = 1
    Letters = {"a", "b"}
    Replies <- MCReplies
    NoReply = NoReply
INVARIANTS
    NeverKilled
