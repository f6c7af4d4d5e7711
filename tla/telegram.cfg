\* Two calls of one chat and one of another, one at a time.
SPECIFICATION FairSpec
CONSTANTS
    s1 = s1
    s2 = s2
    s3 = s3
    a = a
    b = b
    Sends = {s1, s2, s3}
    Documents = {s2}
    Chats = {a, b}
    ChatOf <- MCChatOf
    None = None
    MaxConcurrent = 1
    MaxRetries = 2
INVARIANTS InTurn PostsBounded
PROPERTIES SendsEnd
CHECK_DEADLOCK FALSE
