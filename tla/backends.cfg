CONSTANTS
    c1 = c1
    r1 = r1
    NoConn = NoConn
    Conn = {c1, r1}
    Draining = {c1, r1}
    Script <- MCScript
    ReadChunk = 3
    MaxOut = 2
    SendCap = 1

SPECIFICATION FairSpec
INVARIANTS OutputBounded EndOfStreamExecutes
PROPERTIES RepliesInOrder  WriteBufferStable EveryRequestServed EveryReplyArrives
CHECK_DEADLOCK FALSE
