SPECIFICATION Spec
CONSTANTS
    SECTOR = 2
    BUFFER_SIZE = 4
    RECV = 3
    HeaderBuf = 3
    MAX_IN_FLIGHT = 1
    Partitions <- Parts
    FirstUsable = 2
    LastUsable = 12
    ALIGN = 2
    Needed = 3
    Targets = {4, 6}
    Responses <- Answers
    LINK_TIMEOUT = 1
    STABILIZE = 1
    DHCP = 1
    DNS = 1
    TCP_CONNECT = 1
    HTTP_IDLE = 1
    MaxFaults = 1
INVARIANTS  CompleteIsWhole 
PROPERTIES Ends
CHECK_DEADLOCK FALSE
