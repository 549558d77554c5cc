\* every history of requests for 8, 11 and 20 bytes in a file of up to 64 bytes
SPECIFICATION AllocatorSpec
CONSTANTS
    Requests = {8, 11, 20}
    FileLimit = 64
INVARIANTS
    FileAccountedFor
