\* A page may ask for more than its document; one call is enough.
SPECIFICATION Spec
CONSTANTS
    Requests <- MCRequests
    Document <- MCDocument
    MaxRedirects = 1
    MaxHops = 2
    MaxLines = 1
CHECK_DEADLOCK FALSE
INVARIANTS
    BlockedRequestFailsTheCall
