\* Two lines sent; the second request past the document makes goroutines race.
SPECIFICATION FairSpec
CONSTANTS
    Requests <- MCRequests
    Document <- MCDocument
    MaxRedirects = 1
    MaxHops = 2
    MaxLines = 2
CHECK_DEADLOCK FALSE
INVARIANTS
    TypeOK
    FirstCauseIsReported
PROPERTIES
    CallsEnd
