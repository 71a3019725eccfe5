SPECIFICATION ErasureSpec
CONSTANTS
    DeletionRequests = {x1}
    JobRunners = {r1}
    Uploads = {u1}
    MaxFaults = 0
    MaxActivity = 0
CHECK_DEADLOCK FALSE
INVARIANT ErasedStaysErased
