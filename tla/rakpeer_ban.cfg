CONSTANTS
    MaxRequests = 6
    InboxSize = 2
SPECIFICATION Spec
CHECK_DEADLOCK FALSE
INVARIANT ServerIsNotBanned
