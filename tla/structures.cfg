SPECIFICATION Spec
CHECK_DEADLOCK FALSE
INVARIANTS
    Faithful
    
    RoundTrips
