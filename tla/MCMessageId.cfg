\* Three calls, of which two fit into a millisecond: a burst outruns the clock, and
\* the clock may be set back.  No symmetry, since CallsEnd is about each call.
SPECIFICATION IdSpec
CONSTANTS
    Calls = {c1, c2, c3}
    Burst = 2
    MaxClock = 3
INVARIANTS IdsUnique IdsFollowCalls
PROPERTIES CallsEnd
CHECK_DEADLOCK FALSE
