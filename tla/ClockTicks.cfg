\* time_init starts two seconds before midnight; the clock runs for five
\* seconds, with up to two ticks in a pass of the loop.  The program stops
\* when time_init has returned and the clock has reached its bound.
CONSTANTS
    Starts <- Evenings
    MaxTicks = 2
    Horizon = 5
SPECIFICATION Spec
INVARIANTS
    SnapshotConsistent
    StartupTimeRight
PROPERTIES
    EachTickCounts
CHECK_DEADLOCK FALSE
