\* Two controls of two values each; every configuration and every launch
\* override of them.  Three builds: one that fails before or after it declared
\* its parameters, one that finds what the first left behind, and one more.
SPECIFICATION InputSpec
CONSTANTS
    Controls = {gain, focus}
    Values = {0, 1}
    Default = 0
    Attempts = 3
INVARIANTS
    SetControlsStaySet
    DiesOnlyOfLeftovers
PROPERTY
    FreedOnlyUnderTheCallback
\* The process may die.
CHECK_DEADLOCK FALSE
