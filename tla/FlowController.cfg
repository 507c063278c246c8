\* Three outputs, one with an unknown client count, valves nested,
\* and a scaled grace period.
CONSTANTS
  o1 = o1
  o2 = o2
  o3 = o3
  Outputs = {o1, o2, o3}
  Unknown = {o3}
  Valves <- NestedValves
  Grace = 4
  Late = 1
SPECIFICATION FairSpec
INVARIANTS
  ServedOutputsFlow
PROPERTIES
  GraceBeforeClosing
  ClientsGetStream
  IdleBranchesClose
CHECK_DEADLOCK TRUE
