\* A bus warning and its debug-log copy; the limits and the interval scaled down.
CONSTANTS
  Messages = {bus, log}
  Replays = {log}
  MaxPending = 2
  MaxEntries = 1
  Interval = 2
  MaxCount = 2
SPECIFICATION FairSpec
INVARIANTS
  DropsAreCounted
  WithheldAreCounted
PROPERTY RecurringAreEmitted
CHECK_DEADLOCK TRUE
