\* Callers that kill any pid, a heap that may be full, slots that are used
\* again; the processor is lost in a context that was never set up, and
\* halted by the first that was saved.
CONSTANTS
  MaxProcesses = 3
  Priorities <- NegativeToo
  Stacks = {1, 2, 3}
  Delays = {2}
  MaxPid = 3
  MaxTicks = 2
  MaxKills = 0
CHECK_DEADLOCK FALSE
SPECIFICATION Spec
INVARIANTS CpuIsCurrent StacksExclusive
PROPERTIES HighestReady StaysOff SleepersRun TurnsInOrder
