\* Processes that run, yield and sleep, and the first one that is to go on.
CONSTANTS
  MaxProcesses = 4
  Priorities = {1}
  Stacks = {1, 2, 3, 4}
  Delays = {1}
  MaxPid = 4
  MaxTicks = 2
  MaxKills = 0
CHECK_DEADLOCK FALSE
SPECIFICATION Spec
INVARIANTS SwitchResumes
