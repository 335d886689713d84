\* One terminal, a command that starts the run and one more, and one fault: a worker
\* killed, a command interrupted, or a listing that other steps come in between of.
SPECIFICATION RunSpec
CONSTANTS
  Clis = {c1}
  MaxWorkers = 2
  MaxContained = 1
  MaxCommands = 2
  MaxRunFaults = 1
INVARIANTS
  StopLeavesNoProcess
  UsageCountedOnce
PROPERTIES
  EndedStaysEnded
  RunSettles
\* A run that has ended needs no further step.
CHECK_DEADLOCK FALSE
