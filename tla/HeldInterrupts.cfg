SPECIFICATION HeldFairSpec
CONSTANTS
  IrqTasks = {CLOCK, DISK, TTY}
  NoTask = NoTask
INVARIANTS OneSwitcher HeldOnce NoneLost
PROPERTY AllActedOn
