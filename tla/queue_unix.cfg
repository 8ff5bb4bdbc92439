SPECIFICATION FairTasks
CONSTANTS
  t1 = t1
  Tasks <- MCTasks
  PipeCapacity = 3
  DrainMax = 2
  MaxQueued = 4
INVARIANTS
  NoMissedWakeup
  OutcomeIsTheThreads
  ScheduledIsQueued
PROPERTIES
  ImplementsExecutor
  ImplementsThreadTask
  RestsWhenQuiet
