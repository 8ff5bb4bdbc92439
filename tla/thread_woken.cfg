SPECIFICATION ThreadSpec
CONSTANTS
  t1 = t1
  t2 = t2
  Tasks <- MCTasks
PROPERTIES
  WaitingTaskIsWoken
