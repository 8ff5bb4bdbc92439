SPECIFICATION FileSpec
CONSTANTS
  gui = gui
  server = server
  c1 = c1
  c2 = c2
  c3 = c3
  n1 = n1
  n2 = n2
  n3 = n3
  n4 = n4
  NoNode = NoNode
  Torn = Torn
  Processes <- OneProcess
  Changes <- MCChanges
  Nodes <- MCNodes
INVARIANTS
  FileWhole
  SavedStaysSaved
