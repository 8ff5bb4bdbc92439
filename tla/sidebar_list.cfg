SPECIFICATION Spec
CONSTANTS
  a = a
  b = b
  c = c
  Names <- MCNames
  Default = a
  Configs <- MCConfigs
  MaxLength = 2
  MaxMetadata = 1
INVARIANTS
  ListedOnce
  RestartKeepsList
  MoveKeepsOthers
  MoveGoesUp
  RenameKeepsPlace
