SPECIFICATION Spec
CHECK_DEADLOCK FALSE
SYMMETRY Sym
CONSTANTS
  r1 = r1
  r2 = r2
  Runs = {r1, r2}
  Earlier = Earlier
  Nobody = Nobody
  MaxTrouble = 1
  Tokens = {"abc123"}
  Texts <- MCTexts
  Begun <- MCBegun
  Typed <- MCTyped
  Configured <- MCConfigured
  Affected <- MCAffected
  Pipelines <- MCPipelines
INVARIANTS
  TypeOK
  ParseInvertsSpelling
  RunsNamedFolders
  NothingPendingAfterRender
  NewestFolderComment
  MarkedCheckpointsAreShown
PROPERTIES
  MutationHistoryStays
