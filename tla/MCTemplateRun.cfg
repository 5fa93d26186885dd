SPECIFICATION FairTemplateSpec
CONSTANTS
  Programs <- SomePrograms
  RequestLimit = 3
  LoopLimit = 2
  MaxEntries = 5
INVARIANTS
  ExecutionIsSound
  RecordingIsKept
PROPERTIES
  ExecutionEnds
