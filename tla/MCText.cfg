SPECIFICATION Spec
CONSTANTS
  MaxText = 3
  MaxWidth = 4
  MaxPattern = 4
  MaxEntries = 2
  MaxPieces = 4
INVARIANTS
  PythonAnswers
  EncodingsInvert
  RewritingKeepsMeaning
  PatternsMeanTheSame
  DocumentsAskForWhatTheyRead
  ConfigurationIsSound
  NothingSecretIsStored
  RoutesKeepTheText
