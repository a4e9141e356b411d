CONSTANTS
  Triples <- SomeTriples
  Lines <- SomeLines
  Fields <- SomeFields
  Files <- SomeFiles
  Texts <- SomeTexts
  Wides <- SomeWides
  Launches <- SomeLaunches
  Dirs <- SomeDirs
  Bindings <- SomeBindings
  Uses <- SomeUses
  Calls <- SomeCalls
  CmdMax = 7
SPECIFICATION Spec
INVARIANTS
  VersionsOrdered
  SplitReadsBack
  FlagsSurvive
  FileReadsBack
  EncodingsExact
  AliasPassesOn
  TrieIsMap
  ArenaSafe
  RuntimeExact
CHECK_DEADLOCK FALSE
