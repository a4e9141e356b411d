CONSTANTS
  Triples = {}
  Lines = {}
  Fields = {}
  Files = {}
  Texts = {}
  Wides = {}
  Launches = {}
  Dirs = {}
  Bindings = {}
  Uses = {}
  Calls = {}
  CmdMax = 7
SPECIFICATION RawSpec
INVARIANTS
  PointersFit
CHECK_DEADLOCK FALSE
