SPECIFICATION ScriptSpec
CONSTANTS
  Given = {"a", "ab"}
  Generated = {"g1", "g2"}
  Gen <- MCGen
  Within <- MCWithin
INVARIANTS
  ScriptTypeOK
  NothingDropped
PROPERTY AllAnalysed
