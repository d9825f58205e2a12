SPECIFICATION Spec
CONSTANTS
  p1 = p1
  p2 = p2
  here = here
  there = there
  Procs <- TwoProcs
  Targets <- TwoTargets
  Worlds <- AllWorlds
SYMMETRY Alike
INVARIANTS
  TypeOK
  PreviewHonest
  SynthesizedAccepted
  BuiltIsLawful
  MemoryExplains
  SessionRemembers
CHECK_DEADLOCK FALSE
