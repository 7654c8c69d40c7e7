SPECIFICATION VoiceSpec
CONSTANTS
  Call = {c1, c2}
  MaxItems = 3
  MaxAsks = 1
  MaxVoiceFaults = 1
SYMMETRY Symmetry
CHECK_DEADLOCK FALSE
INVARIANTS CallIsKept NothingLeftBehind TransfersAccounted
