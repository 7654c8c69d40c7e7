SPECIFICATION Spec
CONSTANTS
  Conversation = {c1, c2}
  Slot = {t1, t2}
  BatchLimit = 1
  MaxReplies = 1
  MaxRestructures = 1
  MaxFaults = 1
INVARIANTS NoticedOncePerEpisode ClockAgrees
PROPERTIES OverdueIsNoticed
