\* Two resets of a queue of 2, none of which fails; polls that compare wqe_counter.
SPECIFICATION ResetSpec
CONSTANTS
  Builds = {TRUE}
  CqeNum = 2
  IdxMod = 8
  MaxWqes = 4
  MaxResets = 2
  ResetFaults = {}
CHECK_DEADLOCK FALSE
INVARIANT
  PollsSurviveReset
