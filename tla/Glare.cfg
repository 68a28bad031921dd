\* Both peers reconnect, once each.
CONSTANTS
  a = a  b = b
  Peers = {a, b}
  Offerers = {a}
  Reconnecting = {a, b}
  MaxRestarts = 1
  MaxCandidates = 0
SPECIFICATION FairSpec
INVARIANT LoopsSurvive
