\* Both peers may reconnect, twice each: offers cross and answers come late.
CONSTANTS
  a = a  b = b
  Peers = {a, b}
  Offerers = {a}
  Reconnecting = {a, b}
  MaxRestarts = 2
  MaxCandidates = 2
SPECIFICATION FairSpec
INVARIANTS
  CandidatesFollow
  SessionsAgree
  OneSidedSurvives
PROPERTIES
  NegotiationCompletes
