\* A caller, a channel of one request, an inbox of one message, two links.
CONSTANTS
  app = app
  Callers = {app}
  Namespace <- Home
  Requests <- SomeRequests
  Publications <- SomePublications
  Cap = 1
  InboxCap = 1
  MaxCalls = 2
  MaxMessages = 1
  MaxLinks = 2
  MaxSignals = 2
SPECIFICATION FairSpec
INVARIANTS
  FlagFollows
  ParsedAsBuilt
PROPERTIES
  ShutdownEnds
  Reconnects
  CallsReturn
