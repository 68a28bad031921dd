\* One caller that disconnects.
CONSTANTS
  app = app
  Callers = {app}
  Namespace <- Home
  Requests <- SomeRequests
  Publications <- SomePublications
  Cap = 1
  InboxCap = 1
  MaxCalls = 1
  MaxMessages = 1
  MaxLinks = 2
  MaxSignals = 1
SPECIFICATION FairSpec
PROPERTY StaysDisconnected
