\* A source, one element and a sink; mailboxes of two messages.
CONSTANTS
  N = 3
  MailboxCap = 2
  MaxFrames = 3
  MaxControls = 3
  Controls = {"Start", "Stop", "Pause"}
SPECIFICATION FairSpec
INVARIANTS
  TypeOK
  InOrder
  NothingLost
PROPERTIES
  ImplementsPipe
  EveryFrameLeaves
  StopEndsReceiver
