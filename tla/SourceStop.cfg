\* The shortest chain, a source and a sink.
CONSTANTS
  N = 2
  MailboxCap = 1
  MaxFrames = 2
  MaxControls = 2
  Controls = {"Start", "Stop"}
SPECIFICATION FairSpec
PROPERTY StopEndsSource
