\* Three frames, one of which is odd, and mailboxes of two; three clients of two
\* messages each; four events, of which two are kept.
CONSTANTS
  MaxElements = 2
  ByHand <- UpToTwo
  NumFrames = 3
  MailboxCap = 2
  Clients = {a, b, c}
  NoClient = NoClient
  MaxMessages = 2
  EventsKept = 2
  MaxEvents = 4
SPECIFICATION ExamplesSpec
INVARIANTS
  ComputesInOrder
  CompleteWhenIdle
  BuiltNeverMismatch
PROPERTIES
  RelaysEveryMessage
  ServesAgain
  SenderHears
  ConnectionEndsWait
  TrackReachesInbound
