SPECIFICATION Spec
CONSTANTS
  Availables <- MCAvailables
  Models <- MCModels
  Replies <- MCReplies
  MaxMessages = 6
  MaxRequests = 3
  Cap = 2
  MaxParts = 2
  Err = Err
  Failure = Failure
  Broken = Broken
  MaxUnread = 3
  MaxEvents = 4
  NoErr = NoErr
INVARIANTS
  TypeOK
  CallsAreAnswered TextsCarryOver IdsTellCallsApart
  EventsArrive
PROPERTIES
  GoroutineEnds
  StreamsImplementContract
