SPECIFICATION Spec
CONSTANTS
  MaxEvents = 4
  MaxUnread = 3
  OneEventCall = FALSE
INVARIANT EventIsCurrent
