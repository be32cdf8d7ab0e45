\* The run that stored a new UIDVALIDITY may fail, and its task keeps the old cursor.
SPECIFICATION Spec
CONSTANTS
  Kinds <- TheMailboxes
  MaxMails = 2
  MaxSeen = 1
  Limit = 1
  FailsAfterReset = TRUE
INVARIANT PassedOrHandled
CHECK_DEADLOCK FALSE
