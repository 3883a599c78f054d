SPECIFICATION RequestsFairSpec
CONSTANTS
  s1 = s1
  s2 = s2
  s3 = s3
  Seqs = {s1, s2, s3}
  Push = Push
  Synced = {s1}
  None = None
  Started = Started
  WindowSize = 2
  MaxSends = 5
  MaxMailbox = 2
  MaxPanics = 1
  MaxCrashes = 1
INVARIANTS
  RequestsTypeOK
  ResentIsCaught
  DuplicatesAreDone
PROPERTIES
  ActorKeepsCells
  MailboxDrains
CHECK_DEADLOCK FALSE
