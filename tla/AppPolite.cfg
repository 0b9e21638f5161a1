\* A host that waits for the reply to each command.
CONSTANTS
  MaxCmds = 3
  MaxMsg = 2
  HostWaits = TRUE
SPECIFICATION FairSpec
INVARIANTS
  ReplyBelongsToCommand
  HashFinalizedOnce
  AckKeepsSession
  OnlyUserKeepsHostWaiting
PROPERTIES
  Answered
