\* A host that may send a command while another is unanswered.
CONSTANTS
  MaxCmds = 3
  MaxMsg = 2
  HostWaits = FALSE
SPECIFICATION Spec
INVARIANTS
  TypeOK
  RecvNeverWaiting
  IdleMeansWiped
  ReviewMatchesContext
  BlindSignGate
  ReviewedBeforeDecision
  SignedIsShown
  ErrorReplyWipes
PROPERTIES
  SettingsOnlyFromMenu
  Implements
