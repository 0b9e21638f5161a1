\* G_output_len against its comment, with a host that does not wait.
CONSTANTS
  MaxCmds = 3
  MaxMsg = 1
  HostWaits = FALSE
SPECIFICATION Spec
INVARIANTS
  OnlyResponsesSent
