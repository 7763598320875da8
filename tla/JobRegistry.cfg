SPECIFICATION Spec
CONSTANTS
  LogCap = 1
  TerminalCap = 1
  MaxJobs = 3
  MaxLines = 2
  JobKinds = {"cloudflared"}
  Clients = {c1, c2}
SYMMETRY ClientSymmetry
INVARIANTS RegistrySound LogWindow ClientMissesNothing RunningNeverPruned CancelledOnlyIfAsked
PROPERTIES TerminalIsFinal
CHECK_DEADLOCK FALSE
