\* Two turns under two settings, a tool call, two compactions, two rollbacks and
\* a restart.  The system stops when its bounds are used up, so deadlock is not
\* checked.
SPECIFICATION Spec
CONSTANTS
  Settings = {a, b}
  NoSettings = NoSettings
  a = a
  b = b
  DeveloperInstructions = TRUE
  MaxTurns = 2
  Texts = {1, 2}
  Room = {{}, {1}}
  MaxCalls = 1
  MaxCompactions = 2
  MaxRollbacks = 2
  MaxDropped = 2
  MaxRestarts = 1
SYMMETRY SettingsSymmetry
INVARIANTS
  TypeOK
  PromptWellFormed
  ReplayAgrees
  UserMessagesKept
  SettingsStated
CHECK_DEADLOCK FALSE
