CONSTANTS
  Helpers = {h1, h2}
  MaxLines = 1
SPECIFICATION ChildSpec
CHECK_DEADLOCK FALSE
INVARIANTS ChildTypeOK GitLeavesNobody AgentOutputIsComplete
PROPERTIES StopEndsChild OnlyHelpersDelay
