\* One command whose grapharc.toml gives its run a ceiling.
SPECIFICATION Spec
CONSTANTS
  Command = {1}
  Lines <- MCLines
  Env <- MCEnv
  Configs <- MCConfigs
  Here = FALSE
  Targets <- MCTargets
  Policies <- MCPolicies
  Legacy = TRUE
  Seconds <- MCSeconds
  AgentSeconds = 1
  MaxLate = 1
INVARIANTS CeilingIsHeld
CHECK_DEADLOCK FALSE
