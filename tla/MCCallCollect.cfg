CONSTANTS
  v1 = v1
  v2 = v2
  Servers <- MCServers
  Outcomes <- MCOutcomes
  MaxCalls = 2
SPECIFICATION CallSpec
INVARIANT CallResultMatchesTasks
