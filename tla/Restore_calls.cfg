SPECIFICATION Spec
CONSTANTS
  None = None
  Parts <- MCParts
  Kind <- MCKind
  Parent <- MCParent
  Uses <- MCUses
  Name <- MCName
  PassedOver <- MCPassedOver
  OldLuns <- MCOldLuns
  Configs <- MCConfigs
  MaxFailures = 2
  MaxCalls = 2
INVARIANT TypeOK
 
 
INVARIANT TreeClosed
INVARIANT ExistingUntouched
INVARIANT ScopeRespected
INVARIANT MatchesConfig
CHECK_DEADLOCK FALSE
