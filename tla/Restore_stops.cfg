SPECIFICATION Spec
CONSTANTS
  None = None
  Parts <- MCParts
  Kind <- MCKind
  Parent <- MCParent
  Uses <- MCUses
  Name <- MCName
  PassedOver <- MCPassedOver
  OldLuns <- MCOldLuns
  Configs <- StopsConfigs
  MaxFailures = 1
  MaxCalls = 1
INVARIANT RestStillApplied
