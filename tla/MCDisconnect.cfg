CONSTANTS
  p1 = p1
  p2 = p2
  u1 = u1
  r1 = r1
  Pubs <- MCPubsTwo
  Clocks <- MCClocksShort
  Layers <- MCLayers
  EnabledLayers <- MCEnabledLayers
  Ids <- MCIds
  Setters <- MCSettersNone
  Readers <- MCReadersNone
  HashQueueSize = 1
  MaxAccepted = 2
  DropOutOfOrder = FALSE
SPECIFICATION Spec
PROPERTY DisconnectIffLastActiveGone
