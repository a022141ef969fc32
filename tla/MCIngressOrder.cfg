CONSTANTS
  p1 = p1
  p2 = p2
  u1 = u1
  r1 = r1
  Pubs <- MCPubsTwo
  Clocks <- MCClocks
  Layers <- MCLayers
  EnabledLayers <- MCEnabledLayers
  Ids <- MCIdsTwo
  Setters <- MCSettersNone
  Readers <- MCReadersNone
  HashQueueSize = 1
  MaxAccepted = 3
  DropOutOfOrder = TRUE
SPECIFICATION Spec
PROPERTY IngressRefinesOrder
