SPECIFICATION Spec
CONSTANTS
  c1 = c1
  c2 = c2
  Customer = {c1, c2}
  Contact <- MCContact
  Groups <- MCGroups
  Region = {"na", "island", "eu"}
  DefaultRegion = "eu"
  DialPrefixes <- MCDialPrefixes
  Base <- MCBase
  Overlays <- MCOverlays
  Replica = {"r1"}
  k1 = k1
  k2 = k2
  Call = {k1, k2}
  SharedStore = FALSE
  Store = {"s1"}
  Hour = {3, 12}
  Number <- MCNumber
SYMMETRY MCSymmetry
INVARIANTS TypeOK PlacedWell ConversationReachesTheCall OneDefinition
