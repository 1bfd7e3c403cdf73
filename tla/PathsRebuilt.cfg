SPECIFICATION Spec
CONSTANTS
  Sources <- MCSources
  Slash = Slash
  NoName = NoName
  Plist = Plist
  Label = Label
  Volumes = Volumes
  Data = Data
  Known <- MCKnown
  MaxChain = 2
  FewWeak = 1
  Plenty = 2
  FewOpen = 1
INVARIANT ParentChainsRebuilt
CHECK_DEADLOCK FALSE
