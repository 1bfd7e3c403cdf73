SPECIFICATION SidesSpec
CONSTANTS
  Unused = Unused
  caseA = caseA
  caseB = caseB
  locked = locked
  none = none
  default = default
  m1 = m1
  m2 = m2
  i1 = i1
  s = s
  Default = default
  Case = {caseA, caseB}
  NoCase = none
  Artifact = {1}
  MaxIngests = 1
  Unreadable = {locked}
  View = {m1, m2, i1, s}
  InOrder <- TheOrder
  PlatformOf <- ThePlatform
  Recommended = {m1, i1, s}
  HasView <- TheViews
  MaxRefresh = 3
  MaxRuns = 3
  MaxStatus = 3
INVARIANTS CheckedAgree ListTellsCase OfferedOnlyWhenSettled CancelOffered ShowsLastCase
PROPERTIES RunAloneWritesInfo  CountsArrive RunSettles
CHECK_DEADLOCK FALSE
