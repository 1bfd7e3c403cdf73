SPECIFICATION DataSpec
CONSTANTS
  NoBlock = 0
  MaxDepth = 3
  MaxLeaves = 2
  Images <- MCImages
  MaxLost = 2
  ChunkBlocks = 2
  MaxHits = 2
  Data = Data
  SpotlightV100 = SpotlightV100
  StoreV2 = StoreV2
  Component <- MCComponent
  Group <- MCGroup
  Ungrouped = Ungrouped
  Near <- MCNear
  SomeGroup = SomeGroup
  StoreDb = StoreDb
  ReverseStore = ReverseStore
  CacheDir = CacheDir
  Text = Text
  OtherText = OtherText
  Photo = Photo
  System = System
  Kinded <- AllKinded
  Listed <- MCListed
  CacheNames <- MCCacheNames
  ForkName = ForkName
  NumberText = NumberText
  GuidedImages <- MCGuidedImages
  DataVolume = 2
  RootRecords = 4
  SampleRecords = 2
  GuideDepth = 4
  Probes = 3
  Unused = Unused
  Tasks <- MCTasks
  Batch = 2
  Sources <- MCSources
  Slash = Slash
  NoName = NoName
  Plist = Plist
  Label = Label
  VolumesName = VolumesName
  Known <- MCKnown
  MaxChain = 2
  FewWeak = 1
  Plenty = 2
  FewOpen = 1
  Devices <- MCDevices
  MaxTables = 2
  MaxSpecial = 3
  PageRows = 2
  AppFaults <- MCAppFaults
  Zips = {"old", "new"}
  InZip <- MCInZip
  Databases = {"sms", "note"}
  Indexed = {"old"}
  References = {"photo", "sms"}
  InSpotlight = {"note"}
  Folders = {"first", "second"}
  Wishes <- MCWishes
  MaxRuns = 3
  ZipFaults <- MCZipFaults
INVARIANTS
  LookupExact CopiesTrue 
  ParserSaves PathsTrue 
   EventsTellRecords ListingBelongs
CHECK_DEADLOCK FALSE
