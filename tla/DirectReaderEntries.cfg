SPECIFICATION Spec
CONSTANTS
  NoBlock = 0
  MaxDepth = 3
  MaxLeaves = 2
  Images <- MCImages
  MaxLost = 2
  ChunkBlocks = 2
  MaxHits = 2
  Data = Data
  SpotlightV100 = SpotlightV100
  StoreV2 = StoreV2
  Component <- MCComponent
  Group <- MCGroup
  Ungrouped = Ungrouped
  Near <- MCNear
  Kinded <- MCKinded
  SomeGroup = SomeGroup
  StoreDb = StoreDb
  ReverseStore = ReverseStore
  CacheDir = CacheDir
  Text = Text
  OtherText = OtherText
  Photo = Photo
  System = System
INVARIANT EntriesAreReal
CHECK_DEADLOCK FALSE
