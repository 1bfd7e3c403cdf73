SPECIFICATION WorkersSpec
CONSTANTS
  Unused = Unused
  a = a
  b = b
  Path = {a, b}
  MaxLoad = 2
  MaxCount = 1
  MaxConn = 3
  page = page
  database = database
  Kind = {page, database}
  Gated = {page}
  NoKind = Unused
  MaxTask = 3
  artifact_tags = artifact_tags
  gui_checked_artifacts = gui_checked_artifacts
  NoManifest = Unused
  Tables <- TwoTables
  Keyed = {gui_checked_artifacts}
  Loaded <- TwoLoaded
  ChunkSizes = {1, 2}
  MaxRow = 4
  MaxWrites = 3
  MaxExports = 2
  artifacts = artifacts
  summary = summary
  View = {artifacts, summary}
  Columns <- TwoColumns
  HasText <- TwoTexts
  Page = {0, 1, 2}
  PageSize = 2
INVARIANTS ConnectionsSound ExportThreadsSound  ExportsWhatIsShown
PROPERTY ExportsSettle
CHECK_DEADLOCK FALSE
