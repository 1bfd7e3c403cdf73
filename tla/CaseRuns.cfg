SPECIFICATION RunsSpec
CONSTANTS
  s1 = s1
  s2 = s2
  Unused = Unused
  Store = {s1, s2}
  Options <- MCOptions
  Surroundings = {{"throw", "copy", "crash", "viewer"}, {"throw", "crash"}}
  MaxRuns = 2
  detail = detail
  chat = chat
  Name = {detail, chat}
  ThinSheets <- ThinList
  FullSheets <- FullList
  SupportOnly = {detail}
  Ios = {chat}
  Samples <- SampleList
  Reused = {chat}
  ChunkRows = 1
  Packages <- ThePackages
  MaxRows = 3
  MaxTimeouts = 1
  Schema <- TheSchema
  Slice = {"ios_app_parsed_records", "ios_app_parsed_records+", "raw_key_values", "idx_ios_app_parsed_db",
           "vw_ios_communication_frequency", "vw_ios_communication_existence_evidence",
           "vw_ios_spotlight_comms_missing_from_ffs", "vw_ios_spotlight_referenced_paths"}
  Missing = {{"ios_app_parsed_records+", "artifacts+"}, {"ios_app_database_inventory+"}}
  MaxInstalls = 3
SYMMETRY Symmetric
INVARIANTS StageTellsExit  CancelHeeded ParsesPreserved CopyIsWhole 
  ManifestTells SamplesAreCurrent  ViewsAnswer
PROPERTIES  ScriptsComplete
CHECK_DEADLOCK FALSE
