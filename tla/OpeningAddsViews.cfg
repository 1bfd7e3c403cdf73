SPECIFICATION ViewsSpec
CONSTANTS
  Schema <- TheSchema
  Slice = {"ios_app_parsed_records", "ios_app_parsed_records+", "raw_key_values", "idx_ios_app_parsed_db",
           "vw_ios_communication_frequency", "vw_ios_communication_existence_evidence",
           "vw_ios_spotlight_comms_missing_from_ffs", "vw_ios_spotlight_referenced_paths"}
  Missing = {{"ios_app_parsed_records+", "artifacts+"}, {"ios_app_database_inventory+"}}
  MaxInstalls = 1
INVARIANT OpeningAddsViews
CHECK_DEADLOCK FALSE
