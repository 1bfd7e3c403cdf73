------------------------------ MODULE CaseSchema ------------------------------
(***************************************************************************)
(* The statements that make the tables and views of a case database, in    *)
(* the order they are executed (CaseDatabase::initializeSchema and         *)
(* ensureGuiReviewViews in src/src/db/case_db.cpp), those the window puts  *)
(* before every change it makes (ensureInvestigatorUiSchemaNoThrow in      *)
(* src/src/gui/win32_gui.cpp), and the names that are offered for review   *)
(* (views() in src/src/gui/view_registry.cpp).  Of a view the model has    *)
(* what it reads: SQLite looks at the text of a view when it is queried,   *)
(* not when it is created.  CaseViews says what executing them does.       *)
(***************************************************************************)
EXTENDS Sequences, SequencesExt

\* A statement.  A name with a plus stands for the columns a table has got since
\* it was introduced, "no column ..." and "ambiguous column ..." for a reference
\* nothing can resolve.
Statement(op, name, reads, text) == [op |-> op, name |-> name, reads |-> reads, text |-> text]

Tables(names)      == [i \in DOMAIN names |-> Statement("table", names[i], {}, "table")]
\* Of the indexes those over columns that may be missing: the others cannot fail.
Index(name, cols)  == Statement("index", name, cols, "index")
Ensure(cols)       == Statement("ensure", cols, {}, "columns")
\* A view is dropped and created.  Most have been installed by several copies of
\* their text: "ViewOf" is the text of the last copy, "Former" an earlier and
\* different one, "Reduced" one of the window that differs from the last copy.
ViewOf(name, reads)  == Statement("view", name, reads, "view")
Former(name, reads)  == Statement("view", name, reads, "former")
Reduced(name, reads) == Statement("view", name, reads, "reduced")
\* CREATE VIEW IF NOT EXISTS
IfAbsent(name, reads) == Statement("absent view", name, reads, "reduced")

\* The columns a table has got since, where it has any; CREATE TABLE has them all.
LateColumns == [artifacts |-> "artifacts+", external_volume_candidates |-> "external_volume_candidates+",
                ios_app_database_inventory |-> "ios_app_database_inventory+",
                ios_app_database_record_inventory |-> "ios_app_database_record_inventory+",
                ios_app_parsed_records |-> "ios_app_parsed_records+",
                raw_date_candidates |-> "raw_date_candidates+"]

-----------------------------------------------------------------------------
(* initializeSchema, in the order of its statements.                        *)

RecordTables == Tables(<<"case_info", "evidence_sources", "source_files", "preserved_evidence_sets",
                        "preserved_evidence_files", "archive_integrity_checks", "store_groups", "raw_records",
                        "raw_key_values", "raw_date_candidates">>)

ArtifactTables == Tables(<<"artifact_date_summary", "raw_failures", "volume_configuration", "artifacts",
                          "spotlight_cache_text", "usage_evidence">>)

VolumeTables == Tables(<<"timeline_events", "orphaned_deleted_candidates", "external_volume_candidates",
                "spotlight_external_volume_path_hits", "spotlight_external_volume_raw_value_hits",
                "spotlight_external_volume_cache_text_hits", "spotlight_external_volume_dictionary_hits",
                "spotlight_external_volume_volfs_hits", "spotlight_external_volume_candidate_summary">>)

InstanceTables == Tables(<<"artifact_source_instances", "source_copy_comparison", "parent_inode_links", "field_inventory",
                "parser_coverage_summary", "processing_phases", "tags", "notes", "native_property_dictionary",
                "native_category_dictionary", "native_index_dictionary_summary", "native_dbstr_map_inventory">>)

ProbeTables == Tables(<<"native_decode_attempts", "source_probe_runs", "source_probe_signatures",
                "source_partition_probe", "image_inventory_sources", "image_file_inventory",
                "active_file_comparison_runs">>)

IosTables == Tables(<<"processing_log", "ios_ffs_file_inventory", "ios_ffs_path_lookup", "ios_app_database_inventory",
                "ios_app_database_record_inventory", "ios_app_parsed_records",
                "ios_app_db_spotlight_flag_candidates">>)

IosIndexes == <<
   Index("idx_ios_db_record_dbid", {"ios_app_database_record_inventory+"}),
   Index("idx_ios_app_parsed_db", {"ios_app_parsed_records+"}),
   Index("idx_ios_app_parsed_lookup", {"ios_app_parsed_records+"}) >>

IosColumns == <<Ensure("ios_app_database_inventory+"), Ensure("ios_app_database_record_inventory+"),
                Ensure("ios_app_parsed_records+")>>

DateColumns == <<Ensure("raw_date_candidates+")>>

DateIndexes == <<
   Index("idx_raw_dates_artifact_parsed", {"raw_date_candidates+"}),
   Index("idx_raw_dates_artifact_type_parsed", {"raw_date_candidates+"}),
   Index("idx_raw_dates_usage_review", {"raw_date_candidates+"}),
   Index("idx_raw_dates_association_status", {"raw_date_candidates+"}),
   Index("idx_artifacts_usage_dates", {"artifacts+"}) >>

SourceProbeViews == <<
   ViewOf("vw_source_probe_inventory", {"source_probe_runs"}),
   ViewOf("vw_source_probe_signatures", {"source_probe_runs", "source_probe_signatures"}),
   ViewOf("vw_source_partition_inventory", {"source_partition_probe", "source_probe_runs"}),
   ViewOf("vw_image_inventory_sources", {"image_inventory_sources"}),
   ViewOf("vw_image_file_inventory", {"image_file_inventory"}) >>

ActiveComparisonViews == <<
   ViewOf("vw_active_file_comparison_readiness",
        {"active_file_comparison_runs", "artifacts", "image_file_inventory", "image_inventory_sources"}),
   ViewOf("vw_spotlight_active_file_comparison",
        {"active_file_comparison_runs", "image_file_inventory", "artifacts+"}),
   ViewOf("vw_active_file_comparison_candidate_summary", {"orphaned_deleted_candidates"}) >>

ComparisonCheckViews == <<
   ViewOf("vw_active_file_comparison_validation_checks",
        {"active_file_comparison_runs", "orphaned_deleted_candidates",
         "vw_active_file_comparison_candidate_summary", "vw_ios_spotlight_missing_from_ffs_candidates"}) >>

InvestigatorTables == Tables(<<"investigator_tags", "artifact_tags", "investigator_notes">>)

PreferenceTables == Tables(<<"review_view_preferences">>)

CacheTextViews == <<
   ViewOf("vw_spotlight_cache_text_review", {"spotlight_cache_text"}) >>

CheckedTables == Tables(<<"gui_checked_artifacts">>)

CheckedAndTaggedViews == <<
   ViewOf("vw_checked_artifacts",
        {"artifact_date_summary", "artifact_tags", "gui_checked_artifacts", "investigator_notes",
         "investigator_tags", "artifacts+"}),
   ViewOf("vw_tagged_artifacts",
        {"artifact_date_summary", "artifact_tags", "investigator_notes", "investigator_tags",
         "artifacts+"}) >>

NotedAndReadyViews == <<
   ViewOf("vw_artifact_notes",
        {"artifact_tags", "investigator_notes", "investigator_tags", "artifacts+"}),
   ViewOf("vw_export_ready_artifacts",
        {"artifact_date_summary", "artifact_tags", "investigator_notes", "investigator_tags",
         "artifacts+"}) >>

ArtifactColumns == <<Ensure("artifacts+"), Ensure("external_volume_candidates+")>>

UsageViews == <<
   ViewOf("vw_spotlight_external_volume_evidence_review",
        {"spotlight_external_volume_cache_text_hits", "spotlight_external_volume_dictionary_hits",
         "spotlight_external_volume_path_hits", "spotlight_external_volume_raw_value_hits",
         "spotlight_external_volume_volfs_hits"}),
   ViewOf("vw_spotlight_external_volume_candidate_summary",
        {"spotlight_external_volume_candidate_summary"}),
   ViewOf("vw_usage_artifacts", {"artifacts+"}),
   ViewOf("vw_forensic_usage_open_bounds", {"artifacts+", "raw_date_candidates+"}),
   ViewOf("vw_timeline_usage_focus", {"artifacts", "timeline_events"}),
   ViewOf("vw_wherefroms_downloads", {"artifacts"}),
   ViewOf("vw_recent_activity", {"artifacts+"}),
   ViewOf("vw_content_type_summary", {"artifacts+"}) >>

FolderViews == <<
   ViewOf("vw_store_content_type_summary", {"artifacts+"}),
   ViewOf("vw_folder_activity", {"artifacts+"}),
   ViewOf("vw_path_reconstruction", {"parent_inode_links", "artifacts+"}),
   ViewOf("vw_same_folder_groups", {"parent_inode_links"}),
   ViewOf("vw_volume_root_focus", {"artifacts+"}) >>

StringProbeViews == <<
   ViewOf("vw_ios_relevant_fields", {"raw_key_values"}),
   ViewOf("vw_ios_store_parse_summary", {"raw_records"}),
   ViewOf("vw_ios_string_probe_category_summary", {"raw_key_values"}),
   ViewOf("vw_ios_string_probe_values", {"raw_key_values"}),
   ViewOf("vw_ios_record_string_probe_summary", {"raw_key_values", "raw_records"}) >>

DateProvenanceViews == <<
   ViewOf("vw_ios_timeline_index_updates",
        {"artifact_source_instances", "artifacts", "raw_records"}),
   ViewOf("vw_ios_spotlight_date_provenance", {"raw_records", "raw_date_candidates+"}),
   ViewOf("vw_ios_artifacts", {"artifacts", "raw_records"}),
   ViewOf("vw_ios_ffs_file_inventory", {"ios_ffs_file_inventory"}),
   ViewOf("vw_ios_app_db_spotlight_schema_hits", {"ios_app_database_record_inventory+"}),
   ViewOf("vw_ios_app_db_spotlight_row_candidates", {"ios_app_parsed_records+"}) >>

ParsedRecordViews == <<
   ViewOf("vw_ios_app_db_spotlight_flag_candidates", {"ios_app_db_spotlight_flag_candidates"}),
   ViewOf("vw_ios_app_db_spotlight_enabled_summary",
        {"ios_app_database_inventory", "vw_ios_app_db_spotlight_flag_candidates",
         "vw_ios_app_db_spotlight_row_candidates", "vw_ios_app_db_spotlight_schema_hits",
         "ambiguous column database_category"}),
   ViewOf("vw_ios_database_artifact_inventory", {"ios_app_database_inventory+"}),
   ViewOf("vw_ios_app_database_record_inventory", {"ios_app_database_record_inventory+"}),
   ViewOf("vw_ios_app_database_record_summary", {"ios_app_database_record_inventory"}),
   ViewOf("vw_ios_app_parsed_records", {"ios_app_parsed_records+"}),
   ViewOf("vw_ios_app_parsed_record_summary", {"ios_app_parsed_records+"}),
   ViewOf("vw_ios_apple_messages_parsed_records", {"ios_app_parsed_records+"}),
   ViewOf("vw_ios_apple_messages_parsed_summary", {"vw_ios_apple_messages_parsed_records"}),
   ViewOf("vw_ios_whatsapp_parsed_records", {"ios_app_parsed_records+"}),
   ViewOf("vw_ios_whatsapp_parsed_summary", {"vw_ios_whatsapp_parsed_records"}) >>

FormerMissingFromFfsViews == <<
   Former("vw_ios_spotlight_referenced_paths", {"raw_key_values"}),
   Former("vw_ios_spotlight_missing_from_ffs_candidates",
        {"ios_ffs_file_inventory", "ios_ffs_path_lookup", "raw_key_values",
         "vw_ios_spotlight_referenced_paths"}),
   Former("vw_ios_spotlight_missing_from_ffs_summary",
        {"vw_ios_spotlight_missing_from_ffs_candidates"}),
   ViewOf("vw_ios_spotlight_missing_from_ffs_high_value_candidates",
        {"vw_ios_spotlight_missing_from_ffs_candidates"}),
   Former("vw_ios_spotlight_missing_from_ffs_high_value_summary",
        {"vw_ios_spotlight_missing_from_ffs_high_value_candidates"}) >>

MissingTextViews == <<
   ViewOf("vw_ios_spotlight_missing_from_ffs_text_detail",
        {"raw_key_values", "raw_records", "vw_ios_spotlight_missing_from_ffs_candidates"}),
   ViewOf("vw_ios_spotlight_missing_from_ffs_text_coverage_summary",
        {"vw_ios_spotlight_missing_from_ffs_text_detail"}) >>

TextContextViews == <<
   ViewOf("vw_ios_spotlight_text_context_review", {"raw_key_values", "raw_records"}),
   ViewOf("vw_ios_spotlight_high_value_text_context_review",
        {"vw_ios_spotlight_text_context_review"}),
   ViewOf("vw_ios_spotlight_text_context_priority_summary",
        {"vw_ios_spotlight_text_context_review"}) >>

ChatAttributionViews == <<
   ViewOf("vw_ios_spotlight_chat_app_attribution_summary", {"vw_ios_spotlight_text_context_review"}) >>

FormerHumanTextViews == <<
   Former("vw_ios_spotlight_human_text_values", {"raw_key_values", "raw_records"}),
   ViewOf("vw_ios_spotlight_human_text_rollup",
        {"raw_records", "vw_ios_spotlight_human_text_values"}),
   ViewOf("vw_ios_spotlight_investigative_items_with_dates",
        {"vw_ios_spotlight_date_provenance", "vw_ios_spotlight_human_text_values"}) >>

FormerDatedItemViews == <<
   ViewOf("vw_ios_spotlight_date_field_summary", {"raw_date_candidates+"}),
   Former("vw_ios_spotlight_investigative_item_date_evidence",
        {"vw_ios_spotlight_date_provenance", "vw_ios_spotlight_human_text_values"}),
   ViewOf("vw_ios_spotlight_high_value_timeline",
        {"vw_ios_spotlight_investigative_items_with_dates", "vw_ios_spotlight_to_app_db_record_links",
         "vw_ios_spotlight_to_ffs_object_links"}) >>

ReferenceViews == <<
   ViewOf("vw_ios_spotlight_file_reference_review",
        {"vw_ios_spotlight_investigative_items_with_dates", "vw_ios_spotlight_to_ffs_object_links"}),
   ViewOf("vw_ios_spotlight_url_reference_review",
        {"vw_ios_spotlight_investigative_items_with_dates", "vw_ios_spotlight_to_app_db_record_links"}),
   ViewOf("vw_ios_spotlight_account_contact_reference_review",
        {"vw_ios_spotlight_investigative_items_with_dates", "vw_ios_spotlight_to_app_db_record_links"}),
   ViewOf("vw_ios_spotlight_decode_gap_summary",
        {"vw_ios_spotlight_decode_coverage_summary", "vw_ios_spotlight_decode_gap_records"}) >>

EntityViews == <<
   ViewOf("vw_ios_spotlight_entity_review",
        {"vw_ios_spotlight_investigative_items_with_dates", "vw_ios_spotlight_to_app_db_record_links",
         "vw_ios_spotlight_to_ffs_object_links"}),
   ViewOf("vw_ios_spotlight_entity_summary", {"vw_ios_spotlight_entity_review"}),
   ViewOf("vw_ios_spotlight_native_parser_targets",
        {"vw_ios_spotlight_decode_gap_summary", "vw_ios_spotlight_field_coverage_summary"}) >>

CoverageViews == <<
   ViewOf("vw_ios_spotlight_decode_coverage_summary",
        {"native_decode_attempts", "raw_key_values", "raw_records", "vw_ios_spotlight_human_text_values"}),
   ViewOf("vw_ios_spotlight_field_coverage_summary", {"raw_key_values"}),
   ViewOf("vw_ios_spotlight_text_category_summary", {"vw_ios_spotlight_human_text_values"}) >>

RecordViews == <<
   ViewOf("vw_ios_spotlight_record_review",
        {"raw_records", "vw_ios_spotlight_date_provenance", "vw_ios_spotlight_human_text_rollup"}),
   ViewOf("vw_ios_spotlight_object_inode_summary", {"raw_key_values", "raw_records"}),
   ViewOf("vw_ios_spotlight_object_inode_diagnostic_summary", {"raw_records"}) >>

ObjectLinkViews == <<
   ViewOf("vw_ios_spotlight_object_identity", {"evidence_sources", "raw_key_values", "raw_records"}),
   ViewOf("vw_ios_spotlight_to_ffs_object_links",
        {"ios_ffs_file_inventory", "ios_ffs_path_lookup", "vw_ios_spotlight_referenced_paths"}),
   ViewOf("vw_ios_spotlight_to_app_db_record_links",
        {"evidence_sources", "vw_ios_database_residency_candidates", "ios_app_parsed_records+"}),
   ViewOf("vw_ios_spotlight_residency_summary",
        {"vw_ios_database_residency_candidates", "vw_ios_spotlight_to_ffs_object_links"}) >>

HintViews == <<
   ViewOf("vw_ios_protection_class_summary", {"raw_key_values", "raw_records"}),
   ViewOf("vw_ios_artifact_hint_summary", {"raw_key_values"}),
   ViewOf("vw_ios_record_investigation_hints", {"raw_key_values", "raw_records"}) >>

DateAttributionViews == <<
   ViewOf("vw_date_field_attribution", {"artifacts+", "raw_date_candidates+"}),
   ViewOf("vw_usage_event_detail_attributed", {"vw_date_field_attribution"}),
   ViewOf("vw_artifact_dates_wide", {"artifact_date_summary"}) >>

DateSummaryViews == <<
   ViewOf("vw_snapshot_date_warnings", {"vw_date_field_attribution"}),
   ViewOf("vw_object_date_summary", {"artifact_date_summary"}),
   ViewOf("vw_artifact_time_summary", {"artifact_date_summary"}) >>

PointsOfInterestViews == <<
   ViewOf("vw_investigator_points_of_interest",
        {"artifact_date_summary", "external_volume_candidates", "orphaned_deleted_candidates",
         "spotlight_cache_text", "artifacts+"}),
   ViewOf("vw_investigator_high_priority_validation_queue", {"vw_investigator_points_of_interest"}) >>

EvidencePacketViews == <<
   ViewOf("vw_high_priority_validation_evidence_packet",
        {"orphaned_deleted_candidates", "raw_key_values", "spotlight_cache_text",
         "vw_investigator_high_priority_validation_queue", "vw_spotlight_active_file_comparison",
         "raw_date_candidates+"}) >>

ObjectUsageViews == <<
   ViewOf("vw_object_usage_summary", {"usage_evidence", "artifacts+", "raw_date_candidates+"}) >>

MessageDatabaseViews == <<
   ViewOf("vw_usage_timeline_attributed", {"vw_object_usage_summary"}),
   ViewOf("vw_ios_apple_messages_database_status",
        {"ios_app_database_inventory+", "ios_app_database_record_inventory+", "ios_app_parsed_records+"}),
   ViewOf("vw_ios_whatsapp_database_status",
        {"evidence_sources", "ios_app_database_inventory+", "ios_app_database_record_inventory+",
         "ios_app_parsed_records+"}) >>

KeychainViews == <<
   ViewOf("vw_ios_keychain_material_inventory", {"ios_ffs_file_inventory"}),
   ViewOf("vw_ios_keychain_support_reference_inventory", {"ios_ffs_file_inventory"}),
   ViewOf("vw_ios_protected_data_decryption_candidates",
        {"ios_app_database_inventory", "vw_ios_keychain_material_inventory"}),
   ViewOf("vw_ios_communications_review_records", {"ios_app_parsed_records+"}),
   ViewOf("vw_ios_communications_review_summary", {"vw_ios_communications_review_records"}),
   ViewOf("vw_ios_communication_frequency", {"ios_app_parsed_records+"}) >>

CommunicationViews == <<
   ViewOf("vw_ios_communication_existence_evidence", {"ios_app_parsed_records+"}),
   ViewOf("vw_ios_spotlight_comms_missing_from_ffs",
        {"vw_ios_communication_existence_evidence", "ios_app_parsed_records+"}),
   ViewOf("vw_ios_communication_identity_frequency", {"ios_app_parsed_records+"}),
   ViewOf("vw_ios_communication_temporal_frequency", {"ios_app_parsed_records+"}),
   ViewOf("vw_ios_communication_source_coverage", {"ios_app_parsed_records+"}) >>

IdentityViews == <<
   ViewOf("vw_ios_identity_activity_linkage", {"ios_app_parsed_records+"}),
   ViewOf("vw_ios_identity_activity_detail_sample", {"ios_app_parsed_records+"}),
   ViewOf("vw_ios_identity_entity_rollup", {"ios_app_parsed_records+"}) >>

IdentityGraphViews == <<
   ViewOf("vw_ios_identity_thread_activity_matrix", {"vw_ios_identity_activity_detail_sample"}),
   ViewOf("vw_ios_identity_graph_edges", {"vw_ios_identity_activity_detail_sample"}),
   ViewOf("vw_ios_identity_graph_summary", {"vw_ios_identity_graph_edges"}),
   ViewOf("vw_ios_identity_activity_timeline", {"vw_ios_identity_activity_detail_sample"}),
   ViewOf("vw_ios_url_frequency", {"ios_app_parsed_records+"}),
   ViewOf("vw_ios_attachment_reference_frequency", {"ios_app_parsed_records+"}) >>

LiveActivityViews == <<
   ViewOf("vw_ios_spotlight_communication_candidates", {"raw_key_values", "raw_records"}),
   ViewOf("vw_ios_app_live_activity_timeline", {"ios_app_parsed_records+"}) >>

FormerHumanTextViewsAgain == FormerHumanTextViews

FormerDatedItemViewsAgain == FormerDatedItemViews

ReferenceViewsAgain == ReferenceViews

EntityViewsAgain == EntityViews

CoverageViewsAgain == CoverageViews

RecordViewsAgain == RecordViews

DecodeGapViews == <<
   ViewOf("vw_ios_spotlight_decode_gap_records", {"raw_key_values", "raw_records"}) >>

ContactViews == <<
   ViewOf("vw_ios_database_residency_candidates",
        {"raw_key_values", "ios_app_database_inventory+", "ios_app_database_record_inventory+",
         "ios_app_parsed_records+"}),
   ViewOf("vw_ios_contact_identity_records", {"ios_app_parsed_records+"}),
   ViewOf("vw_ios_contact_identity_summary", {"vw_ios_contact_identity_records"}) >>

WebAndCalendarViews == <<
   ViewOf("vw_ios_web_history_review_records", {"ios_app_parsed_records+"}),
   ViewOf("vw_ios_web_history_review_summary", {"vw_ios_web_history_review_records"}),
   ViewOf("vw_ios_calendar_review_records", {"ios_app_parsed_records+"}),
   ViewOf("vw_ios_calendar_review_summary", {"vw_ios_calendar_review_records"}),
   ViewOf("vw_ios_investigation_keyword_surface",
        {"ios_app_database_inventory", "ios_ffs_file_inventory", "vw_ios_spotlight_human_text_values",
         "ios_app_parsed_records+"}) >>

DictionaryViews == <<
   ViewOf("vw_ios_spotlight_dbstr_map_inventory", {"native_dbstr_map_inventory"}),
   ViewOf("vw_ios_spotlight_dictionary_coverage",
        {"native_category_dictionary", "native_dbstr_map_inventory", "native_index_dictionary_summary",
         "native_property_dictionary", "raw_records"}),
   ViewOf("vw_ios_spotlight_apple_field_coverage", {"raw_key_values"}) >>

CommunicationRecordViews == <<
   ViewOf("vw_ios_spotlight_communication_record_review",
        {"raw_date_candidates", "raw_key_values", "raw_records"}) >>

MessageTextViews == <<
   ViewOf("vw_ios_spotlight_communication_summary",
        {"vw_ios_spotlight_communication_record_review"}),
   ViewOf("vw_ios_spotlight_attachment_reference_review",
        {"vw_ios_spotlight_communication_record_review"}),
   ViewOf("vw_ios_spotlight_message_text_review", {"vw_ios_spotlight_communication_record_review"}),
   ViewOf("vw_ios_spotlight_message_media_review", {"vw_ios_spotlight_communication_record_review"}),
   ViewOf("vw_case_provenance_summary", {"case_info", "evidence_sources"}),
   ViewOf("vw_parser_diagnostics_summary",
        {"native_decode_attempts", "raw_failures", "raw_key_values"}) >>

FormerMessageBodyViews == <<
   Former("vw_ios_spotlight_message_body_review", {"vw_ios_spotlight_message_text_review"}),
   Former("vw_ios_spotlight_user_focus_message_review", {"vw_ios_spotlight_message_body_review"}),
   Former("vw_ios_spotlight_message_contact_summary", {"vw_ios_spotlight_message_body_review"}),
   Former("vw_ios_spotlight_noise_reduction_summary", {"vw_ios_spotlight_message_body_review"}),
   ViewOf("vw_ios_spotlight_normalized_timeline",
        {"case_info", "vw_ios_spotlight_message_body_review", "vw_ios_spotlight_message_media_review"}),
   ViewOf("vw_ios_spotlight_timeline_anomaly_summary", {"vw_ios_spotlight_normalized_timeline"}) >>

SecondMessageBodyViews == <<
   ViewOf("vw_ios_spotlight_message_body_review", {"vw_ios_spotlight_message_text_review"}),
   ViewOf("vw_ios_spotlight_user_focus_message_review", {"vw_ios_spotlight_message_body_review"}),
   Former("vw_ios_spotlight_message_contact_summary", {"vw_ios_spotlight_message_body_review"}),
   ViewOf("vw_ios_spotlight_noise_reduction_summary", {"vw_ios_spotlight_message_body_review"}),
   ViewOf("vw_parser_diagnostics_detail_sample", {"raw_failures", "raw_key_values"}) >>

MessageThreadViews == <<
   ViewOf("vw_ios_spotlight_message_contact_summary", {"vw_ios_spotlight_message_body_review"}),
   ViewOf("vw_ios_spotlight_message_contact_thread_detail_sample",
        {"vw_ios_spotlight_message_body_review"}),
   ViewOf("vw_ios_spotlight_message_body_focus_summary", {"vw_ios_spotlight_message_body_review"}),
   ViewOf("vw_parser_diagnostics_action_summary", {"vw_parser_diagnostics_summary"}),
   ViewOf("vw_ios_spotlight_plaso_l2tcsv_timeline_sample", {"vw_ios_spotlight_normalized_timeline"}),
   ViewOf("vw_ios_spotlight_case_quality_dashboard",
        {"raw_date_candidates", "raw_key_values", "raw_records", "vw_parser_diagnostics_summary"}),
   ViewOf("vw_ios_spotlight_direct_user_message_review", {"vw_ios_spotlight_message_body_review"}) >>

OverviewViews == <<
   ViewOf("vw_ios_spotlight_direct_user_message_thread_summary",
        {"vw_ios_spotlight_direct_user_message_review"}),
   ViewOf("vw_ios_spotlight_timeline_month_summary", {"vw_ios_spotlight_normalized_timeline"}),
   ViewOf("vw_ios_spotlight_investigator_overview",
        {"raw_failures", "raw_key_values", "raw_records", "timeline_events"}),
   ViewOf("vw_ios_spotlight_bplist_nskeyedarchiver_detail", {"raw_key_values", "raw_records"}),
   ViewOf("vw_ios_spotlight_bplist_nskeyedarchiver_summary",
        {"vw_ios_spotlight_bplist_nskeyedarchiver_detail"}),
   ViewOf("vw_investigator_time_anomalies", {"artifacts+"}) >>

InteractionViews == <<
   ViewOf("vw_ios_knowledgec_interaction_events", {"ios_app_parsed_records+"}),
   ViewOf("vw_ios_knowledgec_interaction_summary", {"vw_ios_knowledgec_interaction_events"}),
   ViewOf("vw_ios_coreduet_interactionc_database_status",
        {"ios_app_database_inventory+", "ios_app_database_record_inventory+", "ios_app_parsed_records+"}),
   ViewOf("vw_ios_coreduet_interactionc_event_review", {"vw_ios_knowledgec_interaction_events"}),
   ViewOf("vw_ios_coreduet_interactionc_summary", {"vw_ios_coreduet_interactionc_event_review"}) >>

SuperTimelineViews == <<
   ViewOf("vw_ios_coreduet_interactionc_validation_checks",
        {"ios_app_database_inventory", "vw_ios_coreduet_interactionc_event_review",
         "ios_app_database_record_inventory+"}),
   ViewOf("vw_investigator_super_timeline",
        {"usage_evidence", "vw_ios_spotlight_normalized_timeline", "ios_app_parsed_records+"}) >>

SchemaPart == FlattenSeq(<<
   RecordTables, ArtifactTables, VolumeTables, InstanceTables, ProbeTables, IosTables, IosIndexes,
   IosColumns, DateColumns, DateIndexes, SourceProbeViews, ActiveComparisonViews,
   ComparisonCheckViews, InvestigatorTables, PreferenceTables, CacheTextViews, CheckedTables,
   CheckedAndTaggedViews, NotedAndReadyViews, ArtifactColumns, UsageViews, FolderViews,
   StringProbeViews, DateProvenanceViews, ParsedRecordViews, FormerMissingFromFfsViews,
   MissingTextViews, TextContextViews, ChatAttributionViews, FormerHumanTextViews,
   FormerDatedItemViews, ReferenceViews, EntityViews, CoverageViews, RecordViews, ObjectLinkViews,
   HintViews, DateAttributionViews, DateSummaryViews, PointsOfInterestViews, EvidencePacketViews,
   ObjectUsageViews, MessageDatabaseViews, KeychainViews, CommunicationViews, IdentityViews,
   IdentityGraphViews, LiveActivityViews, FormerHumanTextViewsAgain, FormerDatedItemViewsAgain,
   ReferenceViewsAgain, EntityViewsAgain, CoverageViewsAgain, RecordViewsAgain, DecodeGapViews,
   ContactViews, WebAndCalendarViews, DictionaryViews, CommunicationRecordViews, MessageTextViews,
   FormerMessageBodyViews, SecondMessageBodyViews, MessageThreadViews, OverviewViews,
   InteractionViews, SuperTimelineViews >>)

-----------------------------------------------------------------------------
(* ensureGuiReviewViews, with which initializeSchema ends.                  *)

GuiDateColumns == <<Ensure("raw_date_candidates+")>>

GuiDateTables == Tables(<<"review_view_preferences", "artifact_date_summary">>)

GuiUsageViews == UsageViews

GuiFolderViews == FolderViews

GuiKeywordSearchViews == <<
   ViewOf("vw_investigator_keyword_search_values",
        {"artifacts", "raw_key_values", "raw_records", "vw_spotlight_cache_text_review",
         "no column cache_file_parent_inode_num"}) >>

GuiIosTables == Tables(<<"ios_ffs_file_inventory", "ios_ffs_path_lookup", "ios_app_database_inventory",
                        "ios_app_database_record_inventory", "ios_app_parsed_records",
                        "ios_app_db_spotlight_flag_candidates">>)

GuiIosIndexes == <<
   Index("idx_ios_app_parsed_db", {"ios_app_parsed_records+"}) >>

GuiStringProbeViews == StringProbeViews

GuiDateProvenanceViews == DateProvenanceViews

GuiParsedRecordViews == ParsedRecordViews

GuiMissingFromFfsViews == <<
   ViewOf("vw_ios_spotlight_referenced_paths", {"raw_key_values"}),
   ViewOf("vw_ios_spotlight_missing_from_ffs_candidates",
        {"ios_ffs_file_inventory", "ios_ffs_path_lookup", "raw_key_values",
         "vw_ios_spotlight_referenced_paths"}),
   ViewOf("vw_ios_spotlight_missing_from_ffs_summary",
        {"vw_ios_spotlight_missing_from_ffs_candidates"}),
   ViewOf("vw_ios_spotlight_missing_from_ffs_high_value_candidates",
        {"vw_ios_spotlight_missing_from_ffs_candidates"}),
   ViewOf("vw_ios_spotlight_missing_from_ffs_high_value_summary",
        {"vw_ios_spotlight_missing_from_ffs_high_value_candidates"}) >>

GuiTextContextViews == TextContextViews

GuiChatAttributionViews == ChatAttributionViews

GuiHumanTextViews == <<
   ViewOf("vw_ios_spotlight_human_text_values", {"raw_key_values", "raw_records"}),
   ViewOf("vw_ios_spotlight_human_text_rollup",
        {"raw_records", "vw_ios_spotlight_human_text_values"}),
   ViewOf("vw_ios_spotlight_investigative_items_with_dates",
        {"vw_ios_spotlight_date_provenance", "vw_ios_spotlight_human_text_values"}) >>

GuiDatedItemViews == <<
   ViewOf("vw_ios_spotlight_date_field_summary", {"raw_date_candidates+"}),
   ViewOf("vw_ios_spotlight_investigative_item_date_evidence",
        {"vw_ios_spotlight_human_text_values", "raw_date_candidates+"}),
   ViewOf("vw_ios_spotlight_high_value_timeline",
        {"vw_ios_spotlight_investigative_items_with_dates", "vw_ios_spotlight_to_app_db_record_links",
         "vw_ios_spotlight_to_ffs_object_links"}) >>

GuiReferenceViews == ReferenceViews

GuiEntityViews == EntityViews

GuiCoverageViews == CoverageViews

GuiRecordViews == RecordViews

GuiObjectLinkViews == ObjectLinkViews

GuiHintViews == HintViews

GuiInvestigatorTables == Tables(<<"investigator_tags", "artifact_tags", "investigator_notes">>)

GuiCacheTextViews == CacheTextViews

GuiCheckedTables == Tables(<<"gui_checked_artifacts">>)

GuiCheckedAndTaggedViews == CheckedAndTaggedViews

GuiNotedAndReadyViews == NotedAndReadyViews

GuiDateAttributionViews == DateAttributionViews

GuiDateSummaryViews == DateSummaryViews

GuiPointsOfInterestViews == PointsOfInterestViews

GuiEvidencePacketViews == EvidencePacketViews

GuiObjectUsageViews == ObjectUsageViews

GuiMessageDatabaseViews == MessageDatabaseViews

GuiKeychainViews == KeychainViews

GuiCommunicationViews == CommunicationViews

GuiLiveActivityViews == LiveActivityViews

GuiHumanTextViewsAgain == GuiHumanTextViews

GuiDatedItemViewsAgain == GuiDatedItemViews

GuiReferenceViewsAgain == ReferenceViews

GuiEntityViewsAgain == EntityViews

GuiCoverageViewsAgain == CoverageViews

GuiRecordViewsAgain == RecordViews

GuiDecodeGapViews == DecodeGapViews

GuiContactViews == ContactViews

GuiWebAndCalendarViews == WebAndCalendarViews

GuiIdentityContextViews == <<
   ViewOf("vw_ios_spotlight_identity_context_links", {"raw_key_values", "raw_records"}) >>

\* Faulty: the texts without one the others read.
PivotViewsWithoutSurface == <<
   ViewOf("vw_ios_identity_all_activity_links",
        {"vw_ios_spotlight_identity_context_links", "ios_app_parsed_records+"}),
   ViewOf("vw_ios_identity_pivot_frequency", {"vw_ios_identity_pivot_surface"}) >>

GuiIdentityPivotViews == <<
   ViewOf("vw_ios_identity_all_activity_links",
        {"vw_ios_spotlight_identity_context_links", "ios_app_parsed_records+"}),
   ViewOf("vw_ios_spotlight_missing_native_identity_pivots",
        {"vw_ios_identity_graph_summary", "vw_ios_spotlight_comms_missing_from_ffs"}),
   ViewOf("vw_ios_identity_pivot_surface",
        {"vw_ios_spotlight_identity_context_links", "ios_app_parsed_records+"}),
   ViewOf("vw_ios_identity_pivot_frequency", {"vw_ios_identity_pivot_surface"}),
   ViewOf("vw_ios_communication_candidate_promotion", {"vw_ios_identity_pivot_surface"}),
   ViewOf("vw_ios_spotlight_communication_not_observed_native",
        {"vw_ios_communication_candidate_promotion", "ios_app_parsed_records+"}) >>

GuiReadinessViews == <<
   ViewOf("vw_ios_production_readiness_summary",
        {"case_info", "native_decode_attempts", "preserved_evidence_sets", "raw_key_values",
         "raw_records", "timeline_events", "vw_ios_spotlight_comms_missing_from_ffs"}) >>

GuiPart == FlattenSeq(<<
   GuiDateColumns, GuiDateTables, GuiUsageViews, GuiFolderViews, GuiKeywordSearchViews,
   GuiIosTables, GuiIosIndexes, GuiStringProbeViews, GuiDateProvenanceViews, GuiParsedRecordViews,
   GuiMissingFromFfsViews, GuiTextContextViews, GuiChatAttributionViews, GuiHumanTextViews,
   GuiDatedItemViews, GuiReferenceViews, GuiEntityViews, GuiCoverageViews, GuiRecordViews,
   GuiObjectLinkViews, GuiHintViews, GuiInvestigatorTables, GuiCacheTextViews, GuiCheckedTables,
   GuiCheckedAndTaggedViews, GuiNotedAndReadyViews, GuiDateAttributionViews, GuiDateSummaryViews,
   GuiPointsOfInterestViews, GuiEvidencePacketViews, GuiObjectUsageViews, GuiMessageDatabaseViews,
   GuiKeychainViews, GuiCommunicationViews, GuiLiveActivityViews, GuiHumanTextViewsAgain,
   GuiDatedItemViewsAgain, GuiReferenceViewsAgain, GuiEntityViewsAgain, GuiCoverageViewsAgain,
   GuiRecordViewsAgain, GuiDecodeGapViews, GuiContactViews, GuiWebAndCalendarViews,
   GuiIdentityContextViews, GuiIdentityPivotViews, GuiReadinessViews >>)

CaseScript == SchemaPart \o GuiPart

-----------------------------------------------------------------------------
(* ensureInvestigatorUiSchemaNoThrow: before every change the window makes. *)

TouchTables == Tables(<<"investigator_tags", "artifact_tags", "investigator_notes",
                      "gui_checked_artifacts", "review_view_preferences">>)

TouchViews == <<
   IfAbsent("vw_ios_communication_frequency", {"ios_app_parsed_records+"}),
   ViewOf("vw_ios_communication_existence_evidence", {"ios_app_parsed_records+"}),
   ViewOf("vw_ios_spotlight_comms_missing_from_ffs",
        {"vw_ios_communication_existence_evidence", "ios_app_parsed_records+"}),
   Reduced("vw_ios_production_readiness_summary",
        {"case_info", "native_decode_attempts", "preserved_evidence_sets", "raw_key_values",
         "raw_records", "timeline_events", "vw_ios_spotlight_comms_missing_from_ffs"}),
   ViewOf("vw_ios_communication_identity_frequency", {"ios_app_parsed_records+"}),
   ViewOf("vw_ios_communication_temporal_frequency", {"ios_app_parsed_records+"}),
   ViewOf("vw_ios_communication_source_coverage", {"ios_app_parsed_records+"}) >>

TouchScript == TouchTables \o TouchViews

-----------------------------------------------------------------------------
(* views(): what the list of views offers, whatever its names say.          *)

OfferedMac == {"vw_usage_artifacts", "vw_object_usage_summary", "vw_forensic_usage_open_bounds",
               "vw_usage_timeline_attributed", "vw_usage_event_detail_attributed", "vw_recent_activity",
               "vw_artifact_dates_wide", "vw_object_date_summary", "vw_artifact_time_summary",
               "vw_investigator_points_of_interest", "vw_investigator_high_priority_validation_queue",
               "vw_high_priority_validation_evidence_packet", "vw_date_field_attribution",
               "vw_snapshot_date_warnings", "vw_wherefroms_downloads", "vw_content_type_summary",
               "vw_store_content_type_summary", "vw_folder_activity", "vw_path_reconstruction",
               "vw_same_folder_groups", "vw_checked_artifacts", "vw_tagged_artifacts", "vw_artifact_notes",
               "vw_export_ready_artifacts", "vw_volume_root_focus", "vw_investigator_keyword_search_values"}

OfferedSpotlight == {"vw_ios_relevant_fields", "vw_ios_store_parse_summary", "vw_ios_protection_class_summary",
                     "vw_ios_artifact_hint_summary", "vw_ios_record_investigation_hints",
                     "vw_ios_string_probe_values", "vw_ios_record_string_probe_summary",
                     "vw_ios_string_probe_category_summary", "vw_ios_spotlight_date_provenance",
                     "vw_ios_spotlight_investigative_items_with_dates",
                     "vw_ios_spotlight_investigative_item_date_evidence", "vw_ios_spotlight_date_field_summary",
                     "vw_ios_spotlight_high_value_timeline", "vw_ios_spotlight_file_reference_review",
                     "vw_ios_spotlight_url_reference_review", "vw_ios_spotlight_account_contact_reference_review",
                     "vw_ios_spotlight_entity_review", "vw_ios_spotlight_entity_summary",
                     "vw_ios_spotlight_native_parser_targets", "vw_ios_spotlight_dbstr_map_inventory",
                     "vw_ios_spotlight_dictionary_coverage", "vw_ios_spotlight_bplist_nskeyedarchiver_summary",
                     "vw_ios_spotlight_bplist_nskeyedarchiver_detail", "vw_investigator_time_anomalies",
                     "vw_ios_coreduet_interactionc_database_status", "vw_ios_coreduet_interactionc_summary",
                     "vw_ios_coreduet_interactionc_event_review", "vw_ios_knowledgec_interaction_summary",
                     "vw_ios_knowledgec_interaction_events", "vw_investigator_super_timeline",
                     "vw_ios_spotlight_apple_field_coverage", "vw_ios_spotlight_decode_gap_summary",
                     "vw_ios_spotlight_decode_coverage_summary", "vw_ios_spotlight_field_coverage_summary",
                     "vw_ios_spotlight_text_category_summary", "vw_ios_spotlight_object_inode_diagnostic_summary",
                     "vw_ios_spotlight_object_inode_summary", "vw_ios_spotlight_record_review",
                     "vw_ios_spotlight_decode_gap_records", "vw_ios_timeline_index_updates", "vw_ios_artifacts",
                     "vw_ios_ffs_file_inventory", "vw_ios_database_artifact_inventory",
                     "vw_ios_spotlight_referenced_paths", "vw_ios_spotlight_missing_from_ffs_text_detail",
                     "vw_ios_spotlight_missing_from_ffs_text_coverage_summary",
                     "vw_ios_spotlight_missing_from_ffs_candidates",
                     "vw_ios_spotlight_missing_from_ffs_high_value_candidates",
                     "vw_ios_spotlight_missing_from_ffs_summary",
                     "vw_ios_spotlight_missing_from_ffs_high_value_summary", "vw_ios_spotlight_text_context_review",
                     "vw_ios_spotlight_high_value_text_context_review",
                     "vw_ios_spotlight_chat_app_attribution_summary"}

OfferedMessages == {"vw_ios_spotlight_communication_record_review", "vw_ios_spotlight_message_text_review",
                    "vw_ios_spotlight_message_body_review", "vw_ios_spotlight_user_focus_message_review",
                    "vw_ios_spotlight_message_contact_summary",
                    "vw_ios_spotlight_message_contact_thread_detail_sample",
                    "vw_ios_spotlight_message_body_focus_summary", "vw_parser_diagnostics_action_summary",
                    "vw_ios_spotlight_plaso_l2tcsv_timeline_sample", "vw_ios_spotlight_case_quality_dashboard",
                    "vw_ios_production_readiness_summary", "vw_ios_spotlight_investigator_overview",
                    "vw_ios_spotlight_direct_user_message_review",
                    "vw_ios_spotlight_direct_user_message_thread_summary",
                    "vw_ios_spotlight_timeline_month_summary", "vw_ios_spotlight_normalized_timeline",
                    "vw_ios_spotlight_timeline_anomaly_summary", "vw_parser_diagnostics_summary",
                    "vw_parser_diagnostics_detail_sample", "vw_case_provenance_summary",
                    "vw_ios_spotlight_message_media_review", "vw_ios_spotlight_communication_summary",
                    "vw_ios_spotlight_attachment_reference_review",
                    "vw_ios_spotlight_text_context_priority_summary", "vw_ios_spotlight_residency_summary",
                    "vw_ios_app_database_record_inventory", "vw_ios_app_database_record_summary",
                    "vw_ios_communication_frequency", "vw_ios_url_frequency",
                    "vw_ios_attachment_reference_frequency", "vw_ios_communication_existence_evidence",
                    "vw_ios_spotlight_comms_missing_from_ffs", "vw_ios_communication_identity_frequency",
                    "vw_ios_communication_temporal_frequency", "vw_ios_identity_activity_linkage",
                    "vw_ios_identity_entity_rollup", "vw_ios_identity_thread_activity_matrix",
                    "vw_ios_identity_graph_summary", "vw_ios_identity_graph_edges",
                    "vw_ios_identity_activity_timeline", "vw_ios_identity_activity_detail_sample",
                    "vw_ios_identity_all_activity_links", "vw_ios_spotlight_identity_context_links",
                    "vw_ios_spotlight_missing_native_identity_pivots", "vw_ios_identity_pivot_frequency",
                    "vw_ios_communication_candidate_promotion",
                    "vw_ios_spotlight_communication_not_observed_native", "vw_ios_communication_source_coverage"}

OfferedIosRecords == {"vw_ios_app_parsed_records", "vw_ios_apple_messages_database_status",
                      "vw_ios_app_live_activity_timeline", "vw_ios_communications_review_records",
                      "vw_ios_communications_review_summary", "vw_ios_spotlight_communication_candidates",
                      "vw_ios_contact_identity_records", "vw_ios_contact_identity_summary",
                      "vw_ios_web_history_review_records", "vw_ios_web_history_review_summary",
                      "vw_ios_calendar_review_records", "vw_ios_calendar_review_summary",
                      "vw_ios_investigation_keyword_surface", "vw_ios_apple_messages_parsed_records",
                      "vw_ios_apple_messages_parsed_summary", "vw_ios_whatsapp_database_status",
                      "vw_ios_whatsapp_parsed_records", "vw_ios_whatsapp_parsed_summary",
                      "vw_ios_keychain_material_inventory", "vw_ios_keychain_support_reference_inventory",
                      "vw_ios_protected_data_decryption_candidates", "vw_ios_app_parsed_record_summary",
                      "vw_ios_app_db_spotlight_enabled_summary", "vw_ios_app_db_spotlight_schema_hits",
                      "vw_ios_app_db_spotlight_flag_candidates", "vw_ios_app_db_spotlight_row_candidates",
                      "vw_ios_spotlight_human_text_values", "vw_ios_spotlight_human_text_rollup",
                      "vw_ios_database_residency_candidates", "vw_ios_spotlight_object_identity",
                      "vw_ios_spotlight_to_ffs_object_links", "vw_ios_spotlight_to_app_db_record_links"}

OfferedTables == {"artifacts", "vw_spotlight_cache_text_review", "timeline_events", "raw_date_candidates",
                  "parent_inode_links", "usage_evidence", "orphaned_deleted_candidates",
                  "external_volume_candidates", "vw_spotlight_external_volume_evidence_review",
                  "vw_spotlight_external_volume_candidate_summary", "source_copy_comparison",
                  "artifact_source_instances", "field_inventory", "parser_coverage_summary",
                  "vw_source_probe_inventory", "vw_source_probe_signatures", "vw_source_partition_inventory",
                  "vw_image_inventory_sources", "vw_image_file_inventory", "vw_active_file_comparison_readiness",
                  "vw_spotlight_active_file_comparison", "preserved_evidence_sets", "store_groups", "raw_records",
                  "processing_log"}

Offered == OfferedMac \cup OfferedSpotlight \cup OfferedMessages \cup OfferedIosRecords \cup OfferedTables

-----------------------------------------------------------------------------
(* What the scripts are about.                                             *)

Unresolved == {"no column cache_file_parent_inode_num", "ambiguous column database_category"}

All   == ToSet(CaseScript) \cup ToSet(TouchScript)
Texts == {s \in All : s.op \in {"view", "absent view"}}
Columns == {LateColumns[t] : t \in DOMAIN LateColumns}
NamesOf(some) == {s.name : s \in some}

CaseDbSchema ==
  [script   |-> [i \in {"run", "open", "touch"} |-> IF i = "touch" THEN TouchScript ELSE CaseScript],
   names    |-> NamesOf(All) \cup Columns,
   tables   |-> NamesOf({s \in All : s.op = "table"}),
   columns  |-> Columns,
   late     |-> LateColumns,
   formers  |-> NamesOf({s \in Texts : s.text = "former"}),
   \* the views whose queries fail however they are asked
   misnamed |-> NamesOf({s \in Texts : s.reads \cap Unresolved # {}}),
   offered  |-> Offered,
   \* name and text of a view -> what that text reads
   reads    |-> [v \in {<<s.name, s.text>> : s \in Texts} |->
                   (CHOOSE s \in Texts : s.name = v[1] /\ s.text = v[2]).reads]]

=============================================================================
