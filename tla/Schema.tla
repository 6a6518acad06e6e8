------------------------------- MODULE Schema -------------------------------
(***************************************************************************)
(* The tables of the PostgreSQL database: as the Alembic revisions create  *)
(* them (New...), and as models.py, which the program works with, declares *)
(* them.  A table has the columns that must have a value, the columns that *)
(* may be NULL, its unique keys, the values that its CHECK constraints     *)
(* allow, and its foreign keys.                                            *)
(*                                                                         *)
(* A partial unique index has its condition in the key.  Of the types only *)
(* that of native_track_id is kept: a bigint holds the "low" tracker ids,  *)
(* below 2^63, a numeric(20, 0) the "high" ones too.  Plain indexes and    *)
(* the conditions on numbers or on several columns are left out.           *)
(***************************************************************************)

Table(needed, optional, unique, check, references) ==
    [needed |-> needed, optional |-> optional, unique |-> unique, check |-> check,
     references |-> references]

-----------------------------------------------------------------------------
(* 58ecca5e38a3_phase1_canonical_schema.                                   *)

NewFaceIdentity ==
    Table({"face_id", "lifecycle_status", "metadata", "is_active", "version", "created_at",
           "updated_at"},
          {"name", "deleted_at"},
          {{"face_id"}},
          {<<"lifecycle_status", {"anonymous", "known"}>>},
          {})

NewProcessRecord ==
    Table({"process_id", "process_type", "status", "face_count", "created_at"},
          {"error_code", "completed_at"},
          {{"process_id"}},
          {<<"process_type", {"delete", "enroll", "recognize", "update"}>>,
           <<"status", {"completed", "failed", "started"}>>},
          {})

NewFaceSample ==
    Table({"sample_id", "face_id", "lifecycle_state", "bucket", "object_key", "media_type",
           "sha256", "detector_version", "embedding_model_version", "alignment_version",
           "preprocess_version", "is_active", "bounding_box", "created_at", "updated_at"},
          {"landmarks", "quality", "failure_code", "deleted_at"},
          {{"sample_id"}, {"bucket", "object_key"}},
          {<<"lifecycle_state", {"active", "blob_ready", "failed", "inactive", "indexed", "pending"}>>},
          {<<"face_id", "face_identity", "keep">>})

NewProcessEvent ==
    Table({"event_id", "process_id", "event_type", "sanitized_details", "created_at"},
          {},
          {{"event_id"}},
          {},
          {<<"process_id", "process_record", "cascade">>})

NewRecognitionResult ==
    Table({"result_id", "process_id", "detection_ordinal", "face_id", "status_snapshot",
           "metadata_snapshot", "bounding_box", "detector_confidence", "match_confidence",
           "created_at"},
          {"name_snapshot", "matched_sample_id"},
          {{"result_id"}, {"process_id", "detection_ordinal"}},
          {<<"status_snapshot", {"anonymous", "known", "new_anonymous"}>>},
          {<<"face_id", "face_identity", "keep">>,
           <<"matched_sample_id", "face_sample", "keep">>,
           <<"process_id", "process_record", "cascade">>})

-----------------------------------------------------------------------------
(* c21d7a1e4f02_phase2_video_backend.                                      *)

NewVideoJob ==
    Table({"job_id", "process_id", "status", "stage", "progress_percent",
           "cancellation_requested", "attempt_count", "max_attempts", "available_at",
           "source_bucket", "source_object_key", "source_content_type", "source_size",
           "source_sha256", "source_retention_until", "container_format", "video_codec",
           "duration_seconds", "fps", "width", "height", "total_frames", "processed_frames",
           "person_count", "sampling", "created_at", "updated_at"},
          {"worker_id", "lease_token", "lease_expires_at", "error_code", "source_deleted_at",
           "started_at", "completed_at", "cancelled_at"},
          {{"job_id"}, {"process_id"}, {"source_object_key"}},
          {<<"status", {"cancelled", "cancelling", "completed", "failed", "pending", "processing"}>>},
          {<<"process_id", "process_record", "cascade">>})

NewVideoTrack ==
    Table({"track_id", "job_id", "track_ordinal", "source_tracker_ids", "face_id",
           "recognition_result_id", "status_snapshot", "metadata_snapshot",
           "identity_version_snapshot", "match_confidence", "threshold_used", "first_frame",
           "last_frame", "first_seen", "last_seen", "total_duration", "detection_count",
           "appearances", "detections", "created_at"},
          {"name_snapshot", "representative_sample_id"},
          {{"track_id"}, {"job_id", "track_ordinal"}},
          {<<"status_snapshot", {"anonymous", "known", "new_anonymous"}>>},
          {<<"face_id", "face_identity", "keep">>, <<"job_id", "video_job", "cascade">>,
           <<"recognition_result_id", "recognition_result", "keep">>,
           <<"representative_sample_id", "face_sample", "keep">>})

-----------------------------------------------------------------------------
(* 7d6f0b3a9c21_add_live_stream_tables.                                    *)

NewLiveCamera ==
    Table({"camera_id", "name", "uri_ciphertext", "uri_fingerprint", "desired_state",
           "is_active", "created_at", "updated_at"},
          {"deleted_at"},
          {{"camera_id"}, {"name", "deleted_at IS NULL"},
           {"uri_fingerprint", "deleted_at IS NULL"},
           {"desired_state", "desired_state = running AND deleted_at IS NULL"}},
          {<<"desired_state", {"running", "stopped"}>>},
          {})

NewLiveCameraRun ==
    Table({"run_id", "camera_id", "generation", "runtime_state", "started_at",
           "reconnect_count", "metrics", "created_at", "updated_at"},
          {"worker_id", "lease_token", "lease_expires_at", "first_frame_at", "last_frame_at",
           "stopped_at", "output_path", "error_code", "sanitized_error"},
          {{"run_id"}, {"camera_id", "generation"}},
          {<<"runtime_state", {"ACTIVE", "FAILED", "RECONNECTING", "STARTING", "STOPPED", "STOPPING"}>>},
          {<<"camera_id", "live_camera", "keep">>})

NewLiveDetectionEvent ==
    Table({"event_id", "camera_id", "run_id", "native_track_id", "event_type",
           "detector_confidence", "first_seen_at", "last_seen_at", "occurred_at",
           "bounding_box", "landmarks", "quality", "snapshot_status", "created_at"},
          {"face_id", "name_snapshot", "identity_version_snapshot", "match_score",
           "nearest_known_score", "snapshot_bucket", "snapshot_object_key"},
          {{"event_id"}, {"run_id", "native_track_id", "event_type"}},
          {<<"event_type", {"known", "unknown"}>>,
           <<"snapshot_status", {"failed", "pending", "ready", "unavailable"}>>,
           <<"native_track_id", {"low"}>>},
          {<<"camera_id", "live_camera", "keep">>, <<"face_id", "face_identity", "keep">>,
           <<"run_id", "live_camera_run", "keep">>})

-----------------------------------------------------------------------------
(* d92a7f4c1b30_live_session_api.                                          *)

NewLiveSession ==
    Table({"session_id", "camera_external_id", "desired_state", "current_generation",
           "created_at", "updated_at"},
          {"location_snapshot", "stopped_at"},
          {{"session_id"}},
          {<<"desired_state", {"running", "stopped"}>>},
          {})

NewLiveConnector ==
    Table({"connector_id", "connector_type", "name", "safe_config", "enabled", "created_at",
           "updated_at"},
          {"secret_ciphertext"},
          {{"connector_id"}, {"name"}},
          {<<"connector_type", {"kafka", "webhook"}>>},
          {})

NewLiveSessionGeneration ==
    Table({"generation_id", "session_id", "generation", "requested_spec", "resolved_spec",
           "spec_hash", "profile_id", "profile_version", "source_type", "ingress_path",
           "desired_state", "runtime_state", "media_state", "created_at"},
          {"source_ciphertext", "started_at", "stopped_at", "error_code"},
          {{"generation_id"}, {"session_id", "generation"}, {"ingress_path"}},
          {<<"source_type", {"rtspPull", "whepPull", "whipPush"}>>,
           <<"desired_state", {"running", "stopped"}>>,
           <<"runtime_state", {"ACCEPTED", "ACTIVE", "FAILED", "RECONNECTING", "STARTING", "STOPPED", "STOPPING", "WAITING_FOR_SOURCE"}>>,
           <<"media_state", {"failed", "provisioning", "ready", "waiting"}>>},
          {<<"session_id", "live_session", "cascade">>})

NewLiveSessionRun ==
    Table({"run_id", "generation_id", "runtime_attempt", "runtime_state", "started_at",
           "created_at", "updated_at"},
          {"worker_id", "lease_token", "lease_expires_at", "stopped_at", "error_code"},
          {{"run_id"}, {"generation_id", "runtime_attempt"}},
          {<<"runtime_state", {"ACTIVE", "FAILED", "RECONNECTING", "STARTING", "STOPPED", "STOPPING"}>>},
          {<<"generation_id", "live_session_generation", "cascade">>})

-----------------------------------------------------------------------------
(* models.py.                                                              *)

FaceIdentity ==
    Table({"face_id", "lifecycle_status", "metadata", "is_active", "version", "created_at",
           "updated_at"},
          {"name", "deleted_at"},
          {{"face_id"}},
          {<<"lifecycle_status", {"anonymous", "known"}>>},
          {})

FaceSample ==
    Table({"sample_id", "face_id", "lifecycle_state", "bucket", "object_key", "media_type",
           "sha256", "detector_version", "embedding_model_version", "alignment_version",
           "preprocess_version", "is_active", "bounding_box", "created_at", "updated_at"},
          {"landmarks", "quality", "failure_code", "deleted_at"},
          {{"sample_id"}, {"bucket", "object_key"}},
          {<<"lifecycle_state", {"active", "blob_ready", "failed", "inactive", "indexed", "pending"}>>},
          {<<"face_id", "face_identity", "keep">>})

ProcessRecord ==
    Table({"process_id", "process_type", "status", "face_count", "details", "created_at"},
          {"error_code", "completed_at"},
          {{"process_id"}},
          {<<"process_type", {"delete", "enroll", "recognize", "update", "video_recognize"}>>,
           <<"status", {"cancelled", "completed", "failed", "started"}>>},
          {})

RecognitionResult ==
    Table({"result_id", "process_id", "detection_ordinal", "face_id", "status_snapshot",
           "metadata_snapshot", "bounding_box", "detector_confidence", "match_confidence",
           "created_at"},
          {"name_snapshot", "matched_sample_id"},
          {{"result_id"}, {"process_id", "detection_ordinal"}},
          {<<"status_snapshot", {"anonymous", "known", "new_anonymous"}>>},
          {<<"process_id", "process_record", "cascade">>,
           <<"face_id", "face_identity", "keep">>,
           <<"matched_sample_id", "face_sample", "keep">>})

ProcessEvent ==
    Table({"event_id", "process_id", "event_type", "sanitized_details", "created_at"},
          {},
          {{"event_id"}},
          {},
          {<<"process_id", "process_record", "cascade">>})

VideoJob ==
    Table({"job_id", "process_id", "status", "stage", "progress_percent",
           "cancellation_requested", "attempt_count", "max_attempts", "available_at",
           "source_bucket", "source_object_key", "source_content_type", "source_size",
           "source_sha256", "source_retention_until", "container_format", "video_codec",
           "duration_seconds", "fps", "width", "height", "total_frames", "processed_frames",
           "person_count", "sampling", "created_at", "updated_at"},
          {"worker_id", "lease_token", "lease_expires_at", "error_code", "source_deleted_at",
           "started_at", "completed_at", "cancelled_at"},
          {{"job_id"}, {"process_id"}, {"source_object_key"}},
          {<<"status", {"cancelled", "cancelling", "completed", "failed", "pending", "processing"}>>},
          {<<"process_id", "process_record", "cascade">>})

VideoTrack ==
    Table({"track_id", "job_id", "track_ordinal", "source_tracker_ids", "face_id",
           "recognition_result_id", "status_snapshot", "metadata_snapshot",
           "identity_version_snapshot", "match_confidence", "threshold_used", "first_frame",
           "last_frame", "first_seen", "last_seen", "total_duration", "detection_count",
           "appearances", "detections", "created_at"},
          {"name_snapshot", "representative_sample_id"},
          {{"track_id"}, {"job_id", "track_ordinal"}},
          {<<"status_snapshot", {"anonymous", "known", "new_anonymous"}>>},
          {<<"job_id", "video_job", "cascade">>, <<"face_id", "face_identity", "keep">>,
           <<"recognition_result_id", "recognition_result", "keep">>,
           <<"representative_sample_id", "face_sample", "keep">>})

LiveCamera ==
    Table({"camera_id", "name", "uri_ciphertext", "uri_fingerprint", "desired_state",
           "is_active", "created_at", "updated_at"},
          {"desired_traceparent", "desired_tracestate", "deleted_at"},
          {{"camera_id"}, {"name", "deleted_at IS NULL"},
           {"uri_fingerprint", "deleted_at IS NULL"},
           {"desired_state", "desired_state = running AND deleted_at IS NULL"}},
          {<<"desired_state", {"running", "stopped"}>>},
          {})

LiveCameraRun ==
    Table({"run_id", "camera_id", "generation", "runtime_state", "started_at", "traceparent",
           "reconnect_count", "metrics", "created_at", "updated_at"},
          {"worker_id", "lease_token", "lease_expires_at", "tracestate", "first_frame_at",
           "last_frame_at", "stopped_at", "output_path", "error_code", "sanitized_error"},
          {{"run_id"}, {"camera_id", "generation"}},
          {<<"runtime_state", {"ACTIVE", "FAILED", "RECONNECTING", "STARTING", "STOPPED", "STOPPING"}>>},
          {<<"camera_id", "live_camera", "keep">>})

LiveSession ==
    Table({"session_id", "camera_external_id", "desired_state", "current_generation",
           "created_at", "updated_at"},
          {"location_snapshot", "stopped_at"},
          {{"session_id"}},
          {<<"desired_state", {"running", "stopped"}>>},
          {})

LiveSessionGeneration ==
    Table({"generation_id", "session_id", "generation", "requested_spec", "resolved_spec",
           "spec_hash", "profile_id", "profile_version", "source_type", "ingress_path",
           "desired_state", "runtime_state", "media_state", "created_at"},
          {"source_ciphertext", "started_at", "stopped_at", "error_code"},
          {{"generation_id"}, {"ingress_path"}, {"session_id", "generation"}},
          {<<"source_type", {"rtspPull", "whepPull", "whipPush"}>>,
           <<"desired_state", {"running", "stopped"}>>,
           <<"runtime_state", {"ACCEPTED", "ACTIVE", "FAILED", "RECONNECTING", "STARTING", "STOPPED", "STOPPING", "WAITING_FOR_SOURCE"}>>,
           <<"media_state", {"failed", "provisioning", "ready", "waiting"}>>},
          {<<"session_id", "live_session", "cascade">>})

LiveSessionRun ==
    Table({"run_id", "generation_id", "runtime_attempt", "runtime_state", "started_at",
           "created_at", "updated_at"},
          {"worker_id", "lease_token", "lease_expires_at", "stopped_at", "error_code"},
          {{"run_id"}, {"generation_id", "runtime_attempt"}},
          {<<"runtime_state", {"ACTIVE", "FAILED", "RECONNECTING", "STARTING", "STOPPED", "STOPPING"}>>},
          {<<"generation_id", "live_session_generation", "cascade">>})

LiveConnector ==
    Table({"connector_id", "connector_type", "name", "safe_config", "enabled", "created_at",
           "updated_at"},
          {"secret_ciphertext"},
          {{"connector_id"}, {"name"}},
          {<<"connector_type", {"kafka", "webhook"}>>},
          {})

LiveDetectionEvent ==
    Table({"event_id", "camera_id", "run_id", "native_track_id", "identity_epoch", "event_type",
           "detector_confidence", "first_seen_at", "last_seen_at", "occurred_at",
           "bounding_box", "landmarks", "quality", "snapshot_status", "created_at"},
          {"face_id", "name_snapshot", "identity_version_snapshot", "match_score",
           "nearest_known_score", "snapshot_bucket", "snapshot_object_key"},
          {{"event_id"}, {"run_id", "native_track_id", "identity_epoch", "event_type"}},
          {<<"event_type", {"known", "unknown"}>>,
           <<"snapshot_status", {"failed", "pending", "ready", "unavailable"}>>,
           <<"native_track_id", {"low", "high"}>>},
          {<<"camera_id", "live_camera", "keep">>, <<"run_id", "live_camera_run", "keep">>,
           <<"face_id", "face_identity", "keep">>})

\* Base.metadata.
Models ==
    [face_identity |-> FaceIdentity,
     face_sample |-> FaceSample,
     process_record |-> ProcessRecord,
     recognition_result |-> RecognitionResult,
     process_event |-> ProcessEvent,
     video_job |-> VideoJob,
     video_track |-> VideoTrack,
     live_camera |-> LiveCamera,
     live_camera_run |-> LiveCameraRun,
     live_session |-> LiveSession,
     live_session_generation |-> LiveSessionGeneration,
     live_session_run |-> LiveSessionRun,
     live_connector |-> LiveConnector,
     live_detection_event |-> LiveDetectionEvent]
=============================================================================
