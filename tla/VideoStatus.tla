---------------------------- MODULE VideoStatus ----------------------------
(***************************************************************************)
(* The status column of the videos table and the transition table that     *)
(* models.UpdateStatus consults before it writes it (models/video.go).     *)
(***************************************************************************)

Statuses == {"pending_upload", "uploading", "upload_complete", "transcoding",
             "ready", "failed_upload", "failed_transcode"}

\* validTransitions: where each status may go. A status that is no key of the
\* map in the code has no exit.
ValidTransitions ==
    [ s \in Statuses |->
        CASE s = "pending_upload"  -> {"uploading", "failed_upload"}
          [] s = "uploading"       -> {"uploading", "upload_complete", "failed_upload"}
          [] s = "upload_complete" -> {"transcoding"}
          [] s = "transcoding"     -> {"transcoding", "ready", "failed_transcode",
                                       "upload_complete"}
          [] OTHER                 -> {} ]

IsValidTransition(from, to) == to \in ValidTransitions[from]

\* The statuses the comment on validTransitions calls final.
Terminal == {s \in Statuses : ValidTransitions[s] = {}}

Failed == {"failed_upload", "failed_transcode"}
=============================================================================
