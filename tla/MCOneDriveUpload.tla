-------------------------- MODULE MCOneDriveUpload ---------------------------
(* Chunks of several alignments, files of several chunks, and the first    *)
(* size that spills.                                                       *)
EXTENDS OneDriveUpload
==============================================================================
