--------------------------- MODULE MCBulkPipeline ---------------------------
(* Small instances of BulkPipeline for TLC; the .cfg gives every constant.   *)
EXTENDS BulkPipeline
=============================================================================
