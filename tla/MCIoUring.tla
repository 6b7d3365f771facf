------------------------------ MODULE MCIoUring ------------------------------
(* Small instances of IoUring for TLC; the .cfg gives every constant.        *)
EXTENDS IoUring
=============================================================================
