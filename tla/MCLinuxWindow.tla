---------------------------- MODULE MCLinuxWindow ----------------------------
(* Three files, empty or of three blocks when they were listed, of up to     *)
(* three blocks or gone when they are read, a ring of two, and reads of at   *)
(* most two blocks.                                                          *)
EXTENDS LinuxWindow
=============================================================================
