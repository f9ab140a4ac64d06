---------------------------- MODULE MCWriteBatcher ----------------------------
(* The instance of WriteBatcher; WriteBatcher.cfg gives the constants.     *)
EXTENDS WriteBatcher
===============================================================================
