----------------------------- MODULE MCConnWriter -----------------------------
(* The instance of ConnWriter; ConnWriter.cfg gives the constants.         *)
EXTENDS ConnWriter
===============================================================================
