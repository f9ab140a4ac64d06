---------------------------- MODULE MCIMTaskQueue ----------------------------
(* The instance of IMTaskQueue; IMTaskQueue.cfg gives the constants.       *)
EXTENDS IMTaskQueue
==============================================================================
