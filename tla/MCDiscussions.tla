---------------------------- MODULE MCDiscussions ----------------------------
(* The instance of Discussions that Discussions.cfg checks. *)
EXTENDS Discussions
=============================================================================
