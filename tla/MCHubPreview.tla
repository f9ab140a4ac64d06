---------------------------- MODULE MCHubPreview ----------------------------
(* HubPreview with a few connects and losses and a session that prints a
   line or two. *)
EXTENDS HubPreview
=============================================================================
