---------------------------- MODULE MCHubClient ----------------------------
(* HubClient with a few connections and calls from the user interface. *)
EXTENDS HubClient
=============================================================================
