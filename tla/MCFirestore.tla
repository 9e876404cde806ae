---------------------------- MODULE MCFirestore ----------------------------
(* FirestoreClient for TLC: one client, one document. *)
EXTENDS FirestoreClient
=============================================================================
