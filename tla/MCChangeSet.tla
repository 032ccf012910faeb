---------------------------- MODULE MCChangeSet -----------------------------
(* ChangeSet on three servers, the second of them over the API: a commit    *)
(* order that is not the configuration order, and targets on both sides of  *)
(* every failure.                                                           *)
EXTENDS ChangeSet

MCServers == 1..3
MCApi == {2}
=============================================================================
