--------------------------- MODULE MCPublishClient ---------------------------
(* Instances of PublishClient for TLC. *)
EXTENDS PublishClient
=============================================================================
