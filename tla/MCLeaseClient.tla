---------------------------- MODULE MCLeaseClient ---------------------------
(* The three kinds of client, one at a time, against both daemons.         *)
EXTENDS LeaseClient

MCKinds == {"session", "wrapper", "ctl"}
MCVersions == {"new", "old"}
=============================================================================
