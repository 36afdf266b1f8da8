---------------------------- MODULE MCHelpdeskSync ----------------------------
(* A ticket that is created, updated, commented on and answered with a draft. *)
EXTENDS HelpdeskSync

MCRequests == {"create", "update", "comment", "approve"}
MCKind == [r \in MCRequests |-> r]
=============================================================================
