-------------------------- MODULE MCTicketLifecycle --------------------------
(***************************************************************************)
(* TicketLifecycle and TicketReports on a small instance for TLC.          *)
(* Requests are interchangeable, so they form a symmetry set.              *)
(***************************************************************************)
EXTENDS TicketReports, TLC

RequestSymmetry == Permutations(Requests)
=============================================================================
