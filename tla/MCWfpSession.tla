--------------------------- MODULE MCWfpSession ---------------------------
(***************************************************************************)
(* WfpSession on small instances: filter ids are interchangeable.  The     *)
(* sessions are not, Faulty and DirectCallers tell them apart.             *)
(***************************************************************************)
EXTENDS WfpSession, TLC

FilterIds == Permutations(FilterId)

============================================================================
