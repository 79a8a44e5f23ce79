---------------------------- MODULE MCVideoJobs ----------------------------
(***************************************************************************)
(* Small instances of VideoJobs.                                           *)
(***************************************************************************)
EXTENDS VideoJobs

CONSTANTS p1, p2

\* One process with two requests, or two with one.
OneOrTwo == {{p1}, {p1, p2}}

=============================================================================
