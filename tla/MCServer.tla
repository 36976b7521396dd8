------------------------------- MODULE MCServer -------------------------------
(***************************************************************************)
(* The instance of Server for TLC: one user, two tables, one shell for the *)
(* commands and one process for a worker that escapes.  Two failures are   *)
(* those of a worker and of its error handler, or of an update and of what *)
(* reports its error.                                                      *)
(***************************************************************************)
EXTENDS Server
===============================================================================
