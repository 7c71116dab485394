----------------------------- MODULE MCThreadPool -----------------------------
(***************************************************************************)
(* Two threads and three jobs.                                             *)
(***************************************************************************)
EXTENDS ThreadPool

CONSTANTS j1, j2, j3
===============================================================================
