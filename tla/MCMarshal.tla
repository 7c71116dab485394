------------------------------ MODULE MCMarshal ------------------------------
(***************************************************************************)
(* Values of the constants of Marshal for TLC.                             *)
(***************************************************************************)
EXTENDS Marshal

CONSTANTS m1, m2

OneFeed == {<<m1, m2>>}
==============================================================================
