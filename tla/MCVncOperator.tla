----------------------------- MODULE MCVncOperator -----------------------------
(***************************************************************************)
(* Values of the constants of VncOperator for TLC.                         *)
(***************************************************************************)
EXTENDS VncOperator

CONSTANTS s1, s2, k1, k2, p1

\* Both parties of the first session may hang up.
FirstSession == {s1} \X {"client", "remote"}

\* The second server offers what its record has no password for.
OfferSets == [s \in Sessions |->
    IF s = s1 THEN SUBSET {"none", "vnc"} ELSE {{"vnc"}}]

\* The clients know different keys, and one record has a password.
OwnKeys == [s \in Sessions |-> IF s = s1 THEN k1 ELSE k2]
OnePasswd == [k \in Keys |-> IF k = k1 THEN p1 ELSE NoWord]
===============================================================================
