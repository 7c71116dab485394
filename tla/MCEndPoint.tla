------------------------------ MODULE MCEndPoint ------------------------------
(***************************************************************************)
(* Values of the constants of EndPoint for TLC.                            *)
(***************************************************************************)
EXTENDS EndPoint

CONSTANTS s1, s2, k1

MCEnds == Sessions \X {"client", "remote"}

\* How many bytes the parties outside send.
NoBytes == [e \in MCEnds |-> 0]
ServerTwoBytes == [e \in MCEnds |-> IF e[2] = "remote" THEN 2 ELSE 1]
ServerOneByte == [e \in MCEnds |-> IF e[2] = "remote" THEN 1 ELSE 0]

\* Which of them may hang up.
NoHangup == {}
FirstServer == {<<s1, "remote">>}
FirstSession == {s1} \X {"client", "remote"}
FirstAndServer == FirstSession \cup {<<s2, "remote">>}
Clients == Sessions \X {"client"}
AllEnds == MCEnds

\* All clients know the same key.
OneKey == [s \in Sessions |-> k1]
===============================================================================
