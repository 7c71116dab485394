---------------------------- MODULE MCMarshalling ----------------------------
(***************************************************************************)
(* Values of the constants of Marshalling for TLC.                         *)
(***************************************************************************)
EXTENDS Marshalling

int == <<"i32">>
str == <<"string">>

\* The extremes of an i32, empty and nested containers, bytes that look like a
\* length, and a map with a negative key.
SomeValues == <<
    <<int, 0>>,
    <<int, -1>>,
    <<int, 2147483647>>,
    <<int, -2147483647 - 1>>,
    <<int, 66051>>,
    <<<<"i64">>, <<1, 0, 0, 0, 0, 0, 0, 128>>>>,
    <<<<"double">>, <<0, 0, 0, 0, 0, 0, 240, 63>>>>,
    <<str, <<>>>>,
    <<str, <<2, 0, 0, 0>>>>,
    <<<<"vector", int>>, <<>>>>,
    <<<<"vector", int>>, <<7, -7>>>>,
    <<<<"list", str>>, <<<<>>, <<65>>>>>>,
    <<<<"vector", <<"list", int>>>>, <<<<>>, <<1>>>>>>,
    <<<<"map", int, str>>, 5 :> <<66>> @@ -5 :> <<>>>>,
    <<<<"map", int, <<"vector", int>>>>, 1 :> <<3>>>> >>
==============================================================================
