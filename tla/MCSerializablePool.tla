------------------------ MODULE MCSerializablePool ------------------------
(* Two users with two fields; a value with a zero inside, and the empty one. *)
EXTENDS SerializablePool

MCValues == {<<>>, <<1, 0>>}
MCPad == -1
\* The users are alike, and so are the places of the Impls.
Alike == Permutations(Handles) \cup Permutations(Impls)
=============================================================================
