------------------------- MODULE MCUpdateAdmission -------------------------
(* UpdateAdmission on small instances.                                     *)
EXTENDS UpdateAdmission, TLC

CallSymmetry == Permutations(Creates)

For(kind, version) == [kind |-> kind, version |-> version]

ThreeAsks == {For("lesser", 1), For("lesser", 2), For("mcp", 1)}
WireAsk == For("mcp", 1)

AllEnvs == [prompt : BOOLEAN, remediate : BOOLEAN]
PromptWire == {[prompt |-> TRUE, remediate |-> TRUE]}
=============================================================================
