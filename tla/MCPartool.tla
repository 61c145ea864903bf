------------------------------ MODULE MCPartool ------------------------------
(***************************************************************************)
(* Instances of Partool: the name "a" is a prefix of "ab".                 *)
(***************************************************************************)
EXTENDS Partool

MCPrefixed == [n \in Names |-> IF n = "a" THEN Names \cap {"a", "ab"} ELSE {n}]
==============================================================================
