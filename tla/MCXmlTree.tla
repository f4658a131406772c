------------------------------ MODULE MCXmlTree ------------------------------
(* Instance of XmlTree for TLC.                                            *)
EXTENDS XmlTree, TLC

CONSTANTS n1, n2, n3, h1, h2, v1

\* Addresses are interchangeable, and so are handles; the properties are safety.
Symmetry == {f @@ g : f \in Permutations(Node), g \in Permutations(Handle)}
=============================================================================
