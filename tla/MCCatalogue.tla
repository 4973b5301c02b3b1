---------------------------- MODULE MCCatalogue ------------------------------
(***************************************************************************)
(* Catalogue for TLC: a seeded institution of one event and one student, a *)
(* product of either kind (an album may be sent event prices too), and     *)
(* room for a second of each.                                              *)
(***************************************************************************)
EXTENDS Catalogue, TLC

CONSTANTS null, gone, ana, eva

TwoClerks == {ana, eva}
Alike == Permutations(TwoClerks)
TwoContracts == {"INST-001", "INST-002"}
TwoNames == {"gala", "ball"}
Typed == {"prints", "prints "}
Trimmed == [n \in Typed |-> "prints"]
Prints == {"GENERIC", "ALBUM"}
TwoEmails == {"ana@", "joao@"}
OneIdentifier == {"002"}
Gala == <<"gala">>
Joao == <<[email |-> "joao@", identifier |-> "002"]>>
PrintsProduct == <<[name |-> "prints", flag |-> "GENERIC"]>>
=============================================================================
