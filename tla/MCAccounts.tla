------------------------------ MODULE MCAccounts -----------------------------
(***************************************************************************)
(* Accounts for TLC.                                                       *)
(***************************************************************************)
EXTENDS Accounts, TLC

CONSTANTS ann, bob, q1, q2, r1, r2, l1, b1

TwoUsers == {ann, bob}
TwoAsks == {q1, q2}
AnnAsksTwice == [q \in TwoAsks |-> ann]
TwoResets == {r1, r2}
OneLogin == {l1}
AnnLogsIn == [l \in OneLogin |-> ann]
OneBatch == {b1}
Class == <<ann, bob>>
Alike == Permutations(TwoAsks) \cup Permutations(TwoResets)
=============================================================================
