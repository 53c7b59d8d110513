------------------------------- MODULE MCGit -------------------------------
(* GitDbtMigration on small instances: campaigns that are all to change the *)
(* first file, while the owner may edit the other one too.                  *)
EXTENDS GitDbtMigration, TLC

CONSTANTS c1, c2, f1, f2, w1

Pair == {c1, c2}
Alone == {c1}
Models == {f1, f2}
Process == {w1}
FirstModel == [c \in Campaigns |-> f1]

CampaignSymmetry == Permutations(Campaigns)
=============================================================================
