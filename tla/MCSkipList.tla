----------------------------- MODULE MCSkipList ----------------------------
(* The values TLC gives the constants of SkipList.                         *)
EXTENDS SkipList

MCKeys == {1, 2, 3}

=============================================================================
