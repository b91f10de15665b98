---------------------------- MODULE MCKvTraverse ----------------------------
(* KvTraverse for TLC, with the values of MCKvDb.                          *)
EXTENDS KvTraverse, MCKvDb

=============================================================================
