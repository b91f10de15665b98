---------------------------- MODULE MCPbtStorage ----------------------------
(* The values TLC gives the constants of PbtStorage.                       *)
EXTENDS PbtStorage

MCSizes == {1, 2, 5}
MCAddresses == {0, 3, 20}

=============================================================================
