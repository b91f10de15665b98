----------------------------- MODULE MCKvQuery -----------------------------
(* The values TLC gives the constants of KvQuery.                          *)
EXTENDS KvQuery

Mode(error, delete, create) ==
  [error_if_exists |-> error, delete_if_exists |-> delete, create_if_missing |-> create]

MCModes == {Mode(FALSE, FALSE, TRUE), Mode(FALSE, TRUE, TRUE)}
MCDefaultMode == {Mode(FALSE, FALSE, TRUE)}

MCNowhere == {}
MCMerging == {"merging"}

MCUnitSize == {1}
MCTwoKeys == {1, 2}
MCOneKey == {1}

=============================================================================
