------------------------------- MODULE MCKvDb -------------------------------
(* The values TLC gives the constants of KvDb.                             *)
EXTENDS KvDb

Mode(error, delete, create) ==
  [error_if_exists |-> error, delete_if_exists |-> delete, create_if_missing |-> create]

\* Opening what is there, creating it, starting afresh, insisting on a new one.
MCAllModes == {Mode(FALSE, FALSE, FALSE), Mode(FALSE, FALSE, TRUE), Mode(FALSE, TRUE, TRUE), Mode(TRUE, FALSE, TRUE)}
MCDefaultMode == {Mode(FALSE, FALSE, TRUE)}

MCNowhere == {}
MCAnywhere == Steps
MCRemoving == {"removing"}

MCUnitSize == {1}
MCTwoSizes == {1, 2}
MCAllSizes == {0, 1, 2}

=============================================================================
