---------------------------- MODULE MCSheetMerge ----------------------------
(***************************************************************************)
(* SheetMerge for TLC, with the values of MCSheetSync.                     *)
(***************************************************************************)
EXTENDS SheetMerge, MCSheetSync
=============================================================================
