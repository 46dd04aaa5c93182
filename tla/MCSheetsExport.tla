--------------------------- MODULE MCSheetsExport ---------------------------
(***************************************************************************)
(* Two exports, the first longer than the second, each to a spreadsheet    *)
(* both may share or to one of its own.                                    *)
(***************************************************************************)
EXTENDS SheetsExport

CONSTANTS long, short

MCRowCount == [e \in Exports |-> IF e = long THEN 3 ELSE 2]
=============================================================================
