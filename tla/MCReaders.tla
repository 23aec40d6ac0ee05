----------------------------- MODULE MCReaders ------------------------------
(* Every text of at most MaxLen characters: lines shorter and longer than  *)
(* the buffer, headers of several columns, rows with too few and too many  *)
(* values, blank lines; from a file, or from a source that cuts it anyhow. *)
EXTENDS Readers

CONSTANT MaxLen

AllTexts == UNION { [1 .. n -> Char] : n \in 0 .. MaxLen }
=============================================================================
