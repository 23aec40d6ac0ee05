------------------------------- MODULE Texts -------------------------------
(* The texts the readers of src/DataReaders and src/SourceReaders go       *)
(* through, and the character that ends their lines.                       *)
EXTENDS Sequences

CONSTANTS
  Char,      \* the characters a text is made of
  NL,        \* the newline
  Contents   \* the texts a source may hold

ASSUME NewlineIsAChar == NL \in Char
ASSUME ContentsAreText == Contents \subseteq Seq(Char)
=============================================================================
