----------------------------- MODULE FileBuffer -----------------------------
(* The sizes FileReader's buffer may be given.  A buffer of one char only  *)
(* has room for the terminator: fgets then gives an empty string, which a  *)
(* reader takes for the end of the file.                                   *)
EXTENDS Integers

CONSTANTS
  Sizes,          \* the sizes a client gives the buffer
  DEFAULT_SIZE    \* 1024 in the constructor

ASSUME RoomForAChar == DEFAULT_SIZE \in Sizes /\ Sizes \subseteq Nat \ {0, 1}
=============================================================================
