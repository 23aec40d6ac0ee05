----------------------------- MODULE LineStream -----------------------------
(***************************************************************************)
(* What DataReader::ReadNextLine promises (DataReaders/DataReader.h): each *)
(* call returns the next line of the source, without its newline, however  *)
(* the source cuts its content into portions.  The last line needs no      *)
(* newline, and past the end every call returns the empty string.          *)
(***************************************************************************)
EXTENDS Integers, Sequences

CONSTANTS Char, NL, Contents

VARIABLES
  content,   \* the content of the source
  cursor,    \* how many characters of it the lines returned so far account for
  line       \* the line returned last

streamVars == <<content, cursor, line>>

Init ==
  /\ content \in Contents
  /\ cursor = 0
  /\ line = <<>>

(***************************************************************************)
(* The next line runs from the cursor up to, but not including, the first  *)
(* newline or the end of the content; the newline is consumed with it.     *)
(***************************************************************************)
LineEndsAt(e) ==
  /\ \A k \in cursor + 1 .. e : content[k] # NL
  /\ e < Len(content) => content[e + 1] = NL

NextLine ==
  \E e \in cursor .. Len(content) :
    /\ LineEndsAt(e)
    /\ line' = SubSeq(content, cursor + 1, e)
    /\ cursor' = IF e < Len(content) THEN e + 1 ELSE e
    /\ content' = content

Spec == Init /\ [][NextLine]_streamVars
=============================================================================
