---------------------------- MODULE SourceReader ----------------------------
(***************************************************************************)
(* What every source of data promises the readers built on it              *)
(* (SourceReaders/SourceReader.h): ReadNextData hands out the next portion *)
(* of the content, of any length the source likes, and the empty string    *)
(* when there is no more.  DataReader takes an empty string for the end.   *)
(***************************************************************************)
EXTENDS Integers, Sequences

CONSTANTS
  Char,      \* the characters a content is made of
  Contents   \* the contents a source may hold

VARIABLES
  content,   \* what the source holds; it does not change while it is read
  pos,       \* how many characters of it have been handed out
  data       \* the portion handed out last

sourceVars == <<content, pos, data>>

Init ==
  /\ content \in Contents
  /\ pos = 0
  /\ data = <<>>

(* A bug to compare with: the end of the content is counted as read again. *)
ReadPastTheEnd ==
  /\ \/ \E e \in pos + 1 .. Len(content) :
          /\ data' = SubSeq(content, pos + 1, e)
          /\ pos' = e
     \/ /\ pos >= Len(content)
        /\ data' = <<>>
        /\ pos' = pos + 1
  /\ content' = content

ReadNextData ==
  /\ \/ \E e \in pos + 1 .. Len(content) :
          /\ data' = SubSeq(content, pos + 1, e)
          /\ pos' = e
     \/ /\ pos = Len(content)
        /\ data' = <<>>
        /\ pos' = pos
  /\ content' = content

Spec == Init /\ [][ReadNextData]_sourceVars
=============================================================================
