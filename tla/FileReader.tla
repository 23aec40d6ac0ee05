----------------------------- MODULE FileReader -----------------------------
(***************************************************************************)
(* SourceReaders/FileReader.cpp: a source that hands out a file in the     *)
(* portions fgets cuts it into.  A portion ends at a newline, when the     *)
(* buffer is full but for its terminator, or at the end of the file, and   *)
(* the size of the buffer can be changed between any two portions.         *)
(***************************************************************************)
EXTENDS Integers, Sequences, Texts, FileBuffer

VARIABLES
  content,      \* the file
  pos,          \* the position of fileHandle
  data,         \* the portion returned last
  bufferSize

vars == <<content, pos, data, bufferSize>>

Source == INSTANCE SourceReader

Init ==
  /\ Source!Init
  /\ bufferSize = DEFAULT_SIZE

(* Where fgets stops: the characters after pos up to and including the e-th. *)
PortionEndsAt(e) ==
  /\ e <= pos + bufferSize - 1
  /\ \A k \in pos + 1 .. e - 1 : content[k] # NL
  /\ \/ content[e] = NL
     \/ e = pos + bufferSize - 1
     \/ e = Len(content)

(* A bug to compare with: the position moves by what was asked for instead *)
(* of by what was read.                                                    *)
ReadWholeBuffers ==
  /\ \/ \E e \in pos + 1 .. Len(content) :
          /\ PortionEndsAt(e)
          /\ data' = SubSeq(content, pos + 1, e)
          /\ pos' = pos + bufferSize - 1
     \/ /\ pos = Len(content)
        /\ data' = <<>>
        /\ pos' = pos
  /\ UNCHANGED <<content, bufferSize>>

ReadNextData ==
  /\ \/ \E e \in pos + 1 .. Len(content) :
          /\ PortionEndsAt(e)
          /\ data' = SubSeq(content, pos + 1, e)
          /\ pos' = e
     \/ /\ pos = Len(content)
        /\ data' = <<>>
        /\ pos' = pos
  /\ UNCHANGED <<content, bufferSize>>

(* The portion already returned is a copy, and the file stays where it is. *)
SetBufferSize ==
  /\ bufferSize' \in Sizes
  /\ UNCHANGED <<content, pos, data>>

Next == ReadNextData \/ SetBufferSize

Spec == Init /\ [][Next]_vars

-----------------------------------------------------------------------------
TypeOK ==
  /\ content \in Contents
  /\ pos \in 0 .. Len(content)
  /\ data \in Seq(Char)
  /\ bufferSize \in Sizes

(***************************************************************************)
(* A file is a source (SourceReader.h): each portion is the next piece of  *)
(* the file, none is skipped or handed out twice, and only the end of the  *)
(* file gives an empty one, whenever the buffer is resized on the way.     *)
(***************************************************************************)
IsASource == Source!Spec
=============================================================================
