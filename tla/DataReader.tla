----------------------------- MODULE DataReader -----------------------------
(***************************************************************************)
(* DataReaders/DataReader.cpp: a reader that cuts the portions of a source *)
(* back into lines.  ReadNextLine is a loop whose every iteration scans    *)
(* what is left in `buffer' and, when it holds no newline, asks the source *)
(* for another portion.  One action per iteration: the for loop of the     *)
(* source is the quantifier in TakeLine and its negation in Refill.        *)
(***************************************************************************)
EXTENDS Integers, Sequences, Texts

VARIABLES
  content,   \* what the source holds
  pos,       \* how much of it the source has handed out
  buffer,    \* DataReader::buffer
  ret,       \* the local `ret' of ReadNextLine
  pc,        \* "idle": no call is running; "scan": at the head of the loop
  line       \* what the last call returned

vars == <<content, pos, buffer, ret, pc, line>>

Source == INSTANCE SourceReader WITH data <- buffer

Init ==
  /\ Source!Init
  /\ ret = <<>>
  /\ pc = "idle"
  /\ line = <<>>

(* A bug to compare with: what the call before collected is not cleared. *)
ReadNextLineUncleared ==
  /\ pc = "idle"
  /\ pc' = "scan"
  /\ UNCHANGED <<content, pos, buffer, ret, line>>

(* A client calls ReadNextLine. *)
ReadNextLine ==
  /\ pc = "idle"
  /\ pc' = "scan"
  /\ ret' = <<>>
  /\ UNCHANGED <<content, pos, buffer, line>>

FirstNewline(i) == buffer[i] = NL /\ \A k \in 1 .. i - 1 : buffer[k] # NL

HasNewline == \E i \in 1 .. Len(buffer) : buffer[i] = NL

(* A bug to compare with: the newline is left for the next call. *)
TakeLineButNewline ==
  /\ pc = "scan"
  /\ \E i \in 1 .. Len(buffer) :
       /\ FirstNewline(i)
       /\ ret' = ret \o SubSeq(buffer, 1, i - 1)
       /\ buffer' = SubSeq(buffer, i, Len(buffer))
  /\ line' = ret'
  /\ pc' = "idle"
  /\ UNCHANGED <<content, pos>>

(* The scan meets a newline: the rest of the buffer waits for the next call. *)
TakeLine ==
  /\ pc = "scan"
  /\ \E i \in 1 .. Len(buffer) :
       /\ FirstNewline(i)
       /\ ret' = ret \o SubSeq(buffer, 1, i - 1)
       /\ buffer' = SubSeq(buffer, i + 1, Len(buffer))
  /\ line' = ret'
  /\ pc' = "idle"
  /\ UNCHANGED <<content, pos>>

(* A bug to compare with: the loop goes on until there is a newline. *)
JoinBufferForNewline ==
  /\ pc = "scan"
  /\ ~ HasNewline
  /\ ret' = ret \o buffer
  /\ UNCHANGED <<pc, line>>

(* It does not: the whole buffer joins ret, and the portion that takes its *)
(* place decides whether this was the last line.                           *)
JoinBuffer ==
  /\ pc = "scan"
  /\ ~ HasNewline
  /\ ret' = ret \o buffer
  /\ \/ /\ buffer' = <<>>
        /\ pc' = "idle"
        /\ line' = ret'
     \/ /\ buffer' # <<>>
        /\ UNCHANGED <<pc, line>>

Refill == Source!ReadNextData /\ JoinBuffer

Next == ReadNextLine \/ TakeLine \/ Refill

(* A call that has started runs on: it is a loop of one thread. *)
Spec == Init /\ [][Next]_vars /\ WF_vars(TakeLine \/ Refill)

-----------------------------------------------------------------------------
TypeOK ==
  /\ content \in Contents
  /\ pos \in 0 .. Len(content)
  /\ buffer \in Seq(Char)
  /\ ret \in Seq(Char)
  /\ pc \in {"idle", "scan"}
  /\ line \in Seq(Char)

(***************************************************************************)
(* The cursor of LineStream: what the source has handed out, less what is  *)
(* still in the buffer and, during a call, what the call has collected.    *)
(***************************************************************************)
Collected == IF pc = "scan" THEN Len(ret) ELSE 0
Cursor == pos - Len(buffer) - Collected

Stream == INSTANCE LineStream WITH cursor <- Cursor

(***************************************************************************)
(* Every call returns exactly the next line of the content: no character   *)
(* is lost, repeated or moved to another line, wherever the portions of    *)
(* the source happen to be cut.                                            *)
(***************************************************************************)
ReadsLines == Stream!Spec

(***************************************************************************)
(* Nothing the source handed out is dropped on the way: the buffer is the  *)
(* end of what was handed out, and what a running call has collected is    *)
(* the piece just before it, free of newlines.                             *)
(***************************************************************************)
NothingDropped ==
  /\ Cursor >= 0
  /\ \A k \in 1 .. Len(buffer) : buffer[k] = content[pos - Len(buffer) + k]
  /\ pc = "scan" =>
       \A k \in 1 .. Len(ret) : ret[k] = content[Cursor + k] /\ ret[k] # NL
=============================================================================
