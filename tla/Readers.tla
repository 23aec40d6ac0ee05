------------------------------ MODULE Readers -------------------------------
(***************************************************************************)
(* The stack of readers as a client uses it: CSVDataReader on DataReader   *)
(* on a source.  The source is a FileReader, whose buffer the client may   *)
(* resize between two calls, or any other SourceReader, which may cut its  *)
(* content wherever it likes.  All of it is one thread's: a call goes down *)
(* to the source and comes back with a line, which becomes the names of    *)
(* the columns, a row, NULL or an exception in the same step.              *)
(***************************************************************************)
EXTENDS DataReader, FileBuffer

CONSTANT COMMA    \* the character that separates the values of a line

ASSUME CommaIsAChar == COMMA \in Char \ {NL}

VARIABLES
  source,               \* "file", or another kind of SourceReader
  data, bufferSize,     \* FileReader's: the portion returned last, the buffer
  colNames, result      \* CSVDataReader's

readersVars == <<vars, source, data, bufferSize, colNames, result>>

File == INSTANCE FileReader
Rows == INSTANCE CSVDataReader WITH cursor <- Cursor

ReadersInit ==
  /\ Init
  /\ File!Init
  /\ source \in {"file", "other"}
  /\ colNames = <<>>
  /\ result = Rows!None

(* The constructor of CSVDataReader, or GetNextData, asks for a line. *)
Call == ReadNextLine /\ UNCHANGED <<source, data, bufferSize, colNames, result>>

(* The line is complete, and the call comes back with what it makes of it. *)
AnswerFromBuffer ==
  /\ TakeLine
  /\ Rows!Answer(line')
  /\ UNCHANGED <<source, data, bufferSize>>

(* The source is asked for a portion, and at its end the call comes back. *)
AskSource ==
  /\ \/ source = "file" /\ File!ReadNextData /\ buffer' = data'
     \/ source = "other" /\ Source!ReadNextData /\ data' = buffer'
  /\ JoinBuffer
  /\ \/ /\ pc' = "idle"
        /\ Rows!Answer(line')
     \/ /\ pc' = "scan"
        /\ UNCHANGED <<colNames, result>>
  /\ UNCHANGED <<source, bufferSize>>

SetBufferSize ==
  /\ pc = "idle"
  /\ source = "file"
  /\ File!SetBufferSize
  /\ UNCHANGED <<vars, source, colNames, result>>

ReadersNext == Call \/ AnswerFromBuffer \/ AskSource \/ SetBufferSize

(* A client reads on, as every client of the reader does in a loop, and a *)
(* call that has started is a loop of one thread.                         *)
ReadersSpec ==
  ReadersInit /\ [][ReadersNext]_readersVars
              /\ WF_readersVars(Call \/ AnswerFromBuffer \/ AskSource)

-----------------------------------------------------------------------------
ReadersTypeOK ==
  /\ TypeOK
  /\ source \in {"file", "other"}
  /\ File!TypeOK
  /\ Rows!TypeOK

(***************************************************************************)
(* What the line reader is given is a source (SourceReader.h): each portion*)
(* is the next piece of the content, none is skipped or handed out twice,  *)
(* and only the end gives an empty one, whenever a file's buffer is        *)
(* resized on the way.                                                     *)
(***************************************************************************)
IsASource == File!IsASource

(***************************************************************************)
(* A row is its line of the content: one value per column of the header,   *)
(* and the values with commas between them are what was read, so that no   *)
(* value is lost, not even an empty one, and none is in another column.    *)
(***************************************************************************)
RowIsItsLine == Rows!RowIsItsLine

(***************************************************************************)
(* The end is final: once the content is used up every call of GetNextData *)
(* gives NULL, whatever the header was (TestDataReaders.cpp reads on until *)
(* it sees the NULL).                                                      *)
(***************************************************************************)
EndIsFinal == Rows!EndIsFinal

(***************************************************************************)
(* No row is lost but behind a blank line: GetNextData gives NULL for the  *)
(* end and for a line without a character only, never for a line that does *)
(* not fit the header, nor because a portion of its line was cut short.    *)
(***************************************************************************)
NullIsABlankLine == Rows!NullIsABlankLine

(***************************************************************************)
(* A client that reads until NULL comes to an end, lines that do not fit   *)
(* the header included: each call returns, and each has used up a line.    *)
(***************************************************************************)
ReadsToNull == <>(result = Rows!Null)

(***************************************************************************)
(* GetNextData returns "a CSVDataType type containing next row of a csv"   *)
(* (CSVDataReader.h), so it says there is none only when nothing but       *)
(* newlines is left.  A blank line breaks this: it is taken for the end.   *)
(***************************************************************************)
NullOnlyAtTheEnd == Rows!NullOnlyAtTheEnd
=============================================================================
