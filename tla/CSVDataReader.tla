--------------------------- MODULE CSVDataReader ----------------------------
(***************************************************************************)
(* DataReaders/CSVDataReader.cpp and DataTypes/CSVDataType.cpp: the reader *)
(* the live charts are fed from.  The constructor takes the first line for *)
(* the names of the columns, and GetNextData turns each further line into  *)
(* a row, NULL or an exception.  The lines come from the inherited         *)
(* ReadNextLine, here in the form it promises (LineStream).                *)
(***************************************************************************)
EXTENDS Integers, Sequences

CONSTANTS
  Char, NL, Contents,
  COMMA     \* the character that separates the values of a line

VARIABLES
  content, cursor, line,   \* the line stream underneath
  colNames,                \* CSVDataReader::colNames, <<>> before construction
  result                   \* what the last GetNextData came to

vars == <<content, cursor, line, colNames, result>>

Stream == INSTANCE LineStream

None == [kind |-> "none"]
Null == [kind |-> "null"]
NotWellFormatted == [kind |-> "exception"]
Row(values) == [kind |-> "row", values |-> values]

(* A character joins the value that is being read, the last one: the `cur' *)
(* of the code.                                                            *)
Joining(values, c) == [values EXCEPT ![Len(values)] = Append(@, c)]

(* A bug to compare with: a comma joins the value it ends. *)
ExtractValuesAndCommas(s) ==
  LET values[n \in 0 .. Len(s)] ==
        IF n = 0 THEN << <<>> >>
        ELSE IF s[n] = COMMA THEN Append(Joining(values[n - 1], s[n]), <<>>)
        ELSE Joining(values[n - 1], s[n])
  IN  values[Len(s)]

(* The values of the first n characters, and so of all of them. *)
ExtractValues(s) ==
  LET values[n \in 0 .. Len(s)] ==
        IF n = 0 THEN << <<>> >>
        ELSE IF s[n] = COMMA THEN Append(values[n - 1], <<>>)
        ELSE Joining(values[n - 1], s[n])
  IN  values[Len(s)]

Init ==
  /\ Stream!Init
  /\ colNames = <<>>
  /\ result = None

(* The constructor, given the line it reads. *)
Construct(l) ==
  /\ colNames = <<>>
  /\ colNames' = ExtractValues(l)
  /\ result' = None

(* A bug to compare with: GetNextData without its test for an empty line. *)
GetNextDataUnchecked(l) ==
  /\ colNames # <<>>
  /\ LET values == ExtractValues(l)
     IN  \/ /\ Len(values) = Len(colNames)
            /\ result' = Row(values)
         \/ /\ Len(values) # Len(colNames)
            /\ result' = NotWellFormatted
  /\ UNCHANGED colNames

(* A bug to compare with: a line that does not fit is taken for the end. *)
GetNextDataOrNull(l) ==
  /\ colNames # <<>>
  /\ LET values == ExtractValues(l)
     IN  \/ /\ l = <<>> \/ Len(values) # Len(colNames)
            /\ result' = Null
         \/ /\ l # <<>>
            /\ Len(values) = Len(colNames)
            /\ result' = Row(values)
  /\ UNCHANGED colNames

(* The row of a line that does not fit the header is consumed all the same. *)
GetNextData(l) ==
  /\ colNames # <<>>
  /\ LET values == ExtractValues(l)
     IN  \/ /\ l = <<>>
            /\ result' = Null
         \/ /\ l # <<>>
            /\ Len(values) = Len(colNames)
            /\ result' = Row(values)
         \/ /\ l # <<>>
            /\ Len(values) # Len(colNames)
            /\ result' = NotWellFormatted
  /\ UNCHANGED colNames

(* Each call reads one line more. *)
Answer(l) == Construct(l) \/ GetNextData(l)

Next == Stream!NextLine /\ Answer(line')

(* The client reads on: every client of the reader calls it in a loop. *)
Spec == Init /\ [][Next]_vars /\ WF_vars(Next)

-----------------------------------------------------------------------------
Strings == Seq(Char \ {NL, COMMA})

TypeOK ==
  /\ content \in Contents
  /\ cursor \in 0 .. Len(content)
  /\ line \in Seq(Char \ {NL})
  /\ colNames \in Seq(Strings)
  /\ \/ result \in {None, Null, NotWellFormatted}
     \/ result.kind = "row" /\ result.values \in Seq(Strings)

(* What ExtractValues should invert: the values with commas between them. *)
Joined(values) ==
  LET joined[n \in 1 .. Len(values)] ==
        IF n = 1 THEN values[1] ELSE joined[n - 1] \o <<COMMA>> \o values[n]
  IN  joined[Len(values)]

(***************************************************************************)
(* A row is its line: one value per column of the header, and the values   *)
(* with commas between them are the line that was read, so that no value   *)
(* is lost, not even an empty one, and none ends up in another column.     *)
(***************************************************************************)
RowIsItsLine ==
  result.kind = "row" =>
    /\ Len(result.values) = Len(colNames)
    /\ Joined(result.values) = line

(***************************************************************************)
(* The end is final: once the content is used up every call of GetNextData *)
(* gives NULL, whatever the header was (TestDataReaders.cpp reads on until *)
(* it sees the NULL).                                                      *)
(***************************************************************************)
EndIsFinal ==
  [][ cursor = Len(content) /\ colNames # <<>> => result' = Null ]_vars

(***************************************************************************)
(* No row is lost but behind a blank line: GetNextData gives NULL for the  *)
(* end and for a line without a character only.                            *)
(***************************************************************************)
NullIsABlankLine ==
  [][ result' = Null => cursor = Len(content) \/ content[cursor + 1] = NL ]_vars

(***************************************************************************)
(* A client that reads until NULL comes to an end, lines that do not fit   *)
(* the header included: each call that throws has used up its line.        *)
(***************************************************************************)
ReadsToNull == <>(result = Null)

(***************************************************************************)
(* GetNextData returns "a CSVDataType type containing next row of a csv"   *)
(* (CSVDataReader.h), so it says there is none only when nothing but       *)
(* newlines is left.  A blank line breaks this: it is taken for the end.   *)
(***************************************************************************)
NullOnlyAtTheEnd ==
  result = Null => \A k \in cursor + 1 .. Len(content) : content[k] = NL
=============================================================================
