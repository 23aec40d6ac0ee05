---------------------------- MODULE ReadersProofs ----------------------------
(***************************************************************************)
(* The stack of readers, for every content, every buffer size and every    *)
(* source: a file is a source, so what DataReaderProofs shows of the lines *)
(* holds of the lines of a file, the rows are those lines, whatever their  *)
(* length, and they come to an end that is final.                          *)
(***************************************************************************)
EXTENDS Readers, DataReaderProofs, WellFoundedInduction

-----------------------------------------------------------------------------
(* The file source on its own. *)

LEMMA FilePortionTyped ==
  ASSUME content \in Seq(Char), pos \in 0 .. Len(content),
         NEW e \in pos + 1 .. Len(content)
  PROVE  e \in 0 .. Len(content) /\ SubSeq(content, pos + 1, e) \in Seq(Char)
<1>1. Len(content) \in Nat
  OBVIOUS
<1>2. pos \in 0 .. Len(content) /\ e \in pos .. Len(content) /\ e \in 0 .. Len(content)
  BY <1>1
<1> QED BY <1>2, PieceAfter

LEMMA FileTyping == ASSUME File!TypeOK, [File!Next]_(File!vars) PROVE File!TypeOK'
<1>1. CASE File!ReadNextData
  <2>1. UNCHANGED <<content, bufferSize>>
    BY <1>1 DEF File!ReadNextData
  <2>2. CASE \E e \in pos + 1 .. Len(content) :
               data' = SubSeq(content, pos + 1, e) /\ pos' = e
    <3>1. PICK e \in pos + 1 .. Len(content) :
            data' = SubSeq(content, pos + 1, e) /\ pos' = e
      BY <2>2
    <3>2. pos' \in 0 .. Len(content) /\ data' \in Seq(Char)
      BY <3>1, FilePortionTyped, ContentsAreText DEF File!TypeOK
    <3> QED BY <2>1, <3>2 DEF File!TypeOK
  <2>3. CASE data' = <<>> /\ pos' = pos
    BY <2>1, <2>3 DEF File!TypeOK
  <2> QED BY <1>1, <2>2, <2>3 DEF File!ReadNextData
<1>2. CASE File!SetBufferSize
  BY <1>2 DEF File!TypeOK, File!SetBufferSize
<1>3. CASE UNCHANGED File!vars
  BY <1>3 DEF File!TypeOK, File!vars
<1> QED BY <1>1, <1>2, <1>3 DEF File!Next

LEMMA FileStarts == File!Init => File!TypeOK
<1> SUFFICES ASSUME File!Init PROVE File!TypeOK
  OBVIOUS
<1>1. content \in Contents /\ pos = 0 /\ data = <<>> /\ bufferSize = DEFAULT_SIZE
  BY DEF File!Init, File!Source!Init
<1>2. Len(content) \in Nat
  BY <1>1, ContentsAreText
<1> QED BY <1>1, <1>2, RoomForAChar, NoCharacters DEF File!TypeOK

(* The type invariant of the file source. *)
THEOREM FileTypes == File!Spec => []File!TypeOK
<1>1. File!TypeOK /\ [File!Next]_(File!vars) => File!TypeOK'
  BY FileTyping
<1> QED BY <1>1, FileStarts, PTL DEF File!Spec

(* The file source implements SourceReader, whatever it holds and however  *)
(* its buffer is resized: a step is a portion handed out or a stutter.     *)
THEOREM FileIsASource == File!Spec => File!IsASource
<1>1. File!Init => File!Source!Init
  BY DEF File!Init
<1>2. [File!Next]_(File!vars) => [File!Source!ReadNextData]_(File!Source!sourceVars)
  <2>1. File!ReadNextData => File!Source!ReadNextData
    BY DEF File!ReadNextData, File!Source!ReadNextData
  <2>2. File!SetBufferSize \/ UNCHANGED File!vars => UNCHANGED File!Source!sourceVars
    BY DEF File!SetBufferSize, File!vars, File!Source!sourceVars
  <2> QED BY <2>1, <2>2 DEF File!Next
<1> QED BY <1>1, <1>2, PTL DEF File!Spec, File!IsASource, File!Source!Spec

-----------------------------------------------------------------------------
(* The stack. *)

(* A portion of a file is a portion a source may hand out. *)
LEMMA FilePortionIsAPortion ==
  ASSUME File!ReadNextData, buffer' = data'
  PROVE  Source!ReadNextData
BY DEF File!ReadNextData, Source!ReadNextData

LEMMA AskIsRefill == ASSUME AskSource PROVE Refill
BY FilePortionIsAPortion DEF AskSource, Refill

(* Every step of the stack is a step of the line reader, or none of its. *)
LEMMA StackStep ==
  ASSUME [ReadersNext]_readersVars
  PROVE  [Next]_vars
<1>1. CASE Call
  BY <1>1 DEF Call, Next
<1>2. CASE AnswerFromBuffer
  BY <1>2 DEF AnswerFromBuffer, Next
<1>3. CASE AskSource
  BY <1>3, AskIsRefill DEF Next
<1>4. CASE SetBufferSize
  BY <1>4 DEF SetBufferSize
<1>5. CASE UNCHANGED readersVars
  BY <1>5 DEF readersVars
<1> QED BY <1>1, <1>2, <1>3, <1>4, <1>5 DEF ReadersNext

(***************************************************************************)
(* Nothing a source hands out is dropped on its way to a line.             *)
(***************************************************************************)
THEOREM StackDropsNothing == ReadersSpec => [](TypeOK /\ NothingDropped)
<1>1. ReadersInit => TypeOK /\ NothingDropped
  BY Starts DEF ReadersInit
<1>2. TypeOK /\ NothingDropped /\ [ReadersNext]_readersVars
        => TypeOK' /\ NothingDropped'
  <2> SUFFICES ASSUME TypeOK, NothingDropped, [ReadersNext]_readersVars
               PROVE  TypeOK' /\ NothingDropped'
    OBVIOUS
  <2>1. [Next]_vars
    BY StackStep
  <2>2. TypeOK'
    BY <2>1, Typing
  <2>3. NothingDropped'
    BY <2>1, TakeLineReturns, RefillReturnsOrWaits, OtherStepsWait DEF Next
  <2> QED BY <2>2, <2>3
<1> QED BY <1>1, <1>2, PTL DEF ReadersSpec

(* What a step of the stack does to the lines read so far. *)
LEMMA StackReads ==
  ASSUME TypeOK, NothingDropped, [ReadersNext]_readersVars
  PROVE  [Stream!NextLine]_(Stream!streamVars)
<1>1. [Next]_vars
  BY StackStep
<1> QED BY <1>1, TakeLineReturns, RefillReturnsOrWaits, OtherStepsWait
        DEF Next, Stream!streamVars

(***************************************************************************)
(* The calls of the stack read the lines of the content, one by one, from  *)
(* a file with its buffer resized at will and from any other source.       *)
(***************************************************************************)
THEOREM StackReadsLines == ReadersSpec => ReadsLines
<1>1. ReadersInit => Stream!Init
  BY Starts DEF ReadersInit
<1>2. TypeOK /\ NothingDropped /\ [ReadersNext]_readersVars
        => [Stream!NextLine]_(Stream!streamVars)
  BY StackReads
<1> QED BY <1>1, <1>2, StackDropsNothing, PTL DEF ReadersSpec, ReadsLines, Stream!Spec

(***************************************************************************)
(* What the stack reads from is a source, whichever of the two it is.      *)
(***************************************************************************)
THEOREM StackHasASource == ReadersSpec => IsASource
<1>1. ReadersInit => File!Source!Init
  BY DEF ReadersInit, File!Init
<1>2. [ReadersNext]_readersVars => [File!Source!ReadNextData]_(File!Source!sourceVars)
  <2>1. CASE Call \/ AnswerFromBuffer \/ SetBufferSize \/ UNCHANGED readersVars
    BY <2>1 DEF Call, ReadNextLine, AnswerFromBuffer, TakeLine, SetBufferSize,
                File!SetBufferSize, readersVars, vars, File!Source!sourceVars
  <2>2. ASSUME AskSource PROVE File!Source!ReadNextData
    BY <2>2 DEF AskSource, File!ReadNextData, Source!ReadNextData,
                File!Source!ReadNextData
  <2> QED BY <2>1, <2>2 DEF ReadersNext
<1> QED BY <1>1, <1>2, PTL DEF ReadersSpec, IsASource, File!IsASource, File!Source!Spec

(* At the end of the content the next line is empty and moves nothing on. *)
LEMMA NothingAfterTheEnd ==
  ASSUME TypeOK, Cursor = Len(content), Stream!NextLine
  PROVE  line' = <<>> /\ Cursor' = Cursor /\ content' = content
<1>1. content \in Seq(Char) /\ Len(content) \in Nat
  BY ContentsAreText DEF TypeOK
<1>2. PICK e \in Cursor .. Len(content) :
         /\ line' = SubSeq(content, Cursor + 1, e)
         /\ Cursor' = IF e < Len(content) THEN e + 1 ELSE e
         /\ content' = content
  BY DEF Stream!NextLine
<1>3. e = Len(content) /\ Cursor' = Cursor
  BY <1>1, <1>2
<1>4. line' \in Seq(Char) /\ Len(line') = 0
  <2>1. Len(content) \in 0 .. Len(content) /\ Len(content) \in Len(content) .. Len(content)
    BY <1>1
  <2> QED BY <1>1, <1>2, <1>3, <2>1, PieceAfter
<1> QED BY <1>2, <1>3, <1>4, EmptySeq

(***************************************************************************)
(* Once the content is used up GetNextData gives NULL and only NULL,       *)
(* whatever came before.                                                   *)
(***************************************************************************)
THEOREM TheEndIsFinal == ReadersSpec => EndIsFinal
<1>1. TypeOK /\ NothingDropped /\ [ReadersNext]_readersVars
        => [Cursor = Len(content) /\ colNames # <<>> => result' = Rows!Null]_(Rows!vars)
  <2> SUFFICES ASSUME TypeOK, NothingDropped, [ReadersNext]_readersVars,
                      Cursor = Len(content), colNames # <<>>, result' # Rows!Null
               PROVE  UNCHANGED Rows!vars
    OBVIOUS
  <2>1. CASE Call \/ SetBufferSize \/ UNCHANGED readersVars
    <3>1. UNCHANGED <<content, Cursor, line>>
      BY <2>1, OtherStepsWait DEF Call, SetBufferSize, readersVars
    <3> QED BY <2>1, <3>1 DEF Call, SetBufferSize, readersVars, Rows!vars
  <2>2. ASSUME Stream!NextLine, Rows!Answer(line') PROVE FALSE
    <3>1. line' = <<>>
      BY <2>2, NothingAfterTheEnd
    <3> QED BY <2>2, <3>1 DEF Rows!Answer, Rows!Construct, Rows!GetNextData
  <2>3. ASSUME AnswerFromBuffer PROVE FALSE
    BY <2>2, <2>3, TakeLineReturns DEF AnswerFromBuffer
  <2>4. CASE AskSource
    <3>1. CASE pc' = "idle"
      BY <2>2, <2>4, <3>1, AskIsRefill, RefillReturnsOrWaits DEF AskSource
    <3>2. CASE pc' = "scan"
      BY <2>4, <3>2, AskIsRefill, RefillReturnsOrWaits DEF AskSource, Rows!vars
    <3> QED BY <2>4, <3>1, <3>2 DEF AskSource
  <2> QED BY <2>1, <2>3, <2>4 DEF ReadersNext
<1> QED BY <1>1, StackDropsNothing, PTL DEF ReadersSpec, EndIsFinal, Rows!EndIsFinal

(* A line without a character is the end or stands before a newline. *)
LEMMA EmptyLineIsBlank ==
  ASSUME TypeOK, NothingDropped, Stream!NextLine, line' = <<>>
  PROVE  Cursor = Len(content) \/ content[Cursor + 1] = NL
<1>1. content \in Seq(Char) /\ Len(content) \in Nat /\ Cursor \in Int /\ Cursor >= 0
  BY ContentsAreText DEF TypeOK, NothingDropped, Cursor, Collected
<1>2. PICK e \in Cursor .. Len(content) :
         Stream!LineEndsAt(e) /\ line' = SubSeq(content, Cursor + 1, e)
  BY DEF Stream!NextLine
<1>3. Len(line') = e - Cursor
  <2>1. Cursor \in 0 .. Len(content) /\ e \in Cursor .. Len(content) /\ e \in 0 .. Len(content)
    BY <1>1, <1>2
  <2> QED BY <1>1, <1>2, <2>1, PieceAfter
<1>4. e = Cursor
  BY <1>1, <1>2, <1>3, NoCharacters
<1> QED BY <1>1, <1>2, <1>4 DEF Stream!LineEndsAt

(***************************************************************************)
(* NULL is given for the end and for blank lines only, so that no row is   *)
(* lost before the first of them.                                          *)
(***************************************************************************)
THEOREM NullsAreBlankLines == ReadersSpec => NullIsABlankLine
<1>1. TypeOK /\ NothingDropped /\ [ReadersNext]_readersVars
        => [result' = Rows!Null => Cursor = Len(content) \/ content[Cursor + 1] = NL]_(Rows!vars)
  <2> SUFFICES ASSUME TypeOK, NothingDropped, [ReadersNext]_readersVars,
                      result' = Rows!Null, ~ UNCHANGED Rows!vars
               PROVE  Cursor = Len(content) \/ content[Cursor + 1] = NL
    OBVIOUS
  <2>1. ~ (Call \/ SetBufferSize \/ UNCHANGED readersVars)
    BY OtherStepsWait DEF Call, SetBufferSize, readersVars, Rows!vars
  <2>2. ASSUME Stream!NextLine, Rows!Answer(line')
        PROVE  Cursor = Len(content) \/ content[Cursor + 1] = NL
    <3>1. line' = <<>>
      BY <2>2 DEF Rows!Answer, Rows!Construct, Rows!GetNextData, Rows!Null, Rows!None,
                  Rows!Row, Rows!NotWellFormatted
    <3> QED BY <2>2, <3>1, EmptyLineIsBlank
  <2>3. CASE AnswerFromBuffer
    BY <2>2, <2>3, TakeLineReturns DEF AnswerFromBuffer
  <2>4. CASE AskSource
    <3>1. pc' = "idle"
      BY <2>4, AskIsRefill, RefillReturnsOrWaits DEF AskSource, Rows!vars
    <3> QED BY <2>2, <2>4, <3>1, AskIsRefill, RefillReturnsOrWaits DEF AskSource
  <2> QED BY <2>1, <2>3, <2>4 DEF ReadersNext
<1> QED BY <1>1, StackDropsNothing, PTL DEF ReadersSpec, NullIsABlankLine, Rows!NullIsABlankLine

-----------------------------------------------------------------------------
(* Recursion.  A recursive function is, to the provers, any function that  *)
(* satisfies its equation: that there is one has to be shown, by induction *)
(* over the numbers, and what it computes by another.                      *)

Below == {ss \in Nat \X Nat : ss[1] < ss[2]}

LEMMA Induction ==
  ASSUME NEW S, 0 \in S, \A n \in Nat : n \in S => n + 1 \in S
  PROVE  Nat \subseteq S
<1> SUFFICES ASSUME Nat \ S # {} PROVE FALSE
  OBVIOUS
<1>1. OpToRel(<, Nat) = Below
  BY DEF OpToRel, Below
<1>2. IsWellFoundedOn(Below, Nat)
  BY <1>1, NatLessThanWellFounded
<1> DEFINE T == Nat \ S
<1>3. T \subseteq Nat /\ T # {}
  OBVIOUS
<1>4. PICK x \in T : \A y \in T : <<y, x>> \notin Below
  <2> HIDE DEF T
  <2> QED BY <1>2, <1>3, WFMin
<1>5. x \in Nat /\ x # 0 /\ x - 1 \in Nat /\ (x - 1) + 1 = x
  OBVIOUS
<1>6. x - 1 \notin T
  <2>1. <<x - 1, x>> \in Below
    BY <1>5 DEF Below
  <2> QED BY <1>4, <2>1
<1>7. x \in S
  BY <1>5, <1>6
<1> QED BY <1>7

IsRecursive(f, n, base, step) ==
  f[0] = base /\ \A i \in 1 .. n : f[i] = step[i][f[i - 1]]

LEMMA RecursiveFunction ==
  ASSUME NEW n \in Nat, NEW V, NEW base \in V, NEW step \in [1 .. n -> [V -> V]]
  PROVE  \E f \in [0 .. n -> V] : IsRecursive(f, n, base, step)
<1> DEFINE S == {k \in Nat : k <= n => \E f \in [0 .. k -> V] : IsRecursive(f, k, base, step)}
<1>1. 0 \in S
  <2> DEFINE f == [i \in 0 .. 0 |-> base]
  <2>1. f \in [0 .. 0 -> V] /\ IsRecursive(f, 0, base, step)
    BY DEF IsRecursive
  <2> QED BY <2>1
<1>2. ASSUME NEW k \in Nat, k \in S PROVE k + 1 \in S
  <2> SUFFICES ASSUME k + 1 <= n
               PROVE  \E g \in [0 .. k + 1 -> V] : IsRecursive(g, k + 1, base, step)
    OBVIOUS
  <2>1. PICK f \in [0 .. k -> V] : IsRecursive(f, k, base, step)
    BY <1>2
  <2> DEFINE g == [i \in 0 .. k + 1 |-> IF i = k + 1 THEN step[k + 1][f[k]] ELSE f[i]]
  <2>2. step[k + 1] \in [V -> V] /\ f[k] \in V
    OBVIOUS
  <2>3. g \in [0 .. k + 1 -> V]
    <3>1. step[k + 1][f[k]] \in V
      BY <2>2
    <3>2. \A i \in 0 .. k + 1 : i # k + 1 => f[i] \in V
      OBVIOUS
    <3> QED BY <3>1, <3>2
  <2>4. g[0] = base
    BY <2>1 DEF IsRecursive
  <2>5. ASSUME NEW i \in 1 .. k + 1 PROVE g[i] = step[i][g[i - 1]]
    <3>1. CASE i = k + 1
      <4>1. g[i] = step[k + 1][f[k]] /\ g[i - 1] = f[k]
        BY <3>1
      <4> QED BY <3>1, <4>1
    <3>2. CASE i # k + 1
      <4>1. i \in 1 .. k /\ g[i] = f[i] /\ g[i - 1] = f[i - 1]
        BY <3>2
      <4> QED BY <2>1, <4>1 DEF IsRecursive
    <3> QED BY <3>1, <3>2
  <2>6. IsRecursive(g, k + 1, base, step)
    BY <2>4, <2>5 DEF IsRecursive
  <2> QED BY <2>3, <2>6
<1>3. Nat \subseteq S
  <2> HIDE DEF S
  <2> QED BY <1>1, <1>2, Induction
<1>4. n \in S
  BY <1>3
<1> QED BY <1>4

-----------------------------------------------------------------------------
(* The values of a line. *)

Text == Seq(Char \ {NL})
Values == {v \in Seq(Rows!Strings) : v # <<>>}

(* What a character does to the values read so far. *)
After(v, c) == IF c = COMMA THEN Append(v, <<>>) ELSE Rows!Joining(v, c)

LEMMA AValue == <<>> \in Rows!Strings /\ Rows!Strings \subseteq Text
<1>1. Char \ {NL, COMMA} \subseteq Char \ {NL}
  OBVIOUS
<1>2. \A v \in Seq(Char \ {NL, COMMA}) : v \in Seq(Char \ {NL})
  BY <1>1, SeqMonotonic
<1> QED BY <1>2, EmptySeq DEF Rows!Strings, Text

LEMMA AfterIsValues ==
  ASSUME NEW v \in Values, NEW c \in Char \ {NL}
  PROVE  /\ After(v, c) \in Values
         /\ Len(v) \in Nat \ {0}
         /\ c = COMMA => /\ Len(After(v, c)) = Len(v) + 1
                         /\ After(v, c)[Len(v) + 1] = <<>>
                         /\ \A i \in 1 .. Len(v) : After(v, c)[i] = v[i]
         /\ c # COMMA => /\ Len(After(v, c)) = Len(v)
                         /\ After(v, c)[Len(v)] = Append(v[Len(v)], c)
                         /\ \A i \in 1 .. Len(v) - 1 : After(v, c)[i] = v[i]
<1>1. v \in Seq(Rows!Strings) /\ Len(v) \in Nat \ {0}
  BY EmptySeq DEF Values
<1>2. CASE c = COMMA
  <2>1. After(v, c) = Append(v, <<>>)
    BY <1>2 DEF After
  <2>2. /\ Append(v, <<>>) \in Seq(Rows!Strings)
        /\ Len(Append(v, <<>>)) = Len(v) + 1
        /\ Append(v, <<>>)[Len(v) + 1] = <<>>
        /\ \A i \in 1 .. Len(v) : Append(v, <<>>)[i] = v[i]
    BY <1>1, AValue
  <2>3. Append(v, <<>>) # <<>>
    BY <1>1, <2>2, EmptySeq
  <2> QED BY <1>1, <1>2, <2>1, <2>2, <2>3 DEF Values
<1>3. CASE c # COMMA
  <2> DEFINE e == Append(v[Len(v)], c)
  <2>1. After(v, c) = [v EXCEPT ![Len(v)] = e]
    BY <1>3 DEF After, Rows!Joining
  <2>2. Len(v) \in 1 .. Len(v)
    BY <1>1
  <2>3. v[Len(v)] \in Rows!Strings
    BY <1>1, <2>2, ElementOfSeq
  <2>4. e \in Rows!Strings
    <3>1. c \in Char \ {NL, COMMA}
      BY <1>3
    <3> QED BY <2>3, <3>1 DEF Rows!Strings
  <2> HIDE DEF e
  <2>5. /\ [v EXCEPT ![Len(v)] = e] \in Seq(Rows!Strings)
        /\ Len([v EXCEPT ![Len(v)] = e]) = Len(v)
        /\ \A j \in 1 .. Len(v) : [v EXCEPT ![Len(v)] = e][j] = IF j = Len(v) THEN e ELSE v[j]
    BY <1>1, <2>2, <2>4, ExceptSeq
  <2>6. /\ After(v, c) \in Seq(Rows!Strings) /\ Len(After(v, c)) = Len(v)
        /\ After(v, c)[Len(v)] = e
    BY <2>1, <2>2, <2>5
  <2>7. \A i \in 1 .. Len(v) - 1 : After(v, c)[i] = v[i]
    BY <1>1, <2>1, <2>5
  <2>8. After(v, c) # <<>>
    BY <1>1, <2>6, EmptySeq
  <2> QED BY <1>1, <1>3, <2>6, <2>7, <2>8 DEF Values, e
<1> QED BY <1>2, <1>3

(* The recursive function of ExtractValues, with its equation. *)
IsReading(f, s) ==
  /\ f[0] = << <<>> >>
  /\ \A i \in 1 .. Len(s) : f[i] = After(f[i - 1], s[i])

LEMMA ValuesAreRead ==
  ASSUME NEW s \in Text
  PROVE  \E f : IsReading(f, s) /\ Rows!ExtractValues(s) = f[Len(s)]
<1> DEFINE n == Len(s)
           step == [i \in 1 .. n |-> [v \in Values |-> After(v, s[i])]]
           Equation(g) ==
             g = [i \in 0 .. Len(s) |->
                    IF i = 0 THEN << <<>> >>
                    ELSE IF s[i] = COMMA THEN Append(g[i - 1], <<>>)
                    ELSE Rows!Joining(g[i - 1], s[i])]
<1>1. n \in Nat /\ \A i \in 1 .. n : s[i] \in Char \ {NL}
  BY LenProperties, ElementOfSeq DEF Text
<1>2. step \in [1 .. n -> [Values -> Values]]
  <2>1. \A i \in 1 .. n : \A v \in Values : After(v, s[i]) \in Values
    BY <1>1, AfterIsValues
  <2> QED BY <2>1
<1>3. << <<>> >> \in Values
  <2>1. << <<>> >> \in Seq(Rows!Strings) /\ Len(<< <<>> >>) = 1
    BY AValue
  <2> QED BY <2>1, EmptySeq DEF Values
<1> HIDE DEF n
<1>4. PICK f \in [0 .. n -> Values] : IsRecursive(f, n, << <<>> >>, step)
  <2> HIDE DEF step
  <2> QED BY <1>1, <1>2, <1>3, RecursiveFunction
<1>5. \A i \in 1 .. n : f[i] = After(f[i - 1], s[i])
  <2> SUFFICES ASSUME NEW i \in 1 .. n PROVE f[i] = After(f[i - 1], s[i])
    OBVIOUS
  <2>1. f[i - 1] \in Values
    BY <1>1
  <2> QED BY <1>4, <2>1 DEF IsRecursive
<1>6. Equation(f)
  <2>1. \A i \in 0 .. n :
          f[i] = IF i = 0 THEN << <<>> >>
                 ELSE IF s[i] = COMMA THEN Append(f[i - 1], <<>>)
                 ELSE Rows!Joining(f[i - 1], s[i])
    <3> SUFFICES ASSUME NEW i \in 0 .. n
                 PROVE  f[i] = IF i = 0 THEN << <<>> >>
                               ELSE IF s[i] = COMMA THEN Append(f[i - 1], <<>>)
                               ELSE Rows!Joining(f[i - 1], s[i])
      OBVIOUS
    <3>1. CASE i = 0
      BY <1>4, <3>1 DEF IsRecursive
    <3>2. CASE i # 0
      <4>1. f[i] = After(f[i - 1], s[i])
        BY <1>1, <1>5, <3>2
      <4> QED BY <3>2, <4>1, Zenon DEF After
    <3> QED BY <3>1, <3>2
  <2>2. f = [i \in 0 .. n |-> f[i]]
    BY <1>4
  <2> QED BY <2>1, <2>2 DEF n
<1> DEFINE g == CHOOSE g : Equation(g)
<1>7. Equation(g)
  <2> HIDE DEF Equation
  <2> QED BY <1>6
<1>8. Rows!ExtractValues(s) = g[Len(s)]
  BY DEF Rows!ExtractValues
<1>9. IsReading(g, s)
  <2> HIDE DEF g
  <2>1. g[0] = << <<>> >>
    BY <1>1, <1>7 DEF n
  <2>2. ASSUME NEW i \in 1 .. Len(s) PROVE g[i] = After(g[i - 1], s[i])
    <3>1. i \in 0 .. Len(s) /\ i # 0
      BY <1>1 DEF n
    <3>2. g[i] = IF s[i] = COMMA THEN Append(g[i - 1], <<>>) ELSE Rows!Joining(g[i - 1], s[i])
      BY <1>7, <3>1
    <3> QED BY <3>2 DEF After
  <2> QED BY <2>1, <2>2 DEF IsReading
<1> QED BY <1>8, <1>9

(* The recursive function of Joined, with its equation. *)
IsJoining(j, v) ==
  /\ j[1] = v[1]
  /\ \A i \in 2 .. Len(v) : j[i] = j[i - 1] \o <<COMMA>> \o v[i]

LEMMA ValuesAreJoined ==
  ASSUME NEW v \in Values
  PROVE  \E j : IsJoining(j, v) /\ Rows!Joined(v) = j[Len(v)]
<1> DEFINE n == Len(v) - 1
           step == [i \in 1 .. n |-> [t \in Text |-> t \o <<COMMA>> \o v[i + 1]]]
           Equation(g) ==
             g = [i \in 1 .. Len(v) |->
                    IF i = 1 THEN v[1] ELSE g[i - 1] \o <<COMMA>> \o v[i]]
<1>1. /\ Len(v) \in Nat \ {0} /\ n \in Nat
      /\ \A i \in 1 .. Len(v) : v[i] \in Text
      /\ <<COMMA>> \in Text
  <2>1. v \in Seq(Rows!Strings) /\ Len(v) \in Nat \ {0}
    BY EmptySeq DEF Values
  <2>2. \A i \in 1 .. Len(v) : v[i] \in Text
    BY <2>1, ElementOfSeq, AValue
  <2>3. <<COMMA>> \in Text
    BY CommaIsAChar DEF Text
  <2> QED BY <2>1, <2>2, <2>3
<1>2. step \in [1 .. n -> [Text -> Text]]
  <2>1. ASSUME NEW i \in 1 .. n, NEW t \in Text PROVE t \o <<COMMA>> \o v[i + 1] \in Text
    <3>1. v[i + 1] \in Text
      BY <1>1
    <3> QED BY <1>1, <3>1 DEF Text
  <2> QED BY <2>1
<1>3. v[1] \in Text
  BY <1>1
<1>4. PICK f \in [0 .. n -> Text] : IsRecursive(f, n, v[1], step)
  <2> HIDE DEF step, n
  <2> QED BY <1>1, <1>2, <1>3, RecursiveFunction
<1> DEFINE h == [i \in 1 .. Len(v) |-> f[i - 1]]
<1>5. Equation(h)
  <2>1. ASSUME NEW i \in 1 .. Len(v)
        PROVE  h[i] = IF i = 1 THEN v[1] ELSE h[i - 1] \o <<COMMA>> \o v[i]
    <3>1. CASE i = 1
      BY <1>1, <1>4, <3>1 DEF IsRecursive
    <3>2. CASE i # 1
      <4>1. i - 1 \in 1 .. n /\ i - 1 \in 1 .. Len(v) /\ (i - 1) + 1 = i /\ f[(i - 1) - 1] \in Text
        BY <1>1, <3>2
      <4>2. f[i - 1] = f[(i - 1) - 1] \o <<COMMA>> \o v[i]
        BY <1>4, <4>1 DEF IsRecursive
      <4>3. h[i] = f[i - 1] /\ h[i - 1] = f[(i - 1) - 1]
        BY <4>1
      <4> QED BY <3>2, <4>2, <4>3
    <3> QED BY <3>1, <3>2
  <2>2. h = [i \in 1 .. Len(v) |-> h[i]]
    OBVIOUS
  <2> HIDE DEF h
  <2> QED BY <2>1, <2>2
<1> HIDE DEF h
<1> DEFINE g == CHOOSE g : Equation(g)
<1>6. Equation(g)
  <2> HIDE DEF Equation
  <2> QED BY <1>5
<1>7. Rows!Joined(v) = g[Len(v)]
  BY DEF Rows!Joined
<1>8. IsJoining(g, v)
  <2> HIDE DEF g
  <2>1. g[1] = v[1]
    BY <1>1, <1>6
  <2>2. ASSUME NEW i \in 2 .. Len(v) PROVE g[i] = g[i - 1] \o <<COMMA>> \o v[i]
    <3>1. i \in 1 .. Len(v) /\ i # 1
      BY <1>1
    <3> QED BY <1>6, <3>1
  <2> QED BY <2>1, <2>2 DEF IsJoining
<1> QED BY <1>7, <1>8

(* What is joined is text, and depends on the values joined so far only. *)
LEMMA JoiningIsText ==
  ASSUME NEW v \in Values, NEW j, IsJoining(j, v)
  PROVE  \A k \in 1 .. Len(v) : j[k] \in Text
<1> DEFINE S == {k \in Nat : k + 1 <= Len(v) => j[k + 1] \in Text}
<1>1. /\ Len(v) \in Nat \ {0} /\ <<COMMA>> \in Text
      /\ \A i \in 1 .. Len(v) : v[i] \in Text
  <2>1. v \in Seq(Rows!Strings) /\ Len(v) \in Nat \ {0}
    BY EmptySeq DEF Values
  <2> QED BY <2>1, ElementOfSeq, AValue, CommaIsAChar DEF Text
<1>2. 0 \in S
  BY <1>1 DEF IsJoining
<1>3. ASSUME NEW k \in Nat, k \in S PROVE k + 1 \in S
  <2> SUFFICES ASSUME (k + 1) + 1 <= Len(v) PROVE j[(k + 1) + 1] \in Text
    OBVIOUS
  <2>1. j[k + 1] \in Text /\ (k + 1) + 1 \in 2 .. Len(v) /\ ((k + 1) + 1) - 1 = k + 1
    BY <1>1, <1>3
  <2>2. j[(k + 1) + 1] = j[k + 1] \o <<COMMA>> \o v[(k + 1) + 1]
    BY <2>1 DEF IsJoining
  <2>3. v[(k + 1) + 1] \in Text
    BY <1>1, <2>1
  <2> QED BY <1>1, <2>1, <2>2, <2>3 DEF Text
<1>4. Nat \subseteq S
  <2> HIDE DEF S
  <2> QED BY <1>2, <1>3, Induction
<1> SUFFICES ASSUME NEW k \in 1 .. Len(v) PROVE j[k] \in Text
  OBVIOUS
<1>5. k - 1 \in Nat /\ (k - 1) + 1 = k /\ k <= Len(v)
  BY <1>1
<1>6. k - 1 \in S
  <2> HIDE DEF S
  <2> QED BY <1>4, <1>5
<1> QED BY <1>5, <1>6

LEMMA SameValuesJoinAlike ==
  ASSUME NEW v \in Values, NEW w \in Values, NEW j, NEW h, IsJoining(j, v), IsJoining(h, w),
         NEW m \in Nat, m <= Len(v), m <= Len(w), \A i \in 1 .. m : v[i] = w[i]
  PROVE  \A k \in 1 .. m : j[k] = h[k]
<1> DEFINE S == {k \in Nat : k + 1 <= m => j[k + 1] = h[k + 1]}
<1>1. Len(v) \in Nat /\ Len(w) \in Nat
  BY LenProperties DEF Values
<1>2. 0 \in S
  BY <1>1 DEF IsJoining
<1>3. ASSUME NEW k \in Nat, k \in S PROVE k + 1 \in S
  <2> SUFFICES ASSUME (k + 1) + 1 <= m PROVE j[(k + 1) + 1] = h[(k + 1) + 1]
    OBVIOUS
  <2>1. /\ j[k + 1] = h[k + 1] /\ (k + 1) + 1 \in 2 .. Len(v) /\ (k + 1) + 1 \in 2 .. Len(w)
        /\ ((k + 1) + 1) - 1 = k + 1 /\ (k + 1) + 1 \in 1 .. m
    BY <1>1, <1>3
  <2>2. j[(k + 1) + 1] = j[k + 1] \o <<COMMA>> \o v[(k + 1) + 1]
    BY <2>1 DEF IsJoining
  <2>3. h[(k + 1) + 1] = h[k + 1] \o <<COMMA>> \o w[(k + 1) + 1]
    BY <2>1 DEF IsJoining
  <2>4. v[(k + 1) + 1] = w[(k + 1) + 1]
    BY <2>1
  <2> QED BY <2>1, <2>2, <2>3, <2>4
<1>4. Nat \subseteq S
  <2> HIDE DEF S
  <2> QED BY <1>2, <1>3, Induction
<1> SUFFICES ASSUME NEW k \in 1 .. m PROVE j[k] = h[k]
  OBVIOUS
<1>5. k - 1 \in Nat /\ (k - 1) + 1 = k /\ k <= m
  OBVIOUS
<1>6. k - 1 \in S
  <2> HIDE DEF S
  <2> QED BY <1>4, <1>5
<1> QED BY <1>5, <1>6

LEMMA AppendToJoin ==
  ASSUME NEW T, NEW x \in Seq(T), NEW y \in Seq(T), NEW c \in T
  PROVE  /\ x \o Append(y, c) = Append(x \o y, c)
         /\ (x \o <<c>>) \o <<>> = Append(x, c)
OBVIOUS

(* A character more in the line is a character more in what is joined. *)
LEMMA JoinedAfter ==
  ASSUME NEW v \in Values, NEW c \in Char \ {NL}
  PROVE  /\ Rows!Joined(v) \in Text
         /\ Rows!Joined(After(v, c)) = Append(Rows!Joined(v), c)
<1> DEFINE w == After(v, c)
           n == Len(v)
<1>1. /\ w \in Values /\ n \in Nat \ {0}
      /\ c = COMMA => Len(w) = n + 1 /\ w[n + 1] = <<>> /\ \A i \in 1 .. n : w[i] = v[i]
      /\ c # COMMA => /\ Len(w) = n /\ w[n] = Append(v[n], c)
                      /\ \A i \in 1 .. n - 1 : w[i] = v[i]
  <2> HIDE DEF Values
  <2> QED BY AfterIsValues
<1>2. PICK j : IsJoining(j, v) /\ Rows!Joined(v) = j[n]
  BY ValuesAreJoined
<1> HIDE DEF w, n
<1>3. PICK h : IsJoining(h, w) /\ Rows!Joined(w) = h[Len(w)]
  BY <1>1, ValuesAreJoined
<1>4. \A k \in 1 .. n : j[k] \in Text
  BY <1>2, JoiningIsText DEF n
<1>5. ASSUME NEW m \in 1 .. n, m <= Len(w), \A i \in 1 .. m : v[i] = w[i] PROVE h[m] = j[m]
  <2>1. m \in Nat /\ m <= Len(v) /\ m \in 1 .. m
    BY <1>1 DEF n
  <2> QED BY <1>1, <1>2, <1>3, <1>5, <2>1, SameValuesJoinAlike
<1>6. Rows!Joined(v) \in Text
  BY <1>1, <1>2, <1>4
<1>7. CASE c = COMMA
  <2>1. n \in 1 .. n /\ n <= Len(w) /\ \A i \in 1 .. n : v[i] = w[i]
    BY <1>1, <1>7
  <2>2. h[n] = j[n]
    BY <1>5, <2>1
  <2>3. n + 1 \in 2 .. Len(w) /\ (n + 1) - 1 = n
    BY <1>1, <1>7
  <2>4. h[n + 1] = h[n] \o <<COMMA>> \o <<>>
    BY <1>1, <1>3, <1>7, <2>3 DEF IsJoining
  <2>5. j[n] \in Seq(Char \ {NL})
    BY <1>4, <2>1 DEF Text
  <2>6. (j[n] \o <<COMMA>>) \o <<>> = Append(j[n], COMMA)
    BY <2>5, CommaIsAChar, AppendToJoin
  <2> QED BY <1>1, <1>2, <1>3, <1>6, <1>7, <2>2, <2>4, <2>6 DEF w
<1>8. CASE c # COMMA
  <2>1. Len(w) = n /\ w[n] = Append(v[n], c)
    BY <1>1, <1>8
  <2>2. v[n] \in Text
    <3>1. v \in Seq(Rows!Strings) /\ n \in 1 .. Len(v)
      BY <1>1 DEF n, Values
    <3> QED BY <3>1, ElementOfSeq, AValue
  <2>3. CASE n = 1
    <3>1. h[1] = w[1] /\ j[1] = v[1]
      BY <1>2, <1>3 DEF IsJoining
    <3> QED BY <1>2, <1>3, <1>6, <2>1, <2>3, <3>1 DEF w
  <2>4. CASE n # 1
    <3>1. /\ n - 1 \in 1 .. n /\ n - 1 <= Len(w) /\ n \in 2 .. Len(w) /\ n \in 2 .. Len(v)
          /\ \A i \in 1 .. n - 1 : v[i] = w[i]
      BY <1>1, <1>8, <2>1, <2>4 DEF n
    <3>2. h[n - 1] = j[n - 1]
      BY <1>5, <3>1
    <3>3. h[n] = (h[n - 1] \o <<COMMA>>) \o w[n]
      BY <1>3, <3>1 DEF IsJoining
    <3>4. j[n] = (j[n - 1] \o <<COMMA>>) \o v[n]
      BY <1>2, <3>1 DEF IsJoining
    <3>5. j[n - 1] \o <<COMMA>> \in Seq(Char \ {NL}) /\ v[n] \in Seq(Char \ {NL})
      <4>1. j[n - 1] \in Text
        BY <1>4, <3>1
      <4> QED BY <2>2, <4>1, CommaIsAChar DEF Text
    <3>6. (j[n - 1] \o <<COMMA>>) \o Append(v[n], c) = Append((j[n - 1] \o <<COMMA>>) \o v[n], c)
      <4> DEFINE x == j[n - 1] \o <<COMMA>>
      <4>1. x \in Seq(Char \ {NL})
        BY <3>5
      <4> HIDE DEF x
      <4>2. x \o Append(v[n], c) = Append(x \o v[n], c)
        BY <3>5, <4>1, AppendToJoin
      <4> QED BY <4>2 DEF x
    <3>7. h[n] = Append(j[n], c)
      BY <2>1, <3>2, <3>3, <3>4, <3>6
    <3> QED BY <1>2, <1>3, <1>6, <2>1, <3>7 DEF w
  <2> QED BY <2>3, <2>4
<1> QED BY <1>7, <1>8

LEMMA NoValuesYet ==
  /\ << <<>> >> \in Values
  /\ Rows!Joined(<< <<>> >>) = <<>>
<1>1. << <<>> >> \in Seq(Rows!Strings) /\ Len(<< <<>> >>) = 1 /\ << <<>> >>[1] = <<>>
  BY AValue
<1>2. << <<>> >> \in Values
  BY <1>1, EmptySeq DEF Values
<1>3. PICK j : IsJoining(j, << <<>> >>) /\ Rows!Joined(<< <<>> >>) = j[Len(<< <<>> >>)]
  BY <1>2, ValuesAreJoined
<1> QED BY <1>1, <1>2, <1>3 DEF IsJoining

(***************************************************************************)
(* ExtractValues inverts Joined: the values it makes of a line, with       *)
(* commas between them, are the line, for every line.                      *)
(***************************************************************************)
THEOREM ValuesAreTheLine ==
  ASSUME NEW s \in Text
  PROVE  /\ Rows!ExtractValues(s) \in Values
         /\ Rows!Joined(Rows!ExtractValues(s)) = s
<1>1. PICK f : IsReading(f, s) /\ Rows!ExtractValues(s) = f[Len(s)]
  BY ValuesAreRead
<1>2. Len(s) \in Nat /\ \A i \in 1 .. Len(s) : s[i] \in Char \ {NL}
  BY LenProperties, ElementOfSeq DEF Text
<1> DEFINE Read(n) == f[n] \in Values /\ Rows!Joined(f[n]) = SubSeq(s, 1, n)
           S == {n \in Nat : n <= Len(s) => Read(n)}
<1>3. 0 \in S
  <2>1. f[0] = << <<>> >>
    BY <1>1 DEF IsReading
  <2>2. SubSeq(s, 1, 0) = <<>>
    BY SubSeqEmpty
  <2> QED BY <2>1, <2>2, NoValuesYet
<1>4. ASSUME NEW n \in Nat, n \in S PROVE n + 1 \in S
  <2> SUFFICES ASSUME n + 1 <= Len(s) PROVE Read(n + 1)
    OBVIOUS
  <2>1. /\ n + 1 \in 1 .. Len(s) /\ (n + 1) - 1 = n /\ n <= Len(s)
        /\ 1 \in 1 .. Len(s) /\ n + 1 \in 1 .. Len(s)
    BY <1>2
  <2>2. Read(n)
    BY <1>4, <2>1
  <2>3. f[n + 1] = After(f[n], s[n + 1])
    BY <1>1, <2>1 DEF IsReading
  <2>4. s[n + 1] \in Char \ {NL}
    BY <1>2, <2>1
  <2>5. After(f[n], s[n + 1]) \in Values
    BY <2>2, <2>4, AfterIsValues
  <2>6. Rows!Joined(After(f[n], s[n + 1])) = Append(SubSeq(s, 1, n), s[n + 1])
    BY <2>2, <2>4, JoinedAfter
  <2>7. SubSeq(s, 1, n + 1) = Append(SubSeq(s, 1, n), s[n + 1])
    <3>1. s \in Seq(Char \ {NL})
      BY DEF Text
    <3>2. SubSeq(s, 1, n + 1) = SubSeq(s, 1, n) \o <<s[n + 1]>>
      BY <2>1, <3>1, SubSeqRecursiveSecond
    <3>3. SubSeq(s, 1, n) \in Seq(Char \ {NL})
      BY <1>2, <2>1, SubSeqProperties
    <3> QED BY <2>4, <3>2, <3>3, AppendIsConcat
  <2> QED BY <2>3, <2>5, <2>6, <2>7
<1>5. Nat \subseteq S
  <2> HIDE DEF S
  <2> QED BY <1>3, <1>4, Induction
<1>6. Read(Len(s))
  BY <1>2, <1>5
<1>7. SubSeq(s, 1, Len(s)) = s
  BY SubSeqFull DEF Text
<1> QED BY <1>1, <1>6, <1>7

-----------------------------------------------------------------------------
(* The rows of the stack. *)

LEMMA LineOfTheContent ==
  ASSUME TypeOK, NothingDropped, Stream!NextLine
  PROVE  line' \in Text
<1>1. content \in Seq(Char) /\ Len(content) \in Nat
  BY ContentsAreText DEF TypeOK
<1>2. Cursor \in Int /\ Cursor >= 0
  BY <1>1 DEF NothingDropped, TypeOK, Cursor, Collected
<1>3. PICK e \in Cursor .. Len(content) :
         Stream!LineEndsAt(e) /\ line' = SubSeq(content, Cursor + 1, e)
  BY DEF Stream!NextLine
<1>4. \A k \in Cursor + 1 .. e : content[k] \in Char \ {NL}
  <2> TAKE k \in Cursor + 1 .. e
  <2>1. k \in 1 .. Len(content)
    BY <1>1, <1>2
  <2>2. content[k] \in Char
    BY <1>1, <2>1, ElementOfSeq
  <2> QED BY <1>3, <2>2 DEF Stream!LineEndsAt
<1>5. Cursor + 1 \in Int /\ e \in Int
  BY <1>1, <1>2
<1> QED BY <1>3, <1>4, <1>5, SubSeqProperties DEF Text

ResultTyped ==
  \/ result \in {Rows!None, Rows!Null, Rows!NotWellFormatted}
  \/ result.kind = "row" /\ result.values \in Seq(Rows!Strings)

(* Besides what the line reader keeps, the rows and what they are made of. *)
RowsTyped ==
  /\ source \in {"file", "other"}
  /\ data \in Seq(Char)
  /\ bufferSize \in Sizes
  /\ line \in Text
  /\ colNames \in Seq(Rows!Strings)
  /\ ResultTyped

StackInv == TypeOK /\ NothingDropped /\ RowsTyped /\ RowIsItsLine

LEMMA StackInvIsTyped == StackInv => ReadersTypeOK
<1> SUFFICES ASSUME StackInv PROVE ReadersTypeOK
  OBVIOUS
<1>1. content \in Seq(Char) /\ Len(content) \in Nat /\ Len(buffer) \in Nat /\ Len(ret) \in Nat
  BY ContentsAreText, LenProperties DEF StackInv, TypeOK
<1>2. Cursor \in 0 .. Len(content)
  BY <1>1 DEF StackInv, NothingDropped, TypeOK, Cursor, Collected
<1>3. File!TypeOK
  BY DEF StackInv, TypeOK, RowsTyped, File!TypeOK
<1>4. Rows!TypeOK
  BY <1>2 DEF StackInv, TypeOK, RowsTyped, ResultTyped, Text, Rows!TypeOK
<1> QED BY <1>3, <1>4 DEF StackInv, RowsTyped, ReadersTypeOK

(* What a call answers with is made of the line it has just read. *)
LEMMA AnswerIsItsLine ==
  ASSUME colNames \in Seq(Rows!Strings), line' \in Text, Rows!Answer(line')
  PROVE  colNames' \in Seq(Rows!Strings) /\ ResultTyped' /\ RowIsItsLine'
<1> DEFINE values == Rows!ExtractValues(line')
<1>1. values \in Seq(Rows!Strings) /\ Rows!Joined(values) = line'
  <2>1. values \in Values /\ Rows!Joined(values) = line'
    BY ValuesAreTheLine
  <2> QED BY <2>1 DEF Values
<1>2. CASE Rows!Construct(line')
  BY <1>1, <1>2 DEF Rows!Construct, ResultTyped, RowIsItsLine, Rows!RowIsItsLine, Rows!None
<1>3. CASE Rows!GetNextData(line')
  <2>1. colNames' = colNames
    BY <1>3 DEF Rows!GetNextData
  <2>2. CASE result' \in {Rows!Null, Rows!NotWellFormatted}
    BY <2>1, <2>2 DEF ResultTyped, RowIsItsLine, Rows!RowIsItsLine, Rows!Null,
                      Rows!NotWellFormatted
  <2>3. CASE Len(values) = Len(colNames) /\ result' = Rows!Row(values)
    <3>1. result'.kind = "row" /\ result'.values = values
      BY <2>3 DEF Rows!Row
    <3> QED BY <1>1, <2>1, <2>3, <3>1 DEF ResultTyped, RowIsItsLine, Rows!RowIsItsLine
  <2> QED BY <1>3, <2>2, <2>3 DEF Rows!GetNextData
<1> QED BY <1>2, <1>3 DEF Rows!Answer

LEMMA StackInvStarts == ReadersInit => StackInv
<1> SUFFICES ASSUME ReadersInit PROVE StackInv
  OBVIOUS
<1>1. TypeOK /\ NothingDropped
  BY Starts DEF ReadersInit
<1>2. line = <<>> /\ data = <<>> /\ bufferSize = DEFAULT_SIZE /\ colNames = <<>>
  BY DEF ReadersInit, Init, File!Init, File!Source!Init
<1>3. line \in Text /\ data \in Seq(Char) /\ colNames \in Seq(Rows!Strings)
  BY <1>2, EmptySeq DEF Text
<1>4. ResultTyped /\ RowIsItsLine
  BY DEF ReadersInit, ResultTyped, RowIsItsLine, Rows!RowIsItsLine, Rows!None
<1> QED BY <1>1, <1>2, <1>3, <1>4, RoomForAChar DEF StackInv, RowsTyped, ReadersInit

LEMMA StackInvStep == StackInv /\ [ReadersNext]_readersVars => StackInv'
<1> SUFFICES ASSUME StackInv, [ReadersNext]_readersVars PROVE StackInv'
  OBVIOUS
<1>1. TypeOK /\ NothingDropped /\ RowsTyped /\ RowIsItsLine
  BY DEF StackInv
<1>2. TypeOK' /\ NothingDropped'
  <2>1. [Next]_vars
    BY StackStep
  <2> QED BY <1>1, <2>1, Typing, TakeLineReturns, RefillReturnsOrWaits, OtherStepsWait DEF Next
<1>3. ASSUME UNCHANGED <<line, colNames, result>>
      PROVE  /\ line' \in Text /\ colNames' \in Seq(Rows!Strings)
             /\ ResultTyped' /\ RowIsItsLine'
  BY <1>1, <1>3 DEF RowsTyped, ResultTyped, RowIsItsLine, Rows!RowIsItsLine
<1>4. ASSUME Stream!NextLine, Rows!Answer(line')
      PROVE  /\ line' \in Text /\ colNames' \in Seq(Rows!Strings)
             /\ ResultTyped' /\ RowIsItsLine'
  <2>1. line' \in Text
    BY <1>1, <1>4, LineOfTheContent
  <2>2. colNames \in Seq(Rows!Strings)
    BY <1>1 DEF RowsTyped
  <2> QED BY <1>4, <2>1, <2>2, AnswerIsItsLine
<1>5. /\ line' \in Text /\ colNames' \in Seq(Rows!Strings)
      /\ ResultTyped' /\ RowIsItsLine'
  <2>1. CASE Call \/ SetBufferSize \/ UNCHANGED readersVars
    BY <1>3, <2>1 DEF Call, ReadNextLine, SetBufferSize, readersVars, vars
  <2>2. CASE AnswerFromBuffer
    BY <1>1, <1>4, <2>2, TakeLineReturns DEF AnswerFromBuffer
  <2>3. CASE AskSource
    <3>1. CASE pc' = "idle"
      BY <1>1, <1>4, <2>3, <3>1, AskIsRefill, RefillReturnsOrWaits DEF AskSource
    <3>2. CASE pc' = "scan"
      BY <1>1, <1>3, <2>3, <3>2, AskIsRefill, RefillReturnsOrWaits DEF AskSource
    <3> QED BY <2>3, <3>1, <3>2 DEF AskSource
  <2> QED BY <2>1, <2>2, <2>3 DEF ReadersNext
<1>6. data' \in Seq(Char)
  <2>1. CASE AskSource
    BY <1>2, <2>1 DEF AskSource, TypeOK
  <2>2. CASE Call \/ AnswerFromBuffer \/ SetBufferSize \/ UNCHANGED readersVars
    BY <1>1, <2>2 DEF RowsTyped, Call, AnswerFromBuffer, SetBufferSize, File!SetBufferSize,
                      readersVars
  <2> QED BY <2>1, <2>2 DEF ReadersNext
<1>7. source' = source /\ bufferSize' \in Sizes
  BY <1>1 DEF RowsTyped, ReadersNext, Call, AnswerFromBuffer, AskSource, SetBufferSize,
              File!SetBufferSize, readersVars
<1> QED BY <1>1, <1>2, <1>5, <1>6, <1>7 DEF StackInv, RowsTyped

LEMMA StackInvariance == ReadersSpec => []StackInv
BY StackInvStarts, StackInvStep, PTL DEF ReadersSpec

(* The type invariant of the stack. *)
THEOREM StackTypes == ReadersSpec => []ReadersTypeOK
BY StackInvariance, StackInvIsTyped, PTL

(***************************************************************************)
(* A row is its line of the content: one value per column of the header,   *)
(* and with commas between them the line that was read, for every content, *)
(* every buffer size and however a source cuts its portions.               *)
(***************************************************************************)
THEOREM RowsAreLines == ReadersSpec => []RowIsItsLine
<1>1. StackInv => RowIsItsLine
  BY DEF StackInv
<1> QED BY <1>1, StackInvariance, PTL
=============================================================================
