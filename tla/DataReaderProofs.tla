-------------------------- MODULE DataReaderProofs --------------------------
(***************************************************************************)
(* DataReader::ReadNextLine, for every alphabet, every content and every   *)
(* way a source can cut it: nothing is dropped on the way, and the lines   *)
(* returned are those of LineStream.                                       *)
(***************************************************************************)
EXTENDS DataReader, SequenceTheorems, TLAPS

(* The empty string has no characters. *)
LEMMA NoCharacters == <<>> \in Seq(Char) /\ Len(<<>>) = 0
<1>1. <<>> \in Seq(Char)
  BY EmptySeq
<1> QED BY <1>1, EmptySeq

(* A piece of a sequence, element by element. *)
LEMMA Piece ==
  ASSUME NEW S, NEW s \in Seq(S),
         NEW a \in 1 .. Len(s) + 1, NEW b \in a - 1 .. Len(s)
  PROVE  /\ SubSeq(s, a, b) \in Seq(S)
         /\ Len(SubSeq(s, a, b)) = b - a + 1
         /\ \A k \in 1 .. b - a + 1 : SubSeq(s, a, b)[k] = s[a + k - 1]
<1>1. a \in Int /\ b \in Int /\ Len(s) \in Nat
  OBVIOUS
<1>2. \A i \in a .. b : s[i] \in S
  BY <1>1, ElementOfSeq
<1>3. IF a <= b THEN b - a + 1 >= 1 ELSE b - a + 1 = 0
  BY <1>1
<1> QED BY <1>1, <1>2, <1>3, SubSeqProperties

(* The same, named by what comes before it. *)
LEMMA PieceAfter ==
  ASSUME NEW S, NEW s \in Seq(S),
         NEW c \in 0 .. Len(s), NEW d \in c .. Len(s)
  PROVE  /\ SubSeq(s, c + 1, d) \in Seq(S)
         /\ Len(SubSeq(s, c + 1, d)) = d - c
         /\ \A k \in 1 .. d - c : SubSeq(s, c + 1, d)[k] = s[c + k]
<1>1. c \in Int /\ d \in Int /\ Len(s) \in Nat
  OBVIOUS
<1>2. c + 1 \in 1 .. Len(s) + 1 /\ d \in (c + 1) - 1 .. Len(s)
  BY <1>1
<1>3. /\ d - (c + 1) + 1 = d - c
      /\ \A k \in 1 .. d - c : (c + 1) + k - 1 = c + k
  BY <1>1
<1> QED BY <1>2, <1>3, Piece

(* What a step of the source does to a content that is text. *)
LEMMA SourceStep ==
  ASSUME TypeOK, Source!ReadNextData
  PROVE  /\ content' = content
         /\ pos' \in pos .. Len(content)
         /\ buffer' \in Seq(Char)
         /\ Len(buffer') = pos' - pos
         /\ \A k \in 1 .. Len(buffer') : buffer'[k] = content[pos + k]
         /\ buffer' = <<>> => pos = Len(content) /\ pos' = pos
<1>1. content \in Seq(Char) /\ pos \in 0 .. Len(content) /\ Len(content) \in Nat
  BY ContentsAreText DEF TypeOK
<1>2. ASSUME NEW e \in pos + 1 .. Len(content),
             buffer' = SubSeq(content, pos + 1, e), pos' = e
      PROVE  /\ pos' \in pos .. Len(content)
             /\ buffer' \in Seq(Char)
             /\ Len(buffer') = pos' - pos
             /\ \A k \in 1 .. Len(buffer') : buffer'[k] = content[pos + k]
             /\ buffer' # <<>>
  <2>1. /\ SubSeq(content, pos + 1, e) \in Seq(Char)
        /\ Len(SubSeq(content, pos + 1, e)) = e - (pos + 1) + 1
        /\ \A k \in 1 .. e - (pos + 1) + 1 :
              SubSeq(content, pos + 1, e)[k] = content[pos + 1 + k - 1]
    BY <1>1, Piece
  <2> QED BY <1>1, <1>2, <2>1
<1>3. CASE pos = Len(content) /\ buffer' = <<>> /\ pos' = pos
  BY <1>1, <1>3, EmptySeq DEF Source!ReadNextData
<1> QED BY <1>2, <1>3 DEF Source!ReadNextData

LEMMA Typing == ASSUME TypeOK, [Next]_vars PROVE TypeOK'
<1>0. content \in Seq(Char) /\ buffer \in Seq(Char) /\ ret \in Seq(Char)
  BY ContentsAreText DEF TypeOK
<1>1. CASE ReadNextLine
  BY <1>1 DEF TypeOK, ReadNextLine
<1>2. CASE TakeLine
  <2>1. PICK i \in 1 .. Len(buffer) :
           /\ ret' = ret \o SubSeq(buffer, 1, i - 1)
           /\ buffer' = SubSeq(buffer, i + 1, Len(buffer))
    BY <1>2 DEF TakeLine
  <2>2. SubSeq(buffer, 1, i - 1) \in Seq(Char) /\ buffer' \in Seq(Char)
    BY <1>0, <2>1, Piece
  <2>3. ret' \in Seq(Char)
    BY <1>0, <2>1, <2>2, ConcatProperties
  <2> QED BY <1>2, <2>2, <2>3 DEF TypeOK, TakeLine
<1>3. CASE Refill
  <2>1. content' = content /\ buffer' \in Seq(Char) /\ pos' \in 0 .. Len(content)
    BY <1>3, SourceStep DEF Refill, JoinBuffer, TypeOK
  <2>2. ret' \in Seq(Char)
    BY <1>0, <1>3, ConcatProperties DEF Refill, JoinBuffer
  <2> QED BY <1>3, <2>1, <2>2 DEF TypeOK, Refill, JoinBuffer
<1>4. CASE UNCHANGED vars
  BY <1>4 DEF TypeOK, vars
<1> QED BY <1>1, <1>2, <1>3, <1>4 DEF Next

(* The type invariant of the reader. *)
THEOREM TypeInvariant == Spec => []TypeOK
<1>1. Init => TypeOK
  BY ContentsAreText, EmptySeq DEF Init, Source!Init, TypeOK
<1>2. TypeOK /\ [Next]_vars => TypeOK'
  BY Typing
<1> QED BY <1>1, <1>2, PTL DEF Spec

-----------------------------------------------------------------------------
(***************************************************************************)
(* The heart of the reader: what a call has collected, continued with the  *)
(* characters of the buffer before its first newline, is the piece of the  *)
(* content that starts at the cursor, and it is free of newlines.          *)
(***************************************************************************)
LEMMA Gathered ==
  ASSUME TypeOK, NothingDropped, pc = "scan",
         NEW n \in 0 .. Len(buffer), \A k \in 1 .. n : buffer[k] # NL
  PROVE  LET e == Cursor + Len(ret) + n
         IN  /\ e = pos - Len(buffer) + n
             /\ Cursor \in 0 .. e /\ e \in 0 .. Len(content)
             /\ ret \o SubSeq(buffer, 1, n) = SubSeq(content, Cursor + 1, e)
             /\ Len(ret \o SubSeq(buffer, 1, n)) = Len(ret) + n
             /\ \A k \in Cursor + 1 .. e : content[k] # NL
<1> DEFINE e == Cursor + Len(ret) + n
           front == SubSeq(buffer, 1, n)
           whole == SubSeq(content, Cursor + 1, e)
<1>1. /\ content \in Seq(Char) /\ buffer \in Seq(Char) /\ ret \in Seq(Char)
      /\ Len(content) \in Nat /\ Len(buffer) \in Nat /\ Len(ret) \in Nat
      /\ pos \in 0 .. Len(content)
  BY ContentsAreText DEF TypeOK
<1>2. Cursor = pos - Len(buffer) - Len(ret) /\ Cursor >= 0
  BY DEF Cursor, Collected, NothingDropped
<1>3. /\ e = pos - Len(buffer) + n
      /\ Cursor \in 0 .. e /\ e \in 0 .. Len(content)
  BY <1>1, <1>2
<1>4. /\ front \in Seq(Char)
      /\ Len(front) = n
      /\ \A k \in 1 .. n : front[k] = buffer[k]
  <2>1. /\ Len(front) = n - 1 + 1
        /\ \A k \in 1 .. n - 1 + 1 : front[k] = buffer[1 + k - 1]
    BY <1>1, Piece
  <2>2. front \in Seq(Char)
    BY <1>1, Piece
  <2> QED BY <2>1, <2>2, <1>1
<1>5. /\ whole \in Seq(Char)
      /\ Len(whole) = Len(ret) + n
      /\ \A k \in 1 .. Len(ret) + n : whole[k] = content[Cursor + k]
  <2>1. Cursor \in 0 .. Len(content) /\ e \in Cursor .. Len(content)
    BY <1>1, <1>2, <1>3
  <2>2. e - Cursor = Len(ret) + n
    BY <1>1, <1>2
  <2> HIDE DEF e
  <2>3. /\ SubSeq(content, Cursor + 1, e) \in Seq(Char)
        /\ Len(SubSeq(content, Cursor + 1, e)) = e - Cursor
        /\ \A k \in 1 .. e - Cursor :
              SubSeq(content, Cursor + 1, e)[k] = content[Cursor + k]
    BY <1>1, <2>1, PieceAfter
  <2> QED BY <2>2, <2>3
<1>6. /\ ret \o front \in Seq(Char)
      /\ Len(ret \o front) = Len(ret) + n
      /\ \A k \in 1 .. Len(ret) + n :
            (ret \o front)[k] = IF k <= Len(ret) THEN ret[k] ELSE front[k - Len(ret)]
  BY <1>1, <1>4, ConcatProperties
<1>7. ASSUME NEW k \in 1 .. Len(ret) + n
      PROVE  (ret \o front)[k] = content[Cursor + k] /\ content[Cursor + k] # NL
  <2>1. CASE k <= Len(ret)
    BY <1>1, <1>6, <2>1 DEF NothingDropped
  <2>2. CASE k > Len(ret)
    <3>1. k - Len(ret) \in 1 .. n /\ k - Len(ret) \in 1 .. Len(buffer)
      BY <1>1, <2>2
    <3>2. (ret \o front)[k] = buffer[k - Len(ret)]
      BY <1>1, <1>4, <1>6, <2>2, <3>1
    <3>3. pos - Len(buffer) + (k - Len(ret)) = Cursor + k
      BY <1>1, <1>2
    <3> QED BY <3>1, <3>2, <3>3 DEF NothingDropped
  <2> QED BY <1>1, <2>1, <2>2
<1>8. ret \o front = whole
  <2>1. Len(ret \o front) = Len(whole)
    BY <1>5, <1>6
  <2>2. \A k \in 1 .. Len(ret \o front) : (ret \o front)[k] = whole[k]
    BY <1>5, <1>6, <1>7
  <2>3. ret \o front \in Seq(Char) /\ whole \in Seq(Char)
    BY <1>5, <1>6
  <2> HIDE DEF front, whole
  <2> QED BY <2>1, <2>2, <2>3, SeqEqual
<1>9. \A k \in Cursor + 1 .. e : content[k] # NL
  <2> TAKE k \in Cursor + 1 .. e
  <2>1. k - Cursor \in 1 .. Len(ret) + n /\ Cursor + (k - Cursor) = k
    BY <1>1, <1>2
  <2> QED BY <1>7, <2>1
<1> QED BY <1>3, <1>6, <1>8, <1>9

(* A call that meets a newline returns the next line of the stream. *)
LEMMA TakeLineReturns ==
  ASSUME TypeOK, NothingDropped, TakeLine
  PROVE  /\ NothingDropped'
         /\ Stream!NextLine
<1>1. /\ content \in Seq(Char) /\ buffer \in Seq(Char) /\ ret \in Seq(Char)
      /\ Len(content) \in Nat /\ Len(buffer) \in Nat /\ Len(ret) \in Nat
      /\ pos \in 0 .. Len(content)
  BY ContentsAreText DEF TypeOK
<1>2. /\ pc = "scan" /\ pc' = "idle" /\ line' = ret'
      /\ content' = content /\ pos' = pos
  BY DEF TakeLine
<1>3. PICK i \in 1 .. Len(buffer) :
         /\ buffer[i] = NL /\ \A k \in 1 .. i - 1 : buffer[k] # NL
         /\ ret' = ret \o SubSeq(buffer, 1, i - 1)
         /\ buffer' = SubSeq(buffer, i + 1, Len(buffer))
  BY DEF TakeLine, FirstNewline
<1>4. /\ Len(buffer') = Len(buffer) - i
      /\ \A k \in 1 .. Len(buffer) - i : buffer'[k] = buffer[i + k]
  <2>1. i \in 0 .. Len(buffer) /\ Len(buffer) \in i .. Len(buffer)
    BY <1>1
  <2> QED BY <1>1, <1>3, <2>1, PieceAfter
<1>5. i - 1 \in 0 .. Len(buffer)
  BY <1>1
<1> DEFINE e == Cursor + Len(ret) + (i - 1)
<1>6. /\ e = pos - Len(buffer) + (i - 1)
      /\ Cursor \in 0 .. e /\ e \in 0 .. Len(content)
      /\ ret' = SubSeq(content, Cursor + 1, e)
      /\ \A k \in Cursor + 1 .. e : content[k] # NL
  BY <1>2, <1>3, <1>5, Gathered
<1>7. Cursor' = pos - Len(buffer')
  <2>1. Cursor' = pos - Len(buffer') - 0
    BY <1>2 DEF Cursor, Collected
  <2> QED BY <1>1, <1>4, <2>1
<1>8. Cursor' = e + 1 /\ e + 1 \in 1 .. Len(content)
  BY <1>1, <1>4, <1>6, <1>7
<1>9. NothingDropped'
  <2>1. Cursor' >= 0
    BY <1>6, <1>8
  <2>2. ASSUME NEW k \in 1 .. Len(buffer')
        PROVE  buffer'[k] = content[pos - Len(buffer') + k]
    <3>1. /\ i + k \in 1 .. Len(buffer) /\ k \in 1 .. Len(buffer) - i
          /\ pos - Len(buffer) + (i + k) = pos - Len(buffer') + k
      BY <1>1, <1>4
    <3> QED BY <1>4, <3>1 DEF NothingDropped
  <2> QED BY <1>2, <2>1, <2>2 DEF NothingDropped
<1>10. content[e + 1] = NL
  <2>1. buffer[i] = content[pos - Len(buffer) + i]
    BY DEF NothingDropped
  <2>2. pos - Len(buffer) + i = e + 1
    BY <1>1, <1>6
  <2> QED BY <1>3, <2>1, <2>2
<1>11. Stream!NextLine
  <2>1. e \in Cursor .. Len(content) /\ e < Len(content)
    BY <1>1, <1>6, <1>8
  <2>2. Stream!LineEndsAt(e)
    BY <1>6, <1>10 DEF Stream!LineEndsAt
  <2> QED BY <1>2, <1>6, <1>8, <2>1, <2>2 DEF Stream!NextLine
<1> QED BY <1>9, <1>11

(* A call that comes to the end of the source returns the last line, and a *)
(* portion that is not empty leaves the stream where it is.                *)
LEMMA RefillReturnsOrWaits ==
  ASSUME TypeOK, NothingDropped, Refill
  PROVE  /\ NothingDropped'
         /\ IF pc' = "idle" THEN Stream!NextLine ELSE UNCHANGED <<content, Cursor, line>>
<1>1. /\ content \in Seq(Char) /\ buffer \in Seq(Char) /\ ret \in Seq(Char)
      /\ Len(content) \in Nat /\ Len(buffer) \in Nat /\ Len(ret) \in Nat
      /\ pos \in 0 .. Len(content)
  BY ContentsAreText DEF TypeOK
<1>2. /\ pc = "scan" /\ ret' = ret \o buffer
      /\ \A k \in 1 .. Len(buffer) : buffer[k] # NL
  BY DEF Refill, JoinBuffer, HasNewline
<1>3. /\ content' = content
      /\ pos' \in pos .. Len(content)
      /\ buffer' \in Seq(Char)
      /\ Len(buffer') = pos' - pos
      /\ \A k \in 1 .. Len(buffer') : buffer'[k] = content[pos + k]
      /\ buffer' = <<>> => pos = Len(content) /\ pos' = pos
  BY SourceStep DEF Refill, JoinBuffer
<1>4. SubSeq(buffer, 1, Len(buffer)) = buffer
  BY <1>1, SubSeqFull
<1> DEFINE e == Cursor + Len(ret) + Len(buffer)
<1>5. /\ e = pos /\ Cursor \in 0 .. e /\ e \in 0 .. Len(content)
      /\ ret' = SubSeq(content, Cursor + 1, e)
      /\ Len(ret') = Len(ret) + Len(buffer)
      /\ \A k \in Cursor + 1 .. e : content[k] # NL
  <2>1. Len(buffer) \in 0 .. Len(buffer)
    BY <1>1
  <2> HIDE DEF e
  <2>2. LET f == Cursor + Len(ret) + Len(buffer)
        IN  /\ f = pos - Len(buffer) + Len(buffer)
            /\ Cursor \in 0 .. f /\ f \in 0 .. Len(content)
            /\ ret \o buffer = SubSeq(content, Cursor + 1, f)
            /\ Len(ret \o buffer) = Len(ret) + Len(buffer)
            /\ \A k \in Cursor + 1 .. f : content[k] # NL
    BY <1>2, <1>4, <2>1, Gathered
  <2> QED BY <1>1, <1>2, <2>2 DEF e
<1>6. CASE buffer' = <<>>
  <2>1. pc' = "idle" /\ line' = ret'
    BY <1>6 DEF Refill, JoinBuffer
  <2>2. Len(buffer') = 0 /\ pos' = pos /\ pos = Len(content)
    <3>1. Len(buffer') = 0
      BY <1>6, NoCharacters
    <3> QED BY <1>3, <1>6, <3>1
  <2>3. Cursor' = pos
    BY <1>1, <2>1, <2>2 DEF Cursor, Collected
  <2>4. NothingDropped'
    BY <1>1, <2>1, <2>2, <2>3 DEF NothingDropped
  <2>5. Stream!NextLine
    <3>1. e \in Cursor .. Len(content) /\ ~ (e < Len(content)) /\ e = pos
      BY <1>1, <1>5, <2>2
    <3>2. Stream!LineEndsAt(e)
      BY <1>5, <3>1 DEF Stream!LineEndsAt
    <3> QED BY <1>3, <1>5, <2>1, <2>3, <3>1, <3>2 DEF Stream!NextLine
  <2> QED BY <2>1, <2>4, <2>5
<1>7. CASE buffer' # <<>>
  <2>1. pc' = "scan" /\ line' = line
    BY <1>2, <1>7 DEF Refill, JoinBuffer
  <2>2. Cursor' = pos' - Len(buffer') - Len(ret') /\ Cursor = pos - Len(buffer) - Len(ret)
    BY <1>2, <2>1 DEF Cursor, Collected
  <2>3. Cursor' = Cursor /\ pos' - Len(buffer') = pos
    <3>1. pos' \in Int /\ pos \in Int /\ Len(ret') = Len(ret) + Len(buffer)
      BY <1>1, <1>3, <1>5
    <3>2. ASSUME NEW p \in Int, NEW q \in Int PROVE q - (q - p) = p
      OBVIOUS
    <3>3. pos - Len(ret') = pos - Len(buffer) - Len(ret)
      BY <1>1, <3>1
    <3>4. pos' - Len(buffer') = pos
      BY <1>3, <3>1, <3>2
    <3> QED BY <2>2, <3>3, <3>4
  <2>4. \A k \in 1 .. Len(ret') : ret'[k] = content[Cursor + k] /\ ret'[k] # NL
    <3>1. Cursor \in 0 .. Len(content) /\ e \in Cursor .. Len(content) /\ e - Cursor = Len(ret')
      BY <1>1, <1>5
    <3> HIDE DEF e
    <3>2. \A k \in 1 .. e - Cursor : ret'[k] = content[Cursor + k]
      BY <1>1, <1>5, <3>1, PieceAfter
    <3>3. \A k \in 1 .. e - Cursor : Cursor + k \in Cursor + 1 .. e
      BY <3>1, <1>1
    <3> QED BY <1>5, <3>1, <3>2, <3>3
  <2>5. NothingDropped'
    <3>1. Cursor' >= 0
      BY <1>5, <2>3
    <3>2. \A k \in 1 .. Len(buffer') : buffer'[k] = content'[pos' - Len(buffer') + k]
      BY <1>3, <2>3
    <3>3. \A k \in 1 .. Len(ret') : ret'[k] = content'[Cursor' + k] /\ ret'[k] # NL
      BY <1>3, <2>3, <2>4
    <3> QED BY <3>1, <3>2, <3>3 DEF NothingDropped
  <2> QED BY <1>3, <2>1, <2>3, <2>5
<1> QED BY <1>6, <1>7

(* The start of a call, and a step that changes nothing. *)
LEMMA OtherStepsWait ==
  ASSUME TypeOK, NothingDropped, ReadNextLine \/ UNCHANGED vars
  PROVE  NothingDropped' /\ UNCHANGED <<content, Cursor, line>>
<1>1. /\ content' = content /\ pos' = pos /\ buffer' = buffer /\ line' = line
  BY DEF ReadNextLine, vars
<1>2. CASE ReadNextLine
  <2>1. pc = "idle" /\ pc' = "scan" /\ ret' = <<>> /\ Len(ret') = 0
    BY <1>2 DEF ReadNextLine
  <2>2. Len(buffer) \in Nat /\ pos \in Int
    BY DEF TypeOK
  <2>3. Cursor' = Cursor
    BY <1>1, <2>1, <2>2 DEF Cursor, Collected
  <2> QED BY <1>1, <2>1, <2>3 DEF NothingDropped
<1>3. CASE UNCHANGED vars
  BY <1>3 DEF vars, NothingDropped, Cursor, Collected
<1> QED BY <1>2, <1>3

(* What the invariants need of the initial state. *)
LEMMA Starts == ASSUME Init PROVE TypeOK /\ NothingDropped /\ Stream!Init
<1>1. TypeOK
  BY ContentsAreText, EmptySeq DEF Init, Source!Init, TypeOK
<1>2. Cursor = 0
  <2>1. pos = 0 /\ Len(buffer) = 0
    BY NoCharacters DEF Init, Source!Init
  <2>2. Collected = 0
    BY DEF Init, Collected
  <2> QED BY <2>1, <2>2 DEF Cursor
<1> QED BY <1>1, <1>2 DEF Init, Source!Init, NothingDropped, Stream!Init

(***************************************************************************)
(* Nothing the source handed out is dropped, whatever the source cuts and  *)
(* wherever: NothingDropped is inductive on top of the types.              *)
(***************************************************************************)
THEOREM NothingIsDropped == Spec => []NothingDropped
<1>1. Init => NothingDropped
  BY Starts
<1>2. TypeOK /\ NothingDropped /\ [Next]_vars => NothingDropped'
  BY TakeLineReturns, RefillReturnsOrWaits, OtherStepsWait DEF Next
<1> QED BY <1>1, <1>2, TypeInvariant, PTL DEF Spec

(***************************************************************************)
(* DataReader implements LineStream: the lines ReadNextLine returns are    *)
(* the lines of the content, one after the other.                          *)
(***************************************************************************)
THEOREM LinesAreRead == Spec => ReadsLines
<1>1. Init => Stream!Init
  BY Starts
<1>2. TypeOK /\ NothingDropped /\ [Next]_vars
        => [Stream!NextLine]_(Stream!streamVars)
  BY TakeLineReturns, RefillReturnsOrWaits, OtherStepsWait
     DEF Next, Stream!streamVars
<1> QED BY <1>1, <1>2, TypeInvariant, NothingIsDropped, PTL
        DEF Spec, ReadsLines, Stream!Spec
=============================================================================
