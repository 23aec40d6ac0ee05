---------------------- MODULE ThreadCommandQueueProofs ----------------------
(***************************************************************************)
(* The command queue, for any number of threads, any commands that pass    *)
(* the assertion of CircularBuffer::Write, and any size of the buffer: no  *)
(* command is overwritten, nobody is left asleep on what is there for it,  *)
(* and nothing is left behind when the consumer ends.                      *)
(***************************************************************************)
EXTENDS ThreadCommandQueue, SequenceTheorems, TLAPS

-----------------------------------------------------------------------------
(* Types. *)

LEMMA RoundedUp ==
  ASSUME NEW n \in Nat \ {0}
  PROVE  roundUpSize(n) \in Nat /\ roundUpSize(n) > 0
<1>1. (n + 15) \div 16 \in Nat /\ (n + 15) \div 16 >= 1
  BY SMT
<1> QED BY <1>1 DEF roundUpSize, AlignSize

(* A command takes some room, but less than the whole buffer. *)
LEMMA CommandSize ==
  ASSUME NEW c \in Commands
  PROVE  /\ roundUpSize(c.Size) \in Nat
         /\ roundUpSize(c.Size) > 0
         /\ c.from \in Producers /\ c.WaitFlag \in BOOLEAN /\ c.ExitFlag \in BOOLEAN
<1>1. c.Size \in Nat \ {0}
  BY SizesArePositive DEF Commands
<1> QED BY <1>1, RoundedUp DEF Commands

LEMMA CommandIsShort ==
  ASSUME NEW c \in Commands
  PROVE  roundUpSize(c.Size) < Size
<1>1. 2 * roundUpSize(c.Size) < Size
  BY CommandsAreShort DEF Commands
<1> QED BY <1>1, CommandSize, SizeIsPositive

(* A thread inside PushCommand has a command, and nobody else has; the    *)
(* consumer has one from popping it to telling its caller.                *)
Holding ==
  /\ \A t \in Producers :
       /\ pc[t] \in {"push", "awaitRoom"} <=> command[t] # NoCommand
       /\ command[t] # NoCommand => command[t].from = t
  /\ consumer \in {"execute", "notify"} <=> popped # NoCommand

Typed == TypeOK /\ Holding

LEMMA TypedInit == Init => Typed
<1> SUFFICES ASSUME Init PROVE Typed
  OBVIOUS
<1>1. /\ CommandBuffer \in Offsets
      /\ pipe \in 0 .. PipeLimit
  BY SizeIsPositive, PipeIsReadInPieces DEF Init, EmptyBuffer, Offsets
<1>2. /\ queueAvailableEvent \in [Producers -> E!Events]
      /\ completeEvent \in [Producers -> E!Events]
  BY DEF Init, E!NewEvent, E!Events
<1>3. stored \in Seq([at : 0 .. Size, command : Commands]) /\ BlockedProducers \in Seq(Producers)
  BY EmptySeq DEF Init
<1>4. Holding
  BY DEF Init, Holding
<1> QED BY <1>1, <1>2, <1>3, <1>4 DEF Init, Typed, TypeOK

(* The offsets after a write and after a read, field by field. *)
LEMMA WrittenOffsets ==
  ASSUME NEW b \in Offsets, NEW n \in Nat, HasRoom(b, n)
  PROVE  /\ Written(b, n) \in Offsets /\ Place(b, n) \in 0 .. Size
         /\ Written(b, n).Tail = b.Tail
         /\ \/ /\ FitsAtHead(b, n)
               /\ Place(b, n) = b.Head
               /\ Written(b, n).Head = b.Head + n
               /\ Written(b, n).End = b.End
            \/ /\ FitsAtStart(b, n)
               /\ Place(b, n) = 0
               /\ Written(b, n).Head = n
               /\ Written(b, n).End = b.Head
<1>1. b.Tail \in 0 .. Size /\ b.Head \in 0 .. Size /\ b.End \in 0 .. Size
  BY DEF Offsets
<1>2. CASE FitsAtHead(b, n)
  <2>1. b.Head + n \in 0 .. Size
    BY <1>1, <1>2, SizeIsPositive DEF FitsAtHead
  <2>2. Written(b, n) = [Tail |-> b.Tail, Head |-> b.Head + n, End |-> b.End]
    BY <1>2 DEF Written, Offsets
  <2> QED BY <1>1, <1>2, <2>1, <2>2 DEF Offsets, Place
<1>3. CASE ~ FitsAtHead(b, n)
  <2>1. FitsAtStart(b, n) /\ n \in 0 .. Size
    BY <1>1, <1>3, SizeIsPositive DEF HasRoom, FitsAtStart
  <2>2. Written(b, n) = [Tail |-> b.Tail, Head |-> n, End |-> b.Head]
    BY <1>3 DEF Written, Offsets
  <2> QED BY <1>1, <1>3, <2>1, <2>2, SizeIsPositive DEF Offsets, Place
<1> QED BY <1>2, <1>3

LEMMA ConsumedOffsets ==
  ASSUME NEW b \in Offsets, NEW n \in Nat, b.Tail + n <= Size
  PROVE  /\ Consumed(b, n) \in Offsets
         /\ Consumed(b, n) =
              IF b.Tail + n = b.End THEN [Tail |-> 0, Head |-> b.Head, End |-> 0]
              ELSE IF b.Tail + n = b.Head THEN [Tail |-> 0, Head |-> 0, End |-> b.End]
              ELSE [Tail |-> b.Tail + n, Head |-> b.Head, End |-> b.End]
<1>1. /\ b.Tail \in 0 .. Size /\ b.Head \in 0 .. Size /\ b.End \in 0 .. Size
      /\ b = [Tail |-> b.Tail, Head |-> b.Head, End |-> b.End]
  BY DEF Offsets
<1>2. b.Tail + n \in 0 .. Size /\ 0 \in 0 .. Size
  BY <1>1, SizeIsPositive
<1> HIDE DEF Offsets
<1>3. CASE b.Tail + n = b.End
  <2>1. Consumed(b, n) = [Tail |-> 0, Head |-> b.Head, End |-> 0]
    BY <1>1, <1>3 DEF Consumed
  <2> QED BY <1>1, <1>2, <1>3, <2>1 DEF Offsets
<1>4. CASE b.Tail + n # b.End /\ b.Tail + n = b.Head
  <2>1. Consumed(b, n) = [Tail |-> 0, Head |-> 0, End |-> b.End]
    BY <1>1, <1>4 DEF Consumed
  <2> QED BY <1>1, <1>2, <1>4, <2>1 DEF Offsets
<1>5. CASE b.Tail + n # b.End /\ b.Tail + n # b.Head
  <2>1. Consumed(b, n) = [Tail |-> b.Tail + n, Head |-> b.Head, End |-> b.End]
    BY <1>1, <1>5 DEF Consumed
  <2> QED BY <1>1, <1>2, <1>5, <2>1 DEF Offsets
<1> QED BY <1>3, <1>4, <1>5

-----------------------------------------------------------------------------
(* The chunks in the buffer. *)

Chunks == [at : 0 .. Size, command : Commands]

LEMMA ChunkSize ==
  ASSUME NEW c \in Chunks
  PROVE  /\ c.at \in Nat /\ c.command \in Commands
         /\ EndOf(c) \in Nat /\ EndOf(c) = c.at + roundUpSize(c.command.Size)
         /\ c.at < EndOf(c)
<1>1. c.at \in Nat /\ c.command \in Commands
  BY SizeIsPositive DEF Chunks
<1> QED BY <1>1, CommandSize DEF EndOf

(* A chunk behind Tail, or one that had to start over. *)
Upper(c, b) == b.Tail <= c.at /\ EndOf(c) <= b.End
Lower(c, b) == EndOf(c) <= b.Head

(***************************************************************************)
(* The shape of the buffer: chunks follow one another from Tail to Head,   *)
(* or from Tail to End and then from 0 to a Head that stays below Tail.    *)
(***************************************************************************)
Linked(s, b) ==
  /\ s = <<>> => b.Tail = 0 /\ b.Head = 0 /\ b.End = 0
  /\ s # <<>> => s[1].at = b.Tail /\ EndOf(s[Len(s)]) = b.Head /\ b.Head # b.Tail
  /\ \A i \in 1 .. Len(s) - 1 :
       \/ s[i + 1].at = EndOf(s[i])
       \/ s[i + 1].at = 0 /\ EndOf(s[i]) = b.End

Straight(s, b) ==
  /\ b.End = 0 /\ b.Tail <= b.Head
  /\ \A i \in 1 .. Len(s) : b.Tail <= s[i].at /\ EndOf(s[i]) <= b.Head
  /\ \A i, j \in 1 .. Len(s) : i < j => EndOf(s[i]) <= s[j].at

Folded(s, b) ==
  /\ 0 < b.Head /\ b.Head < b.Tail /\ b.Tail < b.End
  /\ \A i \in 1 .. Len(s) : Upper(s[i], b) \/ Lower(s[i], b)
  /\ \A i, j \in 1 .. Len(s) :
       i < j /\ (Upper(s[i], b) <=> Upper(s[j], b)) => EndOf(s[i]) <= s[j].at

Shaped(s, b) == Linked(s, b) /\ (Straight(s, b) \/ Folded(s, b))

LEMMA ShapedApart ==
  ASSUME NEW s \in Seq(Chunks), NEW b \in Offsets, Shaped(s, b)
  PROVE  /\ IsEmpty(b) <=> s = <<>>
         /\ \A i \in 1 .. Len(s) : EndOf(s[i]) <= Size
         /\ \A i, j \in 1 .. Len(s) :
              i # j => EndOf(s[i]) <= s[j].at \/ EndOf(s[j]) <= s[i].at
<1>1. /\ b.Tail \in 0 .. Size /\ b.Head \in 0 .. Size /\ b.End \in 0 .. Size
      /\ \A i \in 1 .. Len(s) : s[i].at \in Nat /\ EndOf(s[i]) \in Nat
      /\ Size \in Nat
  BY ChunkSize, ElementOfSeq, SizeIsPositive DEF Offsets
<1>2. IsEmpty(b) <=> s = <<>>
  BY DEF Shaped, Linked, IsEmpty
<1>3. CASE Straight(s, b)
  BY <1>1, <1>2, <1>3 DEF Straight
<1>4. CASE Folded(s, b)
  <2>1. \A i \in 1 .. Len(s) : EndOf(s[i]) <= Size
    BY <1>1, <1>4 DEF Folded, Upper, Lower
  <2>2. ASSUME NEW i \in 1 .. Len(s), NEW j \in 1 .. Len(s), i < j
        PROVE  EndOf(s[i]) <= s[j].at \/ EndOf(s[j]) <= s[i].at
    <3>1. CASE Upper(s[i], b) <=> Upper(s[j], b)
      BY <1>4, <2>2, <3>1 DEF Folded
    <3>2. CASE ~ (Upper(s[i], b) <=> Upper(s[j], b))
      BY <1>1, <1>4, <3>2 DEF Folded, Upper, Lower
    <3> QED BY <3>1, <3>2
  <2> QED BY <1>2, <2>1, <2>2
<1> QED BY <1>3, <1>4 DEF Shaped

(* Enqueue keeps the shape. *)
LEMMA ShapedWrite ==
  ASSUME NEW s \in Seq(Chunks), NEW b \in Offsets, Shaped(s, b),
         NEW c \in Chunks, HasRoom(b, roundUpSize(c.command.Size)),
         c.at = Place(b, roundUpSize(c.command.Size))
  PROVE  Shaped(Append(s, c), Written(b, roundUpSize(c.command.Size)))
<1> DEFINE n == roundUpSize(c.command.Size)
           d == Written(b, n)
           L == Len(s)
           t == Append(s, c)
<1>1. /\ b.Tail \in 0 .. Size /\ b.Head \in 0 .. Size /\ b.End \in 0 .. Size
      /\ \A i \in 1 .. L : s[i].at \in Nat /\ EndOf(s[i]) \in Nat /\ s[i].at < EndOf(s[i])
      /\ Size \in Nat /\ L \in Nat
  BY ChunkSize, ElementOfSeq, SizeIsPositive DEF Offsets
<1>2. n \in Nat /\ n > 0 /\ EndOf(c) = c.at + n /\ c.at \in Nat /\ EndOf(c) \in Nat
  BY ChunkSize, CommandSize
<1>3. /\ d.Tail = b.Tail
      /\ \/ FitsAtHead(b, n) /\ c.at = b.Head /\ d.Head = b.Head + n /\ d.End = b.End
         \/ FitsAtStart(b, n) /\ c.at = 0 /\ d.Head = n /\ d.End = b.Head
      /\ d \in Offsets
  BY <1>2, WrittenOffsets
<1>4. /\ Len(t) = L + 1 /\ t # <<>>
      /\ t[L + 1].at = c.at /\ EndOf(t[L + 1]) = EndOf(c)
      /\ \A i \in 1 .. L : t[i].at = s[i].at /\ EndOf(t[i]) = EndOf(s[i])
  <2>1. Len(t) = L + 1 /\ t[L + 1] = c /\ \A i \in 1 .. L : t[i] = s[i]
    BY AppendProperties
  <2> QED BY <1>1, <2>1, EmptySeq
<1>5. s = <<>> <=> L = 0
  BY EmptySeq
<1> HIDE DEF n, d, t
<1>6. ASSUME d.Head # d.Tail, d.Head = EndOf(c), L = 0 => c.at = b.Tail,
             L # 0 => c.at = b.Head \/ (c.at = 0 /\ d.End = b.Head),
             b.End = d.End \/ b.End = 0
      PROVE  Linked(t, d)
  <2>1. t[1].at = d.Tail
    BY <1>1, <1>3, <1>4, <1>5, <1>6 DEF Linked, Shaped
  <2>2. ASSUME NEW i \in 1 .. L
        PROVE  t[i + 1].at = EndOf(t[i]) \/ (t[i + 1].at = 0 /\ EndOf(t[i]) = d.End)
    <3>1. CASE i = L
      <4>1. EndOf(s[L]) = b.Head
        BY <1>1, <1>5, <3>1 DEF Linked, Shaped
      <4> QED BY <1>1, <1>4, <1>6, <3>1, <4>1
    <3>2. CASE i # L
      <4>1. i \in 1 .. L - 1 /\ i + 1 \in 1 .. L
        BY <1>1, <3>2
      <4>2. s[i + 1].at = EndOf(s[i]) \/ (s[i + 1].at = 0 /\ EndOf(s[i]) = b.End)
        BY <4>1 DEF Linked, Shaped
      <4>3. EndOf(s[i]) > 0
        BY <1>1
      <4> QED BY <1>1, <1>4, <1>6, <4>1, <4>2, <4>3
    <3> QED BY <3>1, <3>2
  <2> QED BY <1>1, <1>4, <1>6, <2>1, <2>2 DEF Linked
<1>7. CASE FitsAtHead(b, n) /\ Straight(s, b)
  <2>1. c.at = b.Head /\ d.Head = b.Head + n /\ d.End = b.End
    BY <1>1, <1>2, <1>3, <1>7 DEF FitsAtHead, FitsAtStart
  <2>2. /\ b.End = 0 /\ b.Tail <= b.Head
        /\ \A i \in 1 .. L : b.Tail <= s[i].at /\ EndOf(s[i]) <= b.Head
        /\ \A i, j \in 1 .. L : i < j => EndOf(s[i]) <= s[j].at
    BY <1>7 DEF Straight
  <2>3. \A i \in 1 .. L + 1 : d.Tail <= t[i].at /\ EndOf(t[i]) <= d.Head
    BY <1>1, <1>2, <1>3, <1>4, <2>1, <2>2
  <2>4. ASSUME NEW i \in 1 .. L + 1, NEW j \in 1 .. L + 1, i < j
        PROVE  EndOf(t[i]) <= t[j].at
    <3>1. i \in 1 .. L
      BY <1>1, <2>4
    <3>2. CASE j = L + 1
      BY <1>4, <2>1, <2>2, <3>1, <3>2
    <3>3. CASE j # L + 1
      <4>1. j \in 1 .. L
        BY <1>1, <3>3
      <4> QED BY <1>4, <2>2, <2>4, <3>1, <4>1
    <3> QED BY <3>2, <3>3
  <2>5. Straight(t, d)
    BY <1>1, <1>2, <1>3, <1>4, <2>1, <2>2, <2>3, <2>4 DEF Straight
  <2>6. L = 0 => c.at = b.Tail
    BY <1>5, <2>1 DEF Shaped, Linked
  <2>7. Linked(t, d)
    BY <1>1, <1>2, <1>3, <1>6, <2>1, <2>2, <2>6
  <2> QED BY <2>5, <2>7 DEF Shaped, t, d, n
<1>8. CASE FitsAtStart(b, n) /\ Straight(s, b)
  <2>1. /\ c.at = 0 /\ d.Head = n /\ d.End = b.Head
        /\ 0 < d.Head /\ d.Head < d.Tail /\ L # 0 /\ b.End = 0
    BY <1>1, <1>2, <1>3, <1>5, <1>8 DEF FitsAtHead, FitsAtStart, Shaped, Linked, Straight
  <2>2. d.Tail < d.End
    BY <1>1, <1>3, <1>5, <1>8, <2>1 DEF Shaped, Linked, Straight
  <2>3. \A i \in 1 .. L : Upper(t[i], d)
    BY <1>1, <1>3, <1>4, <1>8, <2>1 DEF Straight, Upper
  <2>4. Lower(t[L + 1], d) /\ ~ Upper(t[L + 1], d)
    BY <1>1, <1>2, <1>3, <1>4, <2>1 DEF Upper, Lower
  <2>5. ASSUME NEW i \in 1 .. L + 1, NEW j \in 1 .. L + 1, i < j,
               Upper(t[i], d) <=> Upper(t[j], d)
        PROVE  EndOf(t[i]) <= t[j].at
    <3>1. i \in 1 .. L /\ j \in 1 .. L
      BY <1>1, <2>3, <2>4, <2>5
    <3> QED BY <1>4, <1>8, <2>5, <3>1 DEF Straight
  <2>6. Folded(t, d)
    BY <1>1, <1>4, <2>1, <2>2, <2>3, <2>4, <2>5 DEF Folded
  <2>7. Linked(t, d)
    BY <1>1, <1>2, <1>3, <1>6, <2>1
  <2> QED BY <2>6, <2>7 DEF Shaped, t, d, n
<1>9. CASE Folded(s, b)
  <2>1. /\ c.at = b.Head /\ d.Head = b.Head + n /\ d.End = b.End /\ d.Head < b.Tail
        /\ L # 0
    BY <1>1, <1>2, <1>3, <1>5, <1>9 DEF FitsAtHead, FitsAtStart, Folded, Shaped, Linked
  <2>2. \A i \in 1 .. L : /\ Upper(t[i], d) <=> Upper(s[i], b)
                          /\ Lower(s[i], b) => Lower(t[i], d)
    BY <1>1, <1>2, <1>3, <1>4, <2>1 DEF Upper, Lower
  <2>3. Lower(t[L + 1], d) /\ ~ Upper(t[L + 1], d)
    BY <1>1, <1>2, <1>3, <1>4, <1>9, <2>1 DEF Upper, Lower, Folded
  <2>4. \A i \in 1 .. L + 1 : Upper(t[i], d) \/ Lower(t[i], d)
    <3>1. \A i \in 1 .. L : Upper(t[i], d) \/ Lower(t[i], d)
      BY <1>9, <2>2 DEF Folded
    <3>2. \A i \in 1 .. L + 1 : i = L + 1 \/ i \in 1 .. L
      BY <1>1
    <3> QED BY <2>3, <3>1, <3>2
  <2>5. ASSUME NEW i \in 1 .. L + 1, NEW j \in 1 .. L + 1, i < j,
               Upper(t[i], d) <=> Upper(t[j], d)
        PROVE  EndOf(t[i]) <= t[j].at
    <3>1. i \in 1 .. L
      BY <1>1, <2>5
    <3>2. CASE j = L + 1
      <4>1. Lower(s[i], b)
        BY <1>9, <2>2, <2>3, <2>5, <3>1, <3>2 DEF Folded
      <4> QED BY <1>4, <2>1, <3>1, <3>2, <4>1 DEF Lower
    <3>3. CASE j # L + 1
      <4>1. j \in 1 .. L
        BY <1>1, <3>3
      <4> QED BY <1>4, <1>9, <2>2, <2>5, <3>1, <4>1 DEF Folded
    <3> QED BY <3>2, <3>3
  <2>6. Folded(t, d)
    BY <1>1, <1>2, <1>3, <1>4, <1>9, <2>1, <2>4, <2>5 DEF Folded
  <2>7. Linked(t, d)
    BY <1>1, <1>2, <1>3, <1>6, <2>1
  <2> QED BY <2>6, <2>7 DEF Shaped, t, d, n
<1> QED BY <1>3, <1>7, <1>8, <1>9 DEF Shaped

(* The oldest chunk starts at Tail, and a read stays inside the buffer. *)
LEMMA ShapedFirst ==
  ASSUME NEW s \in Seq(Chunks), s # <<>>, NEW b \in Offsets, Shaped(s, b)
  PROVE  /\ s[1] \in Chunks /\ s[1].at = b.Tail
         /\ b.Tail + roundUpSize(s[1].command.Size) = EndOf(s[1])
         /\ EndOf(s[1]) <= Size
<1>1. 1 \in 1 .. Len(s) /\ s[1] \in Chunks
  BY EmptySeq, ElementOfSeq
<1>2. s[1].at = b.Tail
  BY DEF Shaped, Linked
<1> QED BY <1>1, <1>2, ChunkSize, ShapedApart

(* PopCommand keeps the shape. *)
LEMMA ShapedRead ==
  ASSUME NEW s \in Seq(Chunks), s # <<>>, NEW b \in Offsets, Shaped(s, b)
  PROVE  Shaped(Tail(s), Consumed(b, roundUpSize(s[1].command.Size)))
<1> DEFINE n == roundUpSize(s[1].command.Size)
           d == Consumed(b, n)
           L == Len(s)
           t == Tail(s)
<1>1. /\ b.Tail \in 0 .. Size /\ b.Head \in 0 .. Size /\ b.End \in 0 .. Size
      /\ \A i \in 1 .. L : s[i].at \in Nat /\ EndOf(s[i]) \in Nat /\ s[i].at < EndOf(s[i])
      /\ Size \in Nat /\ L \in Nat /\ L > 0
  BY ChunkSize, ElementOfSeq, SizeIsPositive, EmptySeq DEF Offsets
<1>2. /\ s[1].at = b.Tail /\ b.Tail + n = EndOf(s[1]) /\ EndOf(s[1]) <= Size
      /\ n \in Nat /\ EndOf(s[L]) = b.Head /\ b.Head # b.Tail
      /\ EndOf(s[1]) > b.Tail
  BY <1>1, ShapedFirst, ChunkSize, CommandSize DEF Shaped, Linked
<1>3. d = IF EndOf(s[1]) = b.End THEN [Tail |-> 0, Head |-> b.Head, End |-> 0]
          ELSE IF EndOf(s[1]) = b.Head THEN [Tail |-> 0, Head |-> 0, End |-> b.End]
          ELSE [Tail |-> EndOf(s[1]), Head |-> b.Head, End |-> b.End]
  BY <1>2, ConsumedOffsets
<1>4. /\ Len(t) = L - 1 /\ (t = <<>> <=> L = 1)
      /\ \A i \in 1 .. L - 1 : t[i] = s[i + 1]
  <2>1. t \in Seq(Chunks) /\ Len(t) = L - 1 /\ \A i \in 1 .. L - 1 : t[i] = s[i + 1]
    BY HeadTailProperties
  <2> QED BY <1>1, <2>1, EmptySeq
<1> HIDE DEF n, d, t
<1>a. L # 1 => /\ 1 \in 1 .. L - 1 /\ 1 \in 1 .. L /\ 2 \in 1 .. L /\ 2 \in 2 .. L
              /\ L - 1 \in 1 .. L - 1 /\ (L - 1) + 1 = L
  <2>1. ASSUME NEW m \in Nat, m > 0, m # 1 PROVE m >= 2
    BY <2>1
  <2>2. L # 1 => L >= 2
    BY <1>1, <2>1
  <2> QED BY <1>1, <2>2
<1>5. ASSUME L # 1, d.Head = b.Head, d.Head # d.Tail, s[2].at = d.Tail,
             d.End = b.End \/ \A i \in 2 .. L : EndOf(s[i]) # b.End
      PROVE  Linked(t, d)
  <2>1. t # <<>> /\ t[1].at = d.Tail /\ EndOf(t[Len(t)]) = d.Head
    BY <1>2, <1>4, <1>5, <1>a
  <2>2. ASSUME NEW i \in 1 .. Len(t) - 1
        PROVE  t[i + 1].at = EndOf(t[i]) \/ (t[i + 1].at = 0 /\ EndOf(t[i]) = d.End)
    <3>1. /\ i \in 1 .. L - 1 /\ i + 1 \in 1 .. L - 1 /\ i + 1 \in 2 .. L
          /\ t[i] = s[i + 1] /\ t[i + 1] = s[(i + 1) + 1]
      BY <1>1, <1>4
    <3>2. \/ s[(i + 1) + 1].at = EndOf(s[i + 1])
          \/ s[(i + 1) + 1].at = 0 /\ EndOf(s[i + 1]) = b.End
      BY <3>1 DEF Shaped, Linked
    <3> QED BY <1>5, <3>1, <3>2
  <2> QED BY <1>5, <2>1, <2>2 DEF Linked
<1>6. L # 1 => 2 \in 1 .. L /\ (s[2].at = EndOf(s[1]) \/ (s[2].at = 0 /\ EndOf(s[1]) = b.End))
  <2> SUFFICES ASSUME L # 1
               PROVE  2 \in 1 .. L /\ (s[2].at = EndOf(s[1]) \/ (s[2].at = 0 /\ EndOf(s[1]) = b.End))
    OBVIOUS
  <2>1. 1 \in 1 .. L - 1 /\ 1 + 1 = 2 /\ 2 \in 1 .. L
    BY <1>a
  <2> QED BY <2>1 DEF Shaped, Linked
<1>7. CASE Straight(s, b)
  <2>1. b.End = 0 /\ EndOf(s[1]) # b.End
    BY <1>1, <1>2, <1>7 DEF Straight
  <2>2. CASE EndOf(s[1]) = b.Head
    <3>1. L = 1
      <4> SUFFICES ASSUME L # 1 PROVE FALSE
        OBVIOUS
      <4>1. 1 \in 1 .. L /\ 2 \in 1 .. L /\ 1 < 2
        BY <1>a
      <4>2. b.Head <= s[2].at /\ EndOf(s[2]) <= b.Head
        BY <1>7, <2>2, <4>1 DEF Straight
      <4> QED BY <1>1, <4>1, <4>2
    <3>2. d.Tail = 0 /\ d.Head = 0 /\ d.End = 0 /\ t = <<>> /\ Len(t) = 0
      BY <1>3, <1>4, <2>1, <2>2, <3>1
    <3>3. Linked(t, d) /\ Straight(t, d)
      BY <3>2 DEF Linked, Straight
    <3> QED BY <3>3 DEF Shaped, t, d, n
  <2>3. CASE EndOf(s[1]) # b.Head
    <3>1. d.Tail = EndOf(s[1]) /\ d.Head = b.Head /\ d.End = b.End
      BY <1>3, <2>1, <2>3
    <3>2. L # 1
      BY <1>2, <2>3
    <3>3. s[2].at = d.Tail
      BY <1>6, <2>1, <3>1, <3>2
    <3>4. Linked(t, d)
      BY <1>5, <2>3, <3>1, <3>2, <3>3
    <3>5. \A i \in 1 .. Len(t) : d.Tail <= t[i].at /\ EndOf(t[i]) <= d.Head
      <4> TAKE i \in 1 .. Len(t)
      <4>1. i \in 1 .. L - 1 /\ i + 1 \in 1 .. L /\ 1 \in 1 .. L /\ 1 < i + 1
        BY <1>1, <1>4
      <4> QED BY <1>4, <1>7, <3>1, <4>1 DEF Straight
    <3>6. \A i, j \in 1 .. Len(t) : i < j => EndOf(t[i]) <= t[j].at
      <4> TAKE i, j \in 1 .. Len(t)
      <4>1. i \in 1 .. L - 1 /\ i + 1 \in 1 .. L /\ j \in 1 .. L - 1 /\ j + 1 \in 1 .. L
        BY <1>1, <1>4
      <4>2. i < j => i + 1 < j + 1
        BY <4>1
      <4> QED BY <1>4, <1>7, <4>1, <4>2 DEF Straight
    <3>7. d.End = 0 /\ d.Tail <= d.Head
      <4>1. 1 \in 1 .. L
        BY <1>1
      <4> QED BY <1>7, <2>1, <3>1, <4>1 DEF Straight
    <3> QED BY <3>4, <3>5, <3>6, <3>7 DEF Shaped, Straight, t, d, n
  <2> QED BY <2>2, <2>3
<1>8. CASE Folded(s, b)
  <2>1. /\ 0 < b.Head /\ b.Head < b.Tail /\ b.Tail < b.End
        /\ L # 1 /\ EndOf(s[1]) # b.Head /\ 1 \in 1 .. L
        /\ Upper(s[1], b)
    <3>1. 0 < b.Head /\ b.Head < b.Tail /\ b.Tail < b.End /\ EndOf(s[1]) # b.Head
      BY <1>1, <1>2, <1>8 DEF Folded
    <3>2. L # 1 /\ 1 \in 1 .. L
      BY <1>1, <1>2, <3>1
    <3>3. ~ Lower(s[1], b)
      BY <1>1, <1>2, <3>1 DEF Lower
    <3> QED BY <1>8, <3>1, <3>2, <3>3 DEF Folded
  <2>2. ASSUME NEW i \in 2 .. L, Upper(s[i], b)
        PROVE  EndOf(s[1]) <= s[i].at /\ EndOf(s[1]) # b.End
    <3>1. i \in 1 .. L /\ 1 < i
      BY <1>1
    <3>2. EndOf(s[1]) <= s[i].at
      BY <1>8, <2>1, <2>2, <3>1 DEF Folded
    <3> QED BY <1>1, <2>1, <2>2, <3>1, <3>2 DEF Upper
  <2>3. CASE EndOf(s[1]) = b.End
    <3>1. d.Tail = 0 /\ d.Head = b.Head /\ d.End = 0
      BY <1>3, <2>3
    <3>2. \A i \in 2 .. L : ~ Upper(s[i], b) /\ Lower(s[i], b) /\ EndOf(s[i]) # b.End
      <4> TAKE i \in 2 .. L
      <4>1. i \in 1 .. L
        BY <1>1
      <4>2. ~ Upper(s[i], b) /\ Lower(s[i], b)
        BY <1>8, <2>2, <2>3, <4>1 DEF Folded
      <4> QED BY <1>1, <2>1, <4>1, <4>2 DEF Lower
    <3>3. s[2].at = 0
      <4>1. 2 \in 1 .. L /\ 2 \in 2 .. L
        BY <1>6, <2>1
      <4>2. EndOf(s[2]) <= b.Head /\ b.Head < b.End /\ s[2].at < EndOf(s[2])
        BY <1>1, <2>1, <3>2, <4>1 DEF Lower
      <4> QED BY <1>1, <1>6, <2>1, <2>3, <4>1, <4>2
    <3>4. Linked(t, d)
      BY <1>1, <1>5, <2>1, <3>1, <3>2, <3>3
    <3>5. \A i \in 1 .. Len(t) : d.Tail <= t[i].at /\ EndOf(t[i]) <= d.Head
      <4> TAKE i \in 1 .. Len(t)
      <4>1. i \in 1 .. L - 1 /\ i + 1 \in 2 .. L /\ i + 1 \in 1 .. L
        BY <1>1, <1>4
      <4>2. EndOf(s[i + 1]) <= b.Head /\ s[i + 1].at >= 0
        BY <1>1, <3>2, <4>1 DEF Lower
      <4> QED BY <1>4, <3>1, <4>1, <4>2
    <3>6. \A i, j \in 1 .. Len(t) : i < j => EndOf(t[i]) <= t[j].at
      <4> TAKE i, j \in 1 .. Len(t)
      <4>1. /\ i \in 1 .. L - 1 /\ i + 1 \in 1 .. L /\ j \in 1 .. L - 1 /\ j + 1 \in 1 .. L
            /\ i + 1 \in 2 .. L /\ j + 1 \in 2 .. L
        BY <1>1, <1>4
      <4>2. i < j => i + 1 < j + 1
        BY <4>1
      <4> QED BY <1>4, <1>8, <3>2, <4>1, <4>2 DEF Folded
    <3> QED BY <1>1, <3>1, <3>4, <3>5, <3>6 DEF Shaped, Straight, t, d, n
  <2>4. CASE EndOf(s[1]) # b.End
    <3>1. d.Tail = EndOf(s[1]) /\ d.Head = b.Head /\ d.End = b.End
      BY <1>3, <2>1, <2>4
    <3>2. d.Head < d.Tail /\ d.Tail < d.End
      BY <1>1, <1>2, <2>1, <2>4, <3>1 DEF Upper
    <3>3. s[2].at = d.Tail
      BY <1>6, <2>1, <2>4, <3>1
    <3>4. Linked(t, d)
      BY <1>1, <1>2, <1>5, <2>1, <3>1, <3>2, <3>3
    <3>5. \A i \in 1 .. Len(t) : /\ Upper(t[i], d) <=> Upper(s[i + 1], b)
                                 /\ Lower(t[i], d) <=> Lower(s[i + 1], b)
      <4> TAKE i \in 1 .. Len(t)
      <4>1. i + 1 \in 2 .. L /\ i + 1 \in 1 .. L /\ t[i] = s[i + 1]
        BY <1>1, <1>4
      <4>2. Lower(t[i], d) <=> Lower(s[i + 1], b)
        BY <3>1, <4>1 DEF Lower
      <4>3. Upper(s[i + 1], b) => Upper(t[i], d)
        BY <2>2, <3>1, <4>1 DEF Upper
      <4>4. Upper(t[i], d) => Upper(s[i + 1], b)
        BY <1>1, <1>2, <3>1, <4>1 DEF Upper
      <4> QED BY <4>2, <4>3, <4>4
    <3>6. \A i \in 1 .. Len(t) : Upper(t[i], d) \/ Lower(t[i], d)
      <4> TAKE i \in 1 .. Len(t)
      <4>1. i + 1 \in 1 .. L
        BY <1>1, <1>4
      <4>2. Upper(s[i + 1], b) \/ Lower(s[i + 1], b)
        BY <1>8, <4>1 DEF Folded
      <4> QED BY <3>5, <4>2
    <3>7. ASSUME NEW i \in 1 .. Len(t), NEW j \in 1 .. Len(t), i < j,
                 Upper(t[i], d) <=> Upper(t[j], d)
          PROVE  EndOf(t[i]) <= t[j].at
      <4>1. /\ i \in 1 .. L - 1 /\ i + 1 \in 1 .. L /\ j \in 1 .. L - 1 /\ j + 1 \in 1 .. L
            /\ i + 1 < j + 1
        BY <1>1, <1>4, <3>7
      <4>2. Upper(s[i + 1], b) <=> Upper(s[j + 1], b)
        BY <3>5, <3>7
      <4> QED BY <1>4, <1>8, <4>1, <4>2 DEF Folded
    <3>8. Folded(t, d)
      BY <1>1, <2>1, <3>1, <3>2, <3>6, <3>7 DEF Folded
    <3> QED BY <3>4, <3>8 DEF Shaped, t, d, n
  <2> QED BY <2>3, <2>4
<1> QED BY <1>7, <1>8 DEF Shaped

-----------------------------------------------------------------------------
(* The state, step by step. *)

Shape == Shaped(stored, CommandBuffer)

LEMMA TypeOKFacts ==
  ASSUME Typed
  PROVE  /\ stored \in Seq(Chunks) /\ CommandBuffer \in Offsets
         /\ \A t \in Producers : pc[t] = "push" =>
              /\ command[t] \in Commands /\ Need(t) \in Nat /\ command[t].from = t
BY CommandSize DEF Typed, TypeOK, Holding, Chunks, Need

LEMMA PushCallTyped ==
  ASSUME Typed, NEW t \in Producers, PushCall(t) \/ PushExitCommand(t)
  PROVE  Typed'
<1>1. PICK c \in Commands :
        /\ c.from = t /\ command' = [command EXCEPT ![t] = c]
        /\ pc[t] = "out" /\ pc' = [pc EXCEPT ![t] = "push"]
        /\ ExitEnqueued' \in BOOLEAN
        /\ UNCHANGED << CommandBuffer, stored, BlockedProducers, queueAvailableEvent,
                        completeEvent, ExitProcessed, pipe, consumer, popped >>
  <2>1. CASE PushCall(t)
    <3>1. PICK k \in Kinds : command' = [command EXCEPT ![t] =
            [from |-> t, Size |-> k.Size, WaitFlag |-> k.WaitFlag, ExitFlag |-> FALSE]]
      BY <2>1 DEF PushCall
    <3>2. [from |-> t, Size |-> k.Size, WaitFlag |-> k.WaitFlag, ExitFlag |-> FALSE] \in Commands
      BY SizesArePositive DEF Commands
    <3> QED BY <2>1, <3>1, <3>2 DEF PushCall, Typed, TypeOK
  <2>2. CASE PushExitCommand(t)
    <3>1. PICK w \in BOOLEAN : command' = [command EXCEPT ![t] =
            [from |-> t, Size |-> ExitSize, WaitFlag |-> w, ExitFlag |-> TRUE]]
      BY <2>2 DEF PushExitCommand
    <3>2. [from |-> t, Size |-> ExitSize, WaitFlag |-> w, ExitFlag |-> TRUE] \in Commands
      BY SizesArePositive DEF Commands
    <3> QED BY <2>2, <3>1, <3>2 DEF PushExitCommand, Typed, TypeOK
  <2> QED BY <2>1, <2>2
<1>2. TypeOK'
  BY <1>1 DEF Typed, TypeOK
<1>3. Holding'
  BY <1>1, NoCommandIsNone DEF Typed, TypeOK, Holding
<1> QED BY <1>2, <1>3 DEF Typed

LEMMA EnqueueKeeps ==
  ASSUME Typed, Shape, NEW t \in Producers, Enqueue(t)
  PROVE  Typed' /\ Shape'
<1> DEFINE c == [at |-> Place(CommandBuffer, Need(t)), command |-> command[t]]
<1>1. /\ stored \in Seq(Chunks) /\ CommandBuffer \in Offsets
      /\ command[t] \in Commands /\ Need(t) \in Nat /\ pc[t] = "push"
      /\ HasRoom(CommandBuffer, Need(t))
      /\ stored' = Append(stored, c)
      /\ CommandBuffer' = Written(CommandBuffer, Need(t))
  BY TypeOKFacts DEF Enqueue
<1>2. c \in Chunks /\ Need(t) = roundUpSize(c.command.Size)
  BY <1>1, WrittenOffsets DEF Chunks, Need
<1>3. CommandBuffer' \in Offsets /\ stored' \in Seq(Chunks)
  BY <1>1, <1>2, WrittenOffsets, AppendProperties
<1>4. Shape'
  BY <1>1, <1>2, ShapedWrite DEF Shape
<1>5. pipe' \in 0 .. PipeLimit
  BY PipeIsReadInPieces DEF Enqueue, OnPushNonEmpty_Locked, IsEmpty, Typed, TypeOK, Shape, Shaped
<1>6. pc' \in [Producers -> {"out", "push", "awaitRoom", "awaitDone"}]
  BY DEF Enqueue, Typed, TypeOK
<1>7. TypeOK'
  BY <1>3, <1>5, <1>6 DEF Enqueue, Typed, TypeOK, Chunks
<1>8. Holding'
  BY <1>1 DEF Enqueue, Typed, TypeOK, Holding
<1> QED BY <1>4, <1>7, <1>8 DEF Typed

(* The other steps of a thread that pushes. *)
LEMMA PushTyped ==
  ASSUME Typed, NEW t \in Producers,
         Refuse(t) \/ Block(t) \/ WaitForRoom(t) \/ WaitForCall(t)
  PROVE  Typed'
<1>1. CASE Refuse(t)
  BY <1>1 DEF Refuse, Typed, TypeOK, Holding
<1>2. CASE Block(t)
  <2>1. BlockedProducers' \in Seq(Producers)
    BY <1>2, AppendProperties DEF Block, Typed, TypeOK
  <2> QED BY <1>2, <2>1 DEF Block, Typed, TypeOK, Holding
<1>3. CASE WaitForRoom(t)
  <2>1. queueAvailableEvent' \in [Producers -> E!Events]
    BY <1>3 DEF WaitForRoom, Typed, TypeOK, E!AfterWait, E!NewEvent, E!Events
  <2> QED BY <1>3, <2>1 DEF WaitForRoom, Typed, TypeOK, Holding
<1>4. CASE WaitForCall(t)
  <2>1. completeEvent' \in [Producers -> E!Events]
    BY <1>4 DEF WaitForCall, Typed, TypeOK, E!AfterWait, E!NewEvent, E!Events
  <2> QED BY <1>4, <2>1 DEF WaitForCall, Typed, TypeOK, Holding
<1> QED BY <1>1, <1>2, <1>3, <1>4

LEMMA WakeTyped ==
  ASSUME Typed, WakeOneProducer
  PROVE  /\ BlockedProducers' \in Seq(Producers)
         /\ queueAvailableEvent' \in [Producers -> E!Events]
<1>1. CASE BlockedProducers = <<>>
  BY <1>1 DEF WakeOneProducer, Typed, TypeOK
<1>2. CASE BlockedProducers # <<>>
  <2>1. BlockedProducers' \in Seq(Producers) /\ Head(BlockedProducers) \in Producers
    <3>1. BlockedProducers \in Seq(Producers)
      BY DEF Typed, TypeOK
    <3>2. BlockedProducers' = Tail(BlockedProducers)
      BY <1>2 DEF WakeOneProducer
    <3> QED BY <1>2, <3>1, <3>2, HeadTailProperties
  <2>2. E!PulseEvent \in E!Events
    BY DEF E!PulseEvent, E!Events
  <2> QED BY <1>2, <2>1, <2>2 DEF WakeOneProducer, Typed, TypeOK
<1> QED BY <1>1, <1>2

LEMMA PopKeeps ==
  ASSUME Typed, Shape, PopCommand
  PROVE  Typed' /\ Shape'
<1>1. /\ stored \in Seq(Chunks) /\ CommandBuffer \in Offsets
      /\ stored # <<>> /\ stored' = Tail(stored) /\ popped' = stored[1].command
      /\ CommandBuffer' = Consumed(CommandBuffer, roundUpSize(stored[1].command.Size))
  BY TypeOKFacts, ShapedApart DEF PopCommand, Shape
<1>2. Shape'
  BY <1>1, ShapedRead DEF Shape
<1>3. popped' \in Commands /\ stored' \in Seq(Chunks) /\ CommandBuffer' \in Offsets
  <2>1. stored[1] \in Chunks /\ stored[1].command \in Commands
    BY <1>1, ShapedFirst, ChunkSize DEF Shape
  <2>2. stored' \in Seq(Chunks)
    BY <1>1, HeadTailProperties
  <2>3. CommandBuffer' \in Offsets
    BY <1>1, <2>1, ShapedFirst, CommandSize, ConsumedOffsets DEF Shape
  <2> QED BY <1>1, <2>1, <2>2, <2>3
<1>4. TypeOK'
  BY <1>3, WakeTyped DEF PopCommand, Typed, TypeOK, Chunks
<1>5. Holding'
  BY <1>3, NoCommandIsNone DEF PopCommand, Typed, Holding
<1> QED BY <1>2, <1>4, <1>5 DEF Typed

LEMMA RunTyped ==
  ASSUME Typed, Execute \/ NotifyCaller \/ FindNothing \/ Poll
  PROVE  Typed'
<1>1. CASE Execute
  <2>1. popped \in Commands
    BY <1>1 DEF Execute, Typed, TypeOK, Holding
  <2> QED BY <1>1, <2>1, CommandSize DEF Execute, Typed, TypeOK, Holding
<1>2. CASE NotifyCaller
  <2>1. completeEvent' \in [Producers -> E!Events]
    BY <1>2, CommandSize DEF NotifyCaller, Typed, TypeOK, E!PulseEvent, E!Events
  <2> QED BY <1>2, <2>1 DEF NotifyCaller, Typed, TypeOK, Holding
<1>3. CASE FindNothing
  BY <1>3 DEF FindNothing, Typed, TypeOK, Holding
<1>4. CASE Poll
  BY <1>4, PipeIsReadInPieces DEF Poll, Typed, TypeOK, Holding
<1> QED BY <1>1, <1>2, <1>3, <1>4

(* Only Enqueue and PopCommand touch the buffer. *)
LEMMA TypedStep == ASSUME Typed, Shape, [Next]_vars PROVE Typed' /\ Shape'
<1>1. ASSUME NEW t \in Producers, PushCall(t) \/ PushExitCommand(t)
      PROVE  Typed' /\ Shape'
  BY <1>1, PushCallTyped DEF PushCall, PushExitCommand, Shape
<1>2. ASSUME NEW t \in Producers, Enqueue(t) PROVE Typed' /\ Shape'
  BY <1>2, EnqueueKeeps
<1>3. ASSUME NEW t \in Producers,
             Refuse(t) \/ Block(t) \/ WaitForRoom(t) \/ WaitForCall(t)
      PROVE  Typed' /\ Shape'
  BY <1>3, PushTyped DEF Refuse, Block, WaitForRoom, WaitForCall, Shape
<1>4. CASE PopCommand
  BY <1>4, PopKeeps
<1>5. CASE Execute \/ NotifyCaller \/ FindNothing \/ Poll
  BY <1>5, RunTyped DEF Execute, NotifyCaller, FindNothing, Poll, Shape
<1>6. CASE UNCHANGED vars
  BY <1>6 DEF vars, Typed, TypeOK, Holding, Shape
<1> QED BY <1>1, <1>2, <1>3, <1>4, <1>5, <1>6 DEF Next, Run, Push

LEMMA ShapeInit == Init => Shape
BY EmptySeq DEF Init, Shape, Shaped, Linked, Straight, EmptyBuffer

LEMMA WellTyped == Spec => [](Typed /\ Shape)
<1>1. Init => Typed /\ Shape
  BY TypedInit, ShapeInit
<1>2. Typed /\ Shape /\ [Next]_vars => (Typed /\ Shape)'
  BY TypedStep
<1> QED BY <1>1, <1>2, PTL DEF Spec

(* The type invariant of the queue. *)
THEOREM TypeInvariant == Spec => []TypeOK
<1>1. Typed => TypeOK
  BY DEF Typed
<1> QED BY <1>1, WellTyped, PTL

LEMMA ShapeIsApart == ASSUME Typed, Shape PROVE CommandsApart
<1>1. stored \in Seq(Chunks) /\ CommandBuffer \in Offsets
  BY TypeOKFacts
<1>2. \A i \in 1 .. Len(stored) : stored[i].at >= 0
  BY <1>1, ChunkSize, ElementOfSeq
<1>3. stored # <<>> => stored[1].at = CommandBuffer.Tail
  BY DEF Shape, Shaped, Linked
<1> QED BY <1>1, <1>2, <1>3, ShapedApart DEF Shape, CommandsApart

(***************************************************************************)
(* No command in the buffer is ever overwritten before it has run, nor     *)
(* does one reach outside it, whatever sizes are pushed in whatever order. *)
(***************************************************************************)
THEOREM CommandsAreApart == Spec => []CommandsApart
BY WellTyped, ShapeIsApart, PTL

-----------------------------------------------------------------------------
(* Nobody sleeps on what is there. *)

THEOREM ConsumerWakes == Spec => []NoSleepOnCommands
<1>1. Init => NoSleepOnCommands
  BY DEF Init, NoSleepOnCommands
<1>2. Typed /\ Shape /\ NoSleepOnCommands /\ [Next]_vars => NoSleepOnCommands'
  <2> SUFFICES ASSUME Typed, Shape, NoSleepOnCommands, [Next]_vars
               PROVE  NoSleepOnCommands'
    OBVIOUS
  <2>1. IsEmpty(CommandBuffer) <=> stored = <<>>
    BY TypeOKFacts, ShapedApart DEF Shape
  <2>2. pipe \in Nat
    BY PipeIsReadInPieces DEF Typed, TypeOK
  <2>3. ASSUME NEW t \in Producers, Enqueue(t) PROVE NoSleepOnCommands'
    BY <2>1, <2>2, <2>3 DEF Enqueue, OnPushNonEmpty_Locked, NoSleepOnCommands
  <2>4. CASE FindNothing
    BY <2>1, <2>4 DEF FindNothing, NoSleepOnCommands
  <2>5. CASE PopCommand \/ Execute \/ NotifyCaller \/ Poll
    BY <2>5 DEF PopCommand, Execute, NotifyCaller, Poll, NoSleepOnCommands
  <2>6. ASSUME NEW t \in Producers,
               \/ PushCall(t) \/ PushExitCommand(t)
               \/ Refuse(t) \/ Block(t) \/ WaitForRoom(t) \/ WaitForCall(t)
        PROVE  NoSleepOnCommands'
    BY <2>6 DEF PushCall, PushExitCommand, Refuse, Block, WaitForRoom, WaitForCall,
                NoSleepOnCommands
  <2>7. CASE UNCHANGED vars
    BY <2>7 DEF vars, NoSleepOnCommands
  <2> QED BY <2>3, <2>4, <2>5, <2>6, <2>7 DEF Next, Run, Push
<1> QED BY <1>1, <1>2, WellTyped, PTL DEF Spec

(* Which threads wait for room: those in the list, not yet told, and those *)
(* told, whose pulse only they can take away.                              *)
Rooms ==
  /\ \A t \in Producers :
       /\ queueAvailableEvent[t] \in {E!NewEvent, E!PulseEvent}
       /\ E!IsSet(queueAvailableEvent[t]) => pc[t] = "awaitRoom"
  /\ \A i \in 1 .. Len(BlockedProducers) :
       /\ pc[BlockedProducers[i]] = "awaitRoom"
       /\ ~ E!IsSet(queueAvailableEvent[BlockedProducers[i]])
  /\ \A i, j \in 1 .. Len(BlockedProducers) :
       BlockedProducers[i] = BlockedProducers[j] => i = j

LEMMA RoomsInit == Init => Rooms
BY EmptySeq DEF Init, Rooms, E!NewEvent, E!IsSet

LEMMA RoomsBlock ==
  ASSUME Typed, Rooms, NEW t \in Producers, Block(t)
  PROVE  Rooms'
<1> DEFINE B == BlockedProducers
<1>1. /\ B \in Seq(Producers) /\ pc[t] = "push" /\ ~ E!IsSet(queueAvailableEvent[t])
      /\ pc' = [pc EXCEPT ![t] = "awaitRoom"] /\ B' = Append(B, t)
      /\ queueAvailableEvent' = queueAvailableEvent
      /\ pc \in [Producers -> {"out", "push", "awaitRoom", "awaitDone"}]
  BY DEF Block, Rooms, Typed, TypeOK
<1>2. /\ Len(B') = Len(B) + 1 /\ B'[Len(B) + 1] = t /\ Len(B) \in Nat
      /\ \A i \in 1 .. Len(B) : B'[i] = B[i] /\ B[i] \in Producers
  BY <1>1, AppendProperties, ElementOfSeq
<1>3. \A i \in 1 .. Len(B) : B[i] # t
  BY <1>1 DEF Rooms
<1>4. \A i \in 1 .. Len(B') : i \in 1 .. Len(B) \/ i = Len(B) + 1
  BY <1>2
<1>5. \A i \in 1 .. Len(B') : /\ pc'[B'[i]] = "awaitRoom"
                             /\ ~ E!IsSet(queueAvailableEvent[B'[i]])
  BY <1>1, <1>2, <1>3, <1>4 DEF Rooms
<1>6. \A i, j \in 1 .. Len(B') : B'[i] = B'[j] => i = j
  BY <1>2, <1>3, <1>4 DEF Rooms
<1>7. \A u \in Producers :
         /\ queueAvailableEvent[u] \in {E!NewEvent, E!PulseEvent}
         /\ E!IsSet(queueAvailableEvent[u]) => pc'[u] = "awaitRoom"
  BY <1>1 DEF Rooms
<1> QED BY <1>1, <1>5, <1>6, <1>7 DEF Rooms

LEMMA RoomsWake ==
  ASSUME Typed, Rooms, PopCommand
  PROVE  Rooms' /\ (BlockedProducers # <<>> => \E t \in Producers : Told(t)')
<1> DEFINE B == BlockedProducers
<1>1. /\ B \in Seq(Producers) /\ pc' = pc
      /\ queueAvailableEvent \in [Producers -> E!Events]
  BY DEF PopCommand, Typed, TypeOK
<1>2. CASE B = <<>>
  BY <1>1, <1>2 DEF PopCommand, WakeOneProducer, Rooms
<1>3. CASE B # <<>>
  <2>a. Head(B) = B[1] /\ Head(B) \in Producers /\ B' = Tail(B)
    BY <1>1, <1>3, HeadTailProperties, EmptySeq, ElementOfSeq DEF PopCommand, WakeOneProducer
  <2>b. PICK h \in Producers : h = Head(B)
    BY <2>a
  <2>1. queueAvailableEvent' = [queueAvailableEvent EXCEPT ![h] = E!PulseEvent]
    BY <1>3, <2>b DEF PopCommand, WakeOneProducer
  <2>2. /\ Len(B) \in Nat /\ Len(B) >= 1 /\ Len(B') = Len(B) - 1 /\ h = B[1]
        /\ \A i \in 1 .. Len(B') : B'[i] = B[i + 1]
        /\ \A i \in 1 .. Len(B) : B[i] \in Producers
    BY <1>1, <1>3, <2>a, <2>b, HeadTailProperties, EmptySeq, ElementOfSeq
  <2>3. pc[h] = "awaitRoom"
    BY <2>2 DEF Rooms
  <2>4. \A u \in Producers :
           queueAvailableEvent'[u] = IF u = h THEN E!PulseEvent ELSE queueAvailableEvent[u]
    BY <1>1, <2>1, <2>3
  <2>5. \A i \in 1 .. Len(B') : i + 1 \in 1 .. Len(B) /\ B'[i] = B[i + 1] /\ B'[i] # h
    <3> TAKE i \in 1 .. Len(B')
    <3>1. i + 1 \in 1 .. Len(B) /\ 1 \in 1 .. Len(B) /\ i + 1 # 1
      BY <2>2
    <3> QED BY <2>2, <3>1 DEF Rooms
  <2>6. \A i \in 1 .. Len(B') : /\ pc'[B'[i]] = "awaitRoom"
                               /\ ~ E!IsSet(queueAvailableEvent'[B'[i]])
    BY <1>1, <2>2, <2>4, <2>5 DEF Rooms
  <2>7. \A i, j \in 1 .. Len(B') : B'[i] = B'[j] => i = j
    <3> TAKE i, j \in 1 .. Len(B')
    <3>1. B[i + 1] = B[j + 1] => i + 1 = j + 1
      BY <2>5 DEF Rooms
    <3> QED BY <2>2, <2>5, <3>1
  <2>8. \A u \in Producers :
           /\ queueAvailableEvent'[u] \in {E!NewEvent, E!PulseEvent}
           /\ E!IsSet(queueAvailableEvent'[u]) => pc'[u] = "awaitRoom"
    BY <1>1, <2>3, <2>4 DEF Rooms
  <2>9. Told(h)'
    BY <1>1, <2>3, <2>4 DEF Told, E!IsSet, E!PulseEvent
  <2> QED BY <2>3, <2>6, <2>7, <2>8, <2>9 DEF Rooms
<1> QED BY <1>2, <1>3

LEMMA RoomsOthers ==
  ASSUME Typed, Rooms, [Next]_vars, ~ PopCommand, ~ \E t \in Producers : Block(t)
  PROVE  Rooms' /\ BlockedProducers' = BlockedProducers
<1>1. CASE UNCHANGED <<BlockedProducers, queueAvailableEvent, pc>>
  BY <1>1 DEF Rooms
<1>2. ASSUME NEW t \in Producers, WaitForRoom(t) PROVE Rooms' /\ BlockedProducers' = BlockedProducers
  <2>1. /\ queueAvailableEvent[t] = E!PulseEvent
        /\ queueAvailableEvent' = [queueAvailableEvent EXCEPT ![t] = E!NewEvent]
        /\ pc' = [pc EXCEPT ![t] = "push"] /\ BlockedProducers' = BlockedProducers
    <3>1. queueAvailableEvent[t] = E!PulseEvent
      BY <1>2 DEF WaitForRoom, Rooms, E!IsSet, E!NewEvent
    <3>2. E!AfterWait(queueAvailableEvent[t]) = E!NewEvent
      BY <3>1 DEF E!AfterWait, E!PulseEvent
    <3> QED BY <1>2, <3>1, <3>2 DEF WaitForRoom
  <2>2. \A i \in 1 .. Len(BlockedProducers) :
           BlockedProducers[i] \in Producers /\ BlockedProducers[i] # t
    BY <2>1, ElementOfSeq DEF Rooms, Typed, TypeOK, E!IsSet, E!PulseEvent
  <2>3. /\ pc \in [Producers -> {"out", "push", "awaitRoom", "awaitDone"}]
        /\ queueAvailableEvent \in [Producers -> E!Events]
    BY DEF Typed, TypeOK
  <2> QED BY <2>1, <2>2, <2>3 DEF Rooms, E!IsSet, E!NewEvent
<1>3. ASSUME NEW t \in Producers, UNCHANGED <<BlockedProducers, queueAvailableEvent>>,
             pc[t] # "awaitRoom", NEW v, pc' = [pc EXCEPT ![t] = v]
      PROVE  Rooms' /\ BlockedProducers' = BlockedProducers
  <2>1. \A i \in 1 .. Len(BlockedProducers) :
           BlockedProducers[i] \in Producers /\ BlockedProducers[i] # t
    BY <1>3, ElementOfSeq DEF Rooms, Typed, TypeOK
  <2>2. pc \in [Producers -> {"out", "push", "awaitRoom", "awaitDone"}]
    BY DEF Typed, TypeOK
  <2> QED BY <1>3, <2>1, <2>2 DEF Rooms
<1>4. ASSUME NEW t \in Producers,
             PushCall(t) \/ PushExitCommand(t) \/ Refuse(t) \/ Enqueue(t) \/ WaitForCall(t)
      PROVE  /\ UNCHANGED <<BlockedProducers, queueAvailableEvent>> /\ pc[t] # "awaitRoom"
             /\ \E v : pc' = [pc EXCEPT ![t] = v]
  BY <1>4 DEF PushCall, PushExitCommand, Refuse, Enqueue, WaitForCall
<1>5. Execute \/ NotifyCaller \/ FindNothing \/ Poll \/ UNCHANGED vars
        => UNCHANGED <<BlockedProducers, queueAvailableEvent, pc>>
  BY DEF Execute, NotifyCaller, FindNothing, Poll, vars
<1> QED BY <1>1, <1>2, <1>3, <1>4, <1>5 DEF Next, Run, Push

LEMMA RoomsKept ==
  Spec => [](Rooms /\ RoomIsPassedOn)
<1>1. Init => Rooms /\ RoomIsPassedOn
  <2>1. Init => RoomIsPassedOn
    BY DEF Init, RoomIsPassedOn
  <2> QED BY <2>1, RoomsInit
<1>2. Typed /\ Shape /\ Rooms /\ [Next]_vars => Rooms'
  BY RoomsBlock, RoomsWake, RoomsOthers
<1>3. Typed /\ Shape /\ Rooms /\ RoomIsPassedOn /\ [Next]_vars => RoomIsPassedOn'
  <2> SUFFICES ASSUME Typed, Shape, Rooms, RoomIsPassedOn, [Next]_vars,
                      (BlockedProducers # <<>>)', ~ ExitEnqueued'
               PROVE  (stored # <<>>)' \/ \E t \in Producers : Told(t)' \/ (pc[t] = "push")'
    BY DEF RoomIsPassedOn
  <2>1. ~ ExitEnqueued
    BY DEF Next, Run, Push, PushCall, PushExitCommand, Refuse, Enqueue, Block, WaitForRoom,
           WaitForCall, PopCommand, Execute, NotifyCaller, FindNothing, Poll, vars
  <2>2. pc \in [Producers -> {"out", "push", "awaitRoom", "awaitDone"}]
    BY DEF Typed, TypeOK
  <2>3. CASE PopCommand
    <3>1. BlockedProducers # <<>>
      BY <2>3, HeadTailProperties DEF PopCommand, WakeOneProducer
    <3> QED BY <2>3, <3>1, RoomsWake
  <2>4. ASSUME NEW t \in Producers, Block(t) PROVE (stored # <<>>)'
    <3>1. /\ stored \in Seq(Chunks) /\ CommandBuffer \in Offsets
          /\ command[t] \in Commands /\ Need(t) \in Nat
      BY <2>4, TypeOKFacts DEF Block
    <3>2. ASSUME stored = <<>> PROVE HasRoom(CommandBuffer, Need(t))
      <4>1. CommandBuffer.Tail = 0 /\ CommandBuffer.Head = 0
        BY <3>2 DEF Shape, Shaped, Linked
      <4>2. Need(t) < Size
        BY <3>1, CommandIsShort DEF Need
      <4> QED BY <3>1, <4>1, <4>2, SizeIsPositive DEF HasRoom, FitsAtHead
    <3> QED BY <2>4, <3>2 DEF Block
  <2>5. CASE ~ PopCommand /\ ~ \E t \in Producers : Block(t)
    <3>1. BlockedProducers # <<>>
      BY <2>5, RoomsOthers
    <3>2. stored # <<>> \/ \E t \in Producers : Told(t) \/ pc[t] = "push"
      BY <2>1, <3>1 DEF RoomIsPassedOn
    <3>3. ASSUME NEW t \in Producers, Enqueue(t) PROVE (stored # <<>>)'
      BY <3>3, TypeOKFacts, AppendProperties, EmptySeq DEF Enqueue
    <3>4. ASSUME NEW t \in Producers, WaitForRoom(t) PROVE (pc[t] = "push")'
      BY <2>2, <3>4 DEF WaitForRoom
    <3>5. ASSUME NEW t \in Producers, PushCall(t) PROVE (pc[t] = "push")'
      BY <2>2, <3>5 DEF PushCall
    <3>6. ASSUME NEW t \in Producers, WaitForCall(t)
          PROVE  stored' = stored /\ \A u \in Producers :
                   /\ Told(u) => Told(u)'
                   /\ pc[u] = "push" => (pc[u] = "push")'
      BY <2>2, <3>6 DEF WaitForCall, Told
    <3>7. ASSUME Execute \/ NotifyCaller \/ FindNothing \/ Poll \/ UNCHANGED vars
          PROVE  UNCHANGED <<stored, pc, queueAvailableEvent>>
      BY <3>7 DEF Execute, NotifyCaller, FindNothing, Poll, vars
    <3>8. ASSUME NEW t \in Producers, Refuse(t) \/ PushExitCommand(t) PROVE FALSE
      <4>1. ~ Refuse(t)
        BY <2>1 DEF Refuse, Refused
      <4>2. ExitEnqueued'
        BY <3>8, <4>1 DEF PushExitCommand
      <4> QED BY <4>2
    <3> QED BY <2>5, <3>2, <3>3, <3>4, <3>5, <3>6, <3>7, <3>8 DEF Next, Run, Push, Told
  <2> QED BY <2>3, <2>4, <2>5
<1> QED BY <1>1, <1>2, <1>3, WellTyped, PTL DEF Spec

(***************************************************************************)
(* A thread that waits for room is not forgotten: the pop that made room   *)
(* told it, or the one told before it passes the news on by popping more.  *)
(***************************************************************************)
THEOREM RoomIsAlwaysPassedOn == Spec => []RoomIsPassedOn
BY RoomsKept, PTL

-----------------------------------------------------------------------------
(* The end. *)

ExitPushed(t) == command[t] # NoCommand /\ command[t].ExitFlag
ExitStored(i) == stored[i].command.ExitFlag
ExitPopped == popped # NoCommand /\ popped.ExitFlag

(* There is one exit command, and it is the last of all. *)
Exits ==
  /\ ~ ExitEnqueued => /\ \A t \in Producers : ~ ExitPushed(t)
                       /\ \A i \in 1 .. Len(stored) : ~ ExitStored(i)
                       /\ ~ ExitPopped /\ ~ ExitProcessed
  /\ \A t \in Producers : ExitPushed(t) =>
       /\ \A u \in Producers : ExitPushed(u) => u = t
       /\ \A i \in 1 .. Len(stored) : ~ ExitStored(i)
       /\ ~ ExitPopped /\ ~ ExitProcessed
  /\ \A i \in 1 .. Len(stored) : ExitStored(i) =>
       i = Len(stored) /\ ~ ExitPopped /\ ~ ExitProcessed
  /\ ExitPopped \/ ExitProcessed => stored = <<>>
  /\ consumer = "exited" => ExitProcessed

LEMMA ExitsEnqueue ==
  ASSUME Typed, Exits, NEW t \in Producers, Enqueue(t)
  PROVE  Exits'
<1>1. /\ stored \in Seq(Chunks) /\ command[t] \in Commands /\ command[t] # NoCommand
      /\ command \in [Producers -> Commands \cup {NoCommand}]
      /\ command' = [command EXCEPT ![t] = NoCommand]
      /\ UNCHANGED <<popped, ExitEnqueued, ExitProcessed, consumer>>
      /\ ExitEnqueued => command[t].ExitFlag
  BY TypeOKFacts, NoCommandIsNone DEF Enqueue, Refused, Typed, TypeOK
<1>2. /\ Len(stored) \in Nat /\ Len(stored') = Len(stored) + 1
      /\ stored'[Len(stored) + 1].command = command[t]
      /\ \A i \in 1 .. Len(stored) : stored'[i] = stored[i]
      /\ \A i \in 1 .. Len(stored') : i = Len(stored) + 1 \/ i \in 1 .. Len(stored)
  <2> DEFINE c == [at |-> Place(CommandBuffer, Need(t)), command |-> command[t]]
  <2>1. stored' = Append(stored, c)
    BY DEF Enqueue
  <2>2. /\ Len(stored') = Len(stored) + 1 /\ stored'[Len(stored) + 1] = c
        /\ \A i \in 1 .. Len(stored) : stored'[i] = stored[i]
    BY <1>1, <2>1, AppendProperties
  <2> QED BY <1>1, <2>2
<1>3. \A i \in 1 .. Len(stored) : ~ ExitStored(i)
  BY <1>1 DEF Exits, ExitPushed
<1>4. ~ ExitPopped /\ ~ ExitProcessed
  BY <1>1 DEF Exits, ExitPushed
<1>5. ExitPopped' = ExitPopped /\ consumer' # "exited"
  BY <1>1, <1>4 DEF ExitPopped, Exits
<1>6. \A u \in Producers : ExitPushed(u)' => u # t /\ ExitPushed(u)
  BY <1>1 DEF ExitPushed
<1>7. CASE command[t].ExitFlag
  <2>1. \A u \in Producers : ~ ExitPushed(u)'
    BY <1>1, <1>6, <1>7 DEF Exits, ExitPushed
  <2>2. \A i \in 1 .. Len(stored') : ExitStored(i)' => i = Len(stored')
    BY <1>2, <1>3 DEF ExitStored
  <2>3. ExitEnqueued'
    BY <1>1, <1>7 DEF Exits, ExitPushed
  <2> QED BY <1>1, <1>4, <1>5, <2>1, <2>2, <2>3 DEF Exits
<1>8. CASE ~ command[t].ExitFlag
  <2>1. \A u \in Producers : ~ ExitPushed(u)'
    BY <1>1, <1>6, <1>8 DEF Exits
  <2>2. \A i \in 1 .. Len(stored') : ~ ExitStored(i)'
    BY <1>2, <1>3, <1>8 DEF ExitStored
  <2> QED BY <1>1, <1>4, <1>5, <2>1, <2>2 DEF Exits
<1> QED BY <1>7, <1>8

LEMMA ExitsPop ==
  ASSUME Typed, Shape, Exits, PopCommand
  PROVE  Exits'
<1>1. /\ stored \in Seq(Chunks) /\ stored # <<>> /\ stored' = Tail(stored)
      /\ popped = NoCommand /\ popped' = stored[1].command
      /\ UNCHANGED <<command, ExitEnqueued, ExitProcessed>> /\ consumer' = "execute"
  BY TypeOKFacts, ShapedApart DEF PopCommand, Shape, Typed, Holding
<1>2. /\ Len(stored) \in Nat /\ Len(stored) >= 1 /\ Len(stored') = Len(stored) - 1
      /\ \A i \in 1 .. Len(stored') : stored'[i] = stored[i + 1]
      /\ Len(stored) = 1 => stored' = <<>>
      /\ 1 \in 1 .. Len(stored)
      /\ \A i \in 1 .. Len(stored') : i + 1 \in 1 .. Len(stored)
  <2>1. Len(stored) \in Nat /\ Len(stored) >= 1
    BY <1>1, EmptySeq, LenProperties
  <2>2. stored' \in Seq(Chunks) /\ Len(stored') = Len(stored) - 1
    BY <1>1, HeadTailProperties
  <2>3. \A i \in 1 .. Len(stored') : stored'[i] = stored[i + 1]
    BY <1>1, HeadTailProperties
  <2>4. Len(stored) = 1 => stored' = <<>>
    BY <2>2, EmptySeq
  <2> QED BY <2>1, <2>2, <2>3, <2>4
<1>3. ExitPopped' => ExitStored(1)
  BY <1>1 DEF ExitPopped, ExitStored
<1>4. \A t \in Producers : ExitPushed(t)' <=> ExitPushed(t)
  BY <1>1 DEF ExitPushed
<1>5. \A i \in 1 .. Len(stored') : ExitStored(i)' <=> ExitStored(i + 1)
  BY <1>2 DEF ExitStored
<1>6. ~ ExitProcessed /\ ~ ExitProcessed'
  BY <1>1 DEF Exits
<1>7. ~ ExitEnqueued' =>
         /\ \A t \in Producers : ~ ExitPushed(t)'
         /\ \A i \in 1 .. Len(stored') : ~ ExitStored(i)'
         /\ ~ ExitPopped' /\ ~ ExitProcessed'
  BY <1>1, <1>2, <1>3, <1>4, <1>5, <1>6 DEF Exits
<1>8. \A t \in Producers : ExitPushed(t)' =>
         /\ \A u \in Producers : ExitPushed(u)' => u = t
         /\ \A i \in 1 .. Len(stored') : ~ ExitStored(i)'
         /\ ~ ExitPopped' /\ ~ ExitProcessed'
  BY <1>1, <1>2, <1>3, <1>4, <1>5, <1>6 DEF Exits
<1>9. ASSUME NEW i \in 1 .. Len(stored'), ExitStored(i)'
      PROVE  i = Len(stored') /\ ~ ExitPopped'
  <2>1. ExitStored(i + 1) /\ i + 1 \in 1 .. Len(stored)
    BY <1>2, <1>5, <1>9
  <2>2. i + 1 = Len(stored)
    BY <2>1 DEF Exits
  <2>3. i = Len(stored')
    BY <1>2, <2>2
  <2>4. 1 # Len(stored)
    BY <1>2, <2>2
  <2>5. ~ ExitStored(1)
    BY <1>2, <2>4 DEF Exits
  <2> QED BY <1>3, <2>3, <2>5
<1>10. ExitPopped' => stored' = <<>>
  BY <1>2, <1>3 DEF Exits
<1>11. \A i \in 1 .. Len(stored') : ExitStored(i)' =>
         i = Len(stored') /\ ~ ExitPopped' /\ ~ ExitProcessed'
  BY <1>6, <1>9
<1>12. ExitPopped' \/ ExitProcessed' => stored' = <<>>
  BY <1>6, <1>10
<1>13. consumer' # "exited"
  BY <1>1
<1> QED BY <1>7, <1>8, <1>11, <1>12, <1>13 DEF Exits

(* A step that leaves the stored commands alone. *)
LEMMA ExitsOthers ==
  ASSUME Typed, Exits, [Next]_vars, ~ PopCommand, ~ \E t \in Producers : Enqueue(t)
  PROVE  Exits'
<1> USE DEF Exits, ExitPushed, ExitStored, ExitPopped
<1>0. command \in [Producers -> Commands \cup {NoCommand}]
  BY DEF Typed, TypeOK
<1>1. ASSUME NEW t \in Producers, PushCall(t) PROVE Exits'
  <2>1. PICK k \in Kinds : command' = [command EXCEPT ![t] =
          [from |-> t, Size |-> k.Size, WaitFlag |-> k.WaitFlag, ExitFlag |-> FALSE]]
    BY <1>1 DEF PushCall
  <2>2. \A u \in Producers : ExitPushed(u)' => ExitPushed(u)
    BY <1>0, <2>1
  <2>3. UNCHANGED <<stored, popped, ExitEnqueued, ExitProcessed, consumer>>
    BY <1>1 DEF PushCall
  <2> QED BY <2>2, <2>3
<1>2. ASSUME NEW t \in Producers, PushExitCommand(t) PROVE Exits'
  <2>1. \A u \in Producers : ExitPushed(u)' => u = t
    BY <1>0, <1>2 DEF PushExitCommand
  <2>2. UNCHANGED <<stored, popped, ExitProcessed, consumer>> /\ ~ ExitEnqueued /\ ExitEnqueued'
    BY <1>2 DEF PushExitCommand
  <2> QED BY <2>1, <2>2
<1>3. ASSUME NEW t \in Producers, Refuse(t) PROVE Exits'
  <2>1. \A u \in Producers : ExitPushed(u)' => ExitPushed(u)
    BY <1>0, <1>3 DEF Refuse
  <2>2. UNCHANGED <<stored, popped, ExitEnqueued, ExitProcessed, consumer>>
    BY <1>3 DEF Refuse
  <2> QED BY <2>1, <2>2
<1>4. CASE Execute
  <2>1. /\ ExitProcessed' = (ExitProcessed \/ popped.ExitFlag) /\ popped # NoCommand
        /\ UNCHANGED <<stored, popped, command, ExitEnqueued>> /\ consumer' = "notify"
    BY <1>4 DEF Execute, Typed, Holding
  <2> QED BY <2>1
<1>5. CASE NotifyCaller
  <2>1. /\ UNCHANGED <<stored, command, ExitEnqueued, ExitProcessed>> /\ popped' = NoCommand
        /\ consumer' = "exited" => ExitProcessed
    BY <1>5 DEF NotifyCaller
  <2> QED BY <2>1
<1>6. ASSUME UNCHANGED <<stored, command, popped, ExitEnqueued, ExitProcessed>>,
             consumer' = "exited" => consumer = "exited"
      PROVE  Exits'
  BY <1>6
<1>7. ASSUME NEW t \in Producers, Block(t) \/ WaitForRoom(t) \/ WaitForCall(t) PROVE Exits'
  BY <1>6, <1>7 DEF Block, WaitForRoom, WaitForCall
<1>8. CASE FindNothing \/ Poll \/ UNCHANGED vars
  BY <1>6, <1>8 DEF FindNothing, Poll, vars
<1> QED BY <1>1, <1>2, <1>3, <1>4, <1>5, <1>7, <1>8 DEF Next, Run, Push

LEMMA ExitsInit == Init => Exits
BY DEF Init, Exits, ExitPushed, ExitPopped, ExitStored

LEMMA ExitsKept == Spec => []Exits
<1>1. Typed /\ Shape /\ Exits /\ [Next]_vars => Exits'
  BY ExitsEnqueue, ExitsPop, ExitsOthers
<1> QED BY ExitsInit, <1>1, WellTyped, PTL DEF Spec

-----------------------------------------------------------------------------
(* Nobody waits for a call the consumer does not have. *)

HasCall(c, t) == c # NoCommand /\ c.from = t /\ c.WaitFlag

Waits(t) ==
  \/ E!IsSet(completeEvent[t])
  \/ HasCall(popped, t)
  \/ \E i \in 1 .. Len(stored) : HasCall(stored[i].command, t)

Callers == \A t \in Producers : pc[t] = "awaitDone" => Waits(t)

LEMMA CallersEnqueue ==
  ASSUME Typed, Callers, NEW t \in Producers, Enqueue(t)
  PROVE  Callers'
<1>1. /\ stored \in Seq(Chunks) /\ command[t] \in Commands /\ command[t] # NoCommand
      /\ command[t].from = t /\ UNCHANGED <<popped, completeEvent>>
      /\ pc \in [Producers -> {"out", "push", "awaitRoom", "awaitDone"}]
      /\ pc' = [pc EXCEPT ![t] = IF command[t].WaitFlag THEN "awaitDone" ELSE "out"]
  BY TypeOKFacts, NoCommandIsNone DEF Enqueue, Typed, TypeOK
<1>2. /\ Len(stored) \in Nat /\ Len(stored') = Len(stored) + 1
      /\ stored'[Len(stored) + 1].command = command[t]
      /\ \A i \in 1 .. Len(stored) : stored'[i] = stored[i]
  <2> DEFINE c == [at |-> Place(CommandBuffer, Need(t)), command |-> command[t]]
  <2>1. stored' = Append(stored, c)
    BY DEF Enqueue
  <2>2. /\ Len(stored') = Len(stored) + 1 /\ stored'[Len(stored) + 1] = c
        /\ \A i \in 1 .. Len(stored) : stored'[i] = stored[i]
    BY <1>1, <2>1, AppendProperties
  <2> QED BY <1>1, <2>2, LenProperties
<1>3. ASSUME NEW u \in Producers, pc'[u] = "awaitDone"
      PROVE  Waits(u)'
  <2>1. CASE u = t
    <3>1. HasCall(stored'[Len(stored')].command, t)
      BY <1>1, <1>2, <1>3, <2>1 DEF HasCall
    <3> QED BY <1>2, <2>1, <3>1 DEF Waits
  <2>2. CASE u # t
    <3>1. Waits(u)
      BY <1>1, <1>3, <2>2 DEF Callers
    <3>2. \A i \in 1 .. Len(stored) : i \in 1 .. Len(stored') /\ stored'[i] = stored[i]
      BY <1>2
    <3> QED BY <1>1, <3>1, <3>2 DEF Waits
  <2> QED BY <2>1, <2>2
<1> QED BY <1>3 DEF Callers

LEMMA CallersPop ==
  ASSUME Typed, Shape, Callers, PopCommand
  PROVE  Callers'
<1>1. /\ stored \in Seq(Chunks) /\ stored # <<>> /\ stored' = Tail(stored)
      /\ popped = NoCommand /\ popped' = stored[1].command
      /\ UNCHANGED <<pc, completeEvent>>
  BY TypeOKFacts, ShapedApart DEF PopCommand, Shape, Typed, Holding
<1>2. /\ Len(stored) \in Nat /\ Len(stored') = Len(stored) - 1
      /\ \A i \in 1 .. Len(stored') : stored'[i] = stored[i + 1]
  BY <1>1, HeadTailProperties, LenProperties
<1>3. ASSUME NEW t \in Producers, pc'[t] = "awaitDone"
      PROVE  Waits(t)'
  <2>1. CASE E!IsSet(completeEvent[t])
    BY <1>1, <2>1 DEF Waits
  <2>2. ASSUME NEW i \in 1 .. Len(stored), HasCall(stored[i].command, t)
        PROVE  Waits(t)'
    <3>1. CASE i = 1
      BY <1>1, <2>2, <3>1 DEF Waits
    <3>2. CASE i # 1
      <4>1. i - 1 \in 1 .. Len(stored') /\ stored'[i - 1] = stored[i]
        BY <1>2, <3>2
      <4> QED BY <2>2, <4>1 DEF Waits
    <3> QED BY <3>1, <3>2
  <2>3. ~ HasCall(popped, t)
    BY <1>1 DEF HasCall
  <2> QED BY <1>1, <1>3, <2>1, <2>2, <2>3 DEF Callers, Waits
<1> QED BY <1>3 DEF Callers

LEMMA CallersNotify ==
  ASSUME Typed, Callers, NotifyCaller
  PROVE  Callers'
<1>1. /\ popped \in Commands /\ popped # NoCommand /\ completeEvent \in [Producers -> E!Events]
      /\ completeEvent' = IF popped.WaitFlag
                          THEN [completeEvent EXCEPT ![popped.from] = E!PulseEvent]
                          ELSE completeEvent
      /\ UNCHANGED <<pc, stored>>
  BY NoCommandIsNone DEF NotifyCaller, Typed, TypeOK, Holding
<1>2. E!IsSet(E!PulseEvent)
  BY DEF E!IsSet, E!PulseEvent
<1>3. ASSUME NEW t \in Producers, pc'[t] = "awaitDone"
      PROVE  Waits(t)'
  <2>1. Waits(t)
    BY <1>1, <1>3 DEF Callers
  <2>2. CASE HasCall(popped, t)
    BY <1>1, <1>2, <2>2 DEF Waits, HasCall
  <2>3. CASE E!IsSet(completeEvent[t])
    BY <1>1, <1>2, <2>3 DEF Waits
  <2>4. CASE \E i \in 1 .. Len(stored) : HasCall(stored[i].command, t)
    BY <1>1, <2>4 DEF Waits
  <2> QED BY <2>1, <2>2, <2>3, <2>4 DEF Waits
<1> QED BY <1>3 DEF Callers

(* Any other step but the caller's own leaves alone what it waits for. *)
LEMMA CallersOthers ==
  ASSUME Typed, Callers, [Next]_vars, ~ PopCommand, ~ NotifyCaller,
         ~ \E t \in Producers : Enqueue(t)
  PROVE  Callers'
<1>1. ASSUME UNCHANGED <<stored, popped>>,
             NEW t \in Producers,
             \A u \in Producers : pc'[u] = "awaitDone" =>
               pc[u] = "awaitDone" /\ completeEvent'[u] = completeEvent[u]
      PROVE  Callers'
  BY <1>1 DEF Callers, Waits
<1>2. pc \in [Producers -> {"out", "push", "awaitRoom", "awaitDone"}]
      /\ completeEvent \in [Producers -> E!Events]
  BY DEF Typed, TypeOK
<1>3. ASSUME NEW t \in Producers, PushCall(t) \/ PushExitCommand(t) \/ Push(t)
      PROVE  Callers'
  <2>1. UNCHANGED <<stored, popped>>
    BY <1>3 DEF PushCall, PushExitCommand, Push, Refuse, Block, WaitForRoom, WaitForCall
  <2>2. \A u \in Producers : pc'[u] = "awaitDone" => pc[u] = "awaitDone"
    BY <1>2, <1>3 DEF PushCall, PushExitCommand, Push, Refuse, Block, WaitForRoom, WaitForCall
  <2>3. \A u \in Producers : pc'[u] = "awaitDone" => completeEvent'[u] = completeEvent[u]
    BY <1>2, <1>3 DEF PushCall, PushExitCommand, Push, Refuse, Block, WaitForRoom, WaitForCall
  <2> QED BY <1>1, <2>1, <2>2, <2>3
<1>4. CASE Execute \/ FindNothing \/ Poll \/ UNCHANGED vars
  <2>1. UNCHANGED <<stored, popped, pc, completeEvent>>
    BY <1>4 DEF Execute, FindNothing, Poll, vars
  <2> QED BY <2>1 DEF Callers, Waits
<1> QED BY <1>3, <1>4 DEF Next, Run

LEMMA CallersKept == Spec => []Callers
<1>1. Init => Callers
  BY DEF Init, Callers
<1>2. Typed /\ Shape /\ Callers /\ [Next]_vars => Callers'
  BY CallersEnqueue, CallersPop, CallersNotify, CallersOthers
<1> QED BY <1>1, <1>2, WellTyped, PTL DEF Spec

(* When the consumer has left its loop every accepted command has run, and *)
(* every thread that waits for one has been told.                          *)
THEOREM NothingIsLeftBehind == Spec => []NothingLeftBehind
<1>1. Typed /\ Exits /\ Callers => NothingLeftBehind
  <2> SUFFICES ASSUME Typed, Exits, Callers, consumer = "exited"
               PROVE  /\ stored = <<>>
                      /\ \A t \in Producers : pc[t] = "awaitDone" => E!IsSet(completeEvent[t])
    BY DEF NothingLeftBehind
  <2>1. stored = <<>> /\ popped = NoCommand
    BY DEF Exits, Typed, Holding
  <2>2. \A t \in Producers : ~ HasCall(popped, t)
    BY <2>1 DEF HasCall
  <2>3. \A i \in 1 .. Len(stored) : FALSE
    BY <2>1
  <2> QED BY <2>1, <2>2, <2>3 DEF Callers, Waits
<1> QED BY <1>1, WellTyped, ExitsKept, CallersKept, PTL

-----------------------------------------------------------------------------
(* Every step is one of CallQueue's, or none. *)

(* An event that is set is set for one thread only, and the exit command   *)
(* has set its flag when its pusher is told.                               *)
Signals ==
  /\ \A t \in Producers : completeEvent[t] \in {E!NewEvent, E!PulseEvent}
  /\ consumer = "notify" /\ popped.ExitFlag => ExitProcessed

LEMMA SignalsKept == Spec => []Signals
<1>1. Init => Signals
  BY DEF Init, Signals
<1>2. Typed /\ Signals /\ [Next]_vars => Signals'
  <2> SUFFICES ASSUME Typed, Signals, [Next]_vars PROVE Signals'
    OBVIOUS
  <2>0. completeEvent \in [Producers -> E!Events]
    BY DEF Typed, TypeOK
  <2>1. ASSUME NEW t \in Producers, WaitForCall(t) PROVE Signals'
    <3>1. UNCHANGED <<consumer, popped, ExitProcessed>>
      BY <2>1 DEF WaitForCall
    <3>2. \A u \in Producers : completeEvent'[u] \in {completeEvent[u], E!NewEvent}
      BY <2>0, <2>1 DEF WaitForCall, E!AfterWait
    <3> QED BY <3>1, <3>2 DEF Signals
  <2>2. CASE NotifyCaller
    <3>1. \A u \in Producers : completeEvent'[u] \in {completeEvent[u], E!PulseEvent}
      BY <2>0, <2>2 DEF NotifyCaller
    <3> QED BY <2>2, <3>1 DEF NotifyCaller, Signals
  <2>3. CASE Execute
    BY <2>3 DEF Execute, Signals
  <2>4. ASSUME UNCHANGED completeEvent,
               consumer' = "notify" => UNCHANGED <<consumer, popped, ExitProcessed>>
        PROVE  Signals'
    BY <2>4 DEF Signals
  <2>5. ASSUME NEW t \in Producers,
               PushCall(t) \/ PushExitCommand(t) \/ Refuse(t) \/ Enqueue(t) \/ Block(t) \/ WaitForRoom(t)
        PROVE  Signals'
    BY <2>4, <2>5 DEF PushCall, PushExitCommand, Refuse, Enqueue, Block, WaitForRoom
  <2>6. CASE PopCommand \/ FindNothing \/ Poll \/ UNCHANGED vars
    BY <2>4, <2>6 DEF PopCommand, FindNothing, Poll, vars
  <2> QED BY <2>1, <2>2, <2>3, <2>5, <2>6 DEF Next, Run, Push
<1> QED BY <1>1, <1>2, WellTyped, PTL DEF Spec

LEMMA CommandsOf ==
  ASSUME NEW s \in Seq(Chunks), NEW q, q = [i \in 1 .. Len(s) |-> s[i].command]
  PROVE  /\ q \in Seq(Commands) /\ Len(q) = Len(s) /\ Len(s) \in Nat
         /\ \A i \in 1 .. Len(s) : q[i] = s[i].command
<1>1. Len(s) \in Nat
  BY LenProperties
<1>2. \A i \in 1 .. Len(s) : s[i].command \in Commands
  <2>1. \A i \in 1 .. Len(s) : s[i] \in Chunks
    BY ElementOfSeq
  <2> QED BY <2>1 DEF Chunks
<1>3. q \in [1 .. Len(s) -> Commands]
  BY <1>2
<1>4. q \in Seq(Commands)
  BY <1>1, <1>3, SeqDef
<1>5. DOMAIN q = 1 .. Len(s) /\ DOMAIN q = 1 .. Len(q) /\ Len(q) \in Nat
  BY <1>3, <1>4, LenProperties
<1> QED BY <1>1, <1>4, <1>5

LEMMA AcceptedIsASeq ==
  ASSUME Typed
  PROVE  /\ accepted \in Seq(Commands) /\ Len(accepted) = Len(stored) /\ Len(stored) \in Nat
         /\ \A i \in 1 .. Len(stored) : accepted[i] = stored[i].command
<1>1. accepted = [i \in 1 .. Len(stored) |-> stored[i].command]
  BY DEF accepted
<1> QED BY <1>1, TypeOKFacts, CommandsOf

LEMMA AcceptedStaysASeq ==
  ASSUME stored' \in Seq(Chunks)
  PROVE  /\ accepted' \in Seq(Commands) /\ Len(accepted') = Len(stored')
         /\ \A i \in 1 .. Len(stored') : accepted'[i] = stored'[i].command
<1>1. accepted' = [i \in 1 .. Len(stored') |-> stored'[i].command]
  BY DEF accepted
<1> QED BY <1>1, CommandsOf

LEMMA CallsInit == Init => Calls!Init
BY DEF Init, Calls!Init, accepted, phase, told, E!IsSet, E!NewEvent

LEMMA EnqueueAccepts ==
  ASSUME Typed, Shape, NEW t \in Producers, Enqueue(t)
  PROVE  Calls!Accept(t)
<1> DEFINE c == command[t]
           chunk == [at |-> Place(CommandBuffer, Need(t)), command |-> c]
<1>1. /\ c \in Commands /\ c.from = t /\ pc[t] = "push" /\ (ExitEnqueued => c.ExitFlag)
      /\ c.WaitFlag \in BOOLEAN /\ stored' = Append(stored, chunk)
      /\ UNCHANGED <<popped, completeEvent, ExitEnqueued, ExitProcessed>>
      /\ pc' = [pc EXCEPT ![t] = IF c.WaitFlag THEN "awaitDone" ELSE "out"]
      /\ command' = [command EXCEPT ![t] = NoCommand]
      /\ pc \in [Producers -> {"out", "push", "awaitRoom", "awaitDone"}]
      /\ command \in [Producers -> Commands \cup {NoCommand}]
  BY TypeOKFacts, CommandSize DEF Enqueue, Refused, Typed, TypeOK
<1>2. accepted' = Append(accepted, c)
  <2>1. /\ Len(stored') = Len(stored) + 1 /\ stored'[Len(stored) + 1].command = c
        /\ \A i \in 1 .. Len(stored) : stored'[i] = stored[i]
    <3>1. stored \in Seq(Chunks)
      BY TypeOKFacts
    <3>2. /\ Len(stored') = Len(stored) + 1 /\ stored'[Len(stored) + 1] = chunk
          /\ \A i \in 1 .. Len(stored) : stored'[i] = stored[i]
      BY <1>1, <3>1, AppendProperties
    <3> QED BY <3>2
  <2>2. stored' \in Seq(Chunks)
    BY EnqueueKeeps DEF Typed, TypeOK, Chunks
  <2>3. /\ accepted' \in Seq(Commands) /\ Len(accepted') = Len(stored')
        /\ \A i \in 1 .. Len(stored') : accepted'[i] = stored'[i].command
    BY <2>2, AcceptedStaysASeq
  <2> HIDE DEF c
  <2>4. /\ Append(accepted, c) \in Seq(Commands) /\ Len(Append(accepted, c)) = Len(stored) + 1
        /\ \A i \in 1 .. Len(stored) : Append(accepted, c)[i] = accepted[i]
        /\ Append(accepted, c)[Len(stored) + 1] = c
    BY <1>1, AcceptedIsASeq, AppendProperties
  <2>5. \A i \in 1 .. Len(stored') : accepted'[i] = Append(accepted, c)[i]
    BY <2>1, <2>3, <2>4, AcceptedIsASeq
  <2> QED BY <2>1, <2>3, <2>4, <2>5, SeqEqual
<1>3. phase[t] = IF c.ExitFlag THEN "closing" ELSE "calling"
  BY <1>1 DEF phase
<1>4. phase' = [phase EXCEPT ![t] = IF c.WaitFlag THEN "waiting" ELSE "out"]
  <2>1. \A u \in Producers : u # t => pc'[u] = pc[u] /\ command'[u] = command[u]
    BY <1>1
  <2>2. pc'[t] = IF c.WaitFlag THEN "awaitDone" ELSE "out"
    BY <1>1
  <2> HIDE DEF c
  <2> QED BY <2>1, <2>2 DEF phase
<1>5. told' = told
  BY <1>1 DEF told
<1> QED BY <1>1, <1>2, <1>3, <1>4, <1>5 DEF Calls!Accept

LEMMA PopStarts ==
  ASSUME Typed, Shape, Exits, PopCommand
  PROVE  Calls!Start
<1>1. /\ stored \in Seq(Chunks) /\ stored # <<>> /\ stored' = Tail(stored)
      /\ popped = NoCommand /\ popped' = stored[1].command
      /\ UNCHANGED <<pc, command, completeEvent, ExitEnqueued, ExitProcessed>>
  BY TypeOKFacts, ShapedApart DEF PopCommand, Shape, Typed, Holding
<1>2. /\ Len(stored) \in Nat /\ Len(stored) >= 1 /\ Len(stored') = Len(stored) - 1
      /\ \A i \in 1 .. Len(stored') : stored'[i] = stored[i + 1]
  <2>1. Len(stored) \in Nat /\ Len(stored) >= 1
    BY <1>1, EmptySeq, LenProperties
  <2>2. Len(stored') = Len(stored) - 1
    BY <1>1, HeadTailProperties
  <2>3. \A i \in 1 .. Len(stored') : stored'[i] = stored[i + 1]
    BY <1>1, HeadTailProperties
  <2> QED BY <2>1, <2>2, <2>3
<1>3. /\ accepted \in Seq(Commands) /\ Len(accepted) = Len(stored)
      /\ \A i \in 1 .. Len(stored) : accepted[i] = stored[i].command
  BY AcceptedIsASeq
<1>4. accepted # <<>>
  BY <1>2, <1>3, EmptySeq
<1>5. Head(accepted) = popped'
  <2>1. Head(accepted) = accepted[1]
    BY <1>3
  <2> QED BY <1>1, <1>2, <1>3, <2>1
<1>6. accepted' = Tail(accepted)
  <2>1. stored' \in Seq(Chunks)
    BY PopKeeps DEF Typed, TypeOK, Chunks
  <2>2. /\ accepted' \in Seq(Commands) /\ Len(accepted') = Len(stored')
        /\ \A i \in 1 .. Len(stored') : accepted'[i] = stored'[i].command
    BY <2>1, AcceptedStaysASeq
  <2>3. Tail(accepted) \in Seq(Commands) /\ Len(Tail(accepted)) = Len(accepted) - 1
    BY <1>3, <1>4, HeadTailProperties
  <2>4. \A i \in 1 .. Len(Tail(accepted)) : Tail(accepted)[i] = accepted[i + 1]
    BY <1>3, <1>4, HeadTailProperties
  <2>5. \A i \in 1 .. Len(stored') : accepted'[i] = Tail(accepted)[i]
    BY <1>2, <1>3, <2>2, <2>3, <2>4
  <2> QED BY <1>2, <1>3, <2>2, <2>3, <2>5, SeqEqual
<1>7. ~ ExitProcessed
  BY <1>1 DEF Exits
<1>8. UNCHANGED <<phase, told>>
  BY <1>1 DEF phase, told
<1> QED BY <1>1, <1>4, <1>5, <1>6, <1>7, <1>8 DEF Calls!Start

LEMMA NotifyFinishes ==
  ASSUME Typed, Signals, NotifyCaller
  PROVE  Calls!Finish
<1>1. /\ popped # NoCommand /\ popped \in Commands /\ (popped.ExitFlag => ExitProcessed)
      /\ UNCHANGED <<stored, pc, command, ExitEnqueued, ExitProcessed>> /\ popped' = NoCommand
      /\ completeEvent \in [Producers -> E!Events]
      /\ completeEvent' = IF popped.WaitFlag
                          THEN [completeEvent EXCEPT ![popped.from] = E!PulseEvent]
                          ELSE completeEvent
  BY DEF NotifyCaller, Typed, TypeOK, Holding, Signals
<1>2. told' = IF popped.WaitFlag THEN [told EXCEPT ![popped.from] = TRUE] ELSE told
  BY <1>1 DEF told, E!IsSet, E!PulseEvent
<1>3. UNCHANGED <<accepted, phase>>
  BY <1>1 DEF accepted, phase
<1> QED BY <1>1, <1>2, <1>3 DEF Calls!Finish

LEMMA ThreadStepsMap ==
  ASSUME Typed, Signals, NEW t \in Producers
  PROVE  /\ PushCall(t) => Calls!Call(t)
         /\ PushExitCommand(t) => Calls!Close(t)
         /\ Refuse(t) => Calls!Refuse(t)
         /\ WaitForCall(t) => Calls!Return(t)
         /\ Block(t) \/ WaitForRoom(t) => UNCHANGED Calls!vars
<1>0. /\ pc \in [Producers -> {"out", "push", "awaitRoom", "awaitDone"}]
      /\ command \in [Producers -> Commands \cup {NoCommand}]
      /\ completeEvent \in [Producers -> E!Events]
  BY DEF Typed, TypeOK
<1>1. ASSUME PushCall(t) PROVE Calls!Call(t)
  <2>1. PICK c \in [from : {t}, Size : { k.Size : k \in Kinds }, WaitFlag : BOOLEAN, ExitFlag : {FALSE}] :
          command' = [command EXCEPT ![t] = c]
    BY <1>1, SizesArePositive DEF PushCall
  <2>2. pc[t] = "out" /\ pc' = [pc EXCEPT ![t] = "push"]
        /\ UNCHANGED <<stored, popped, completeEvent, ExitEnqueued, ExitProcessed>>
    BY <1>1 DEF PushCall
  <2>3. phase[t] = "out" /\ phase' = [phase EXCEPT ![t] = "calling"]
    BY <1>0, <2>1, <2>2 DEF phase
  <2> QED BY <2>2, <2>3 DEF Calls!Call, accepted, told
<1>2. ASSUME PushExitCommand(t) PROVE Calls!Close(t)
  <2>1. PICK w \in BOOLEAN : command' = [command EXCEPT ![t] =
          [from |-> t, Size |-> ExitSize, WaitFlag |-> w, ExitFlag |-> TRUE]]
    BY <1>2 DEF PushExitCommand
  <2>2. pc[t] = "out" /\ pc' = [pc EXCEPT ![t] = "push"] /\ ~ ExitEnqueued /\ ExitEnqueued' = TRUE
        /\ UNCHANGED <<stored, popped, completeEvent, ExitProcessed>>
    BY <1>2 DEF PushExitCommand
  <2>3. phase[t] = "out" /\ phase' = [phase EXCEPT ![t] = "closing"]
    BY <1>0, <2>1, <2>2 DEF phase
  <2> QED BY <2>2, <2>3 DEF Calls!Close, accepted, told
<1>3. ASSUME Refuse(t) PROVE Calls!Refuse(t)
  <2>1. pc[t] = "push" /\ ExitEnqueued /\ ~ command[t].ExitFlag
        /\ pc' = [pc EXCEPT ![t] = "out"] /\ command' = [command EXCEPT ![t] = NoCommand]
        /\ UNCHANGED <<stored, popped, completeEvent, ExitEnqueued, ExitProcessed>>
    BY <1>3 DEF Refuse, Refused
  <2>2. phase[t] = "calling" /\ phase' = [phase EXCEPT ![t] = "out"]
    BY <1>0, <2>1 DEF phase
  <2> QED BY <2>1, <2>2 DEF Calls!Refuse, accepted, told
<1>4. ASSUME WaitForCall(t) PROVE Calls!Return(t)
  <2>1. pc[t] = "awaitDone" /\ E!IsSet(completeEvent[t])
        /\ completeEvent' = [completeEvent EXCEPT ![t] = E!AfterWait(@)]
        /\ pc' = [pc EXCEPT ![t] = "out"]
        /\ UNCHANGED <<stored, popped, command, ExitEnqueued, ExitProcessed>>
    BY <1>4 DEF WaitForCall
  <2>2. phase[t] = "waiting" /\ phase' = [phase EXCEPT ![t] = "out"]
    BY <1>0, <2>1 DEF phase
  <2>3. E!IsSet(completeEvent'[t]) = FALSE
    BY <1>0, <2>1 DEF Signals, E!AfterWait, E!IsSet, E!NewEvent, E!PulseEvent
  <2>4. told[t] /\ told' = [told EXCEPT ![t] = FALSE]
    <3>1. told[t]
      BY <2>1 DEF told
    <3>2. \A u \in Producers : u # t => completeEvent'[u] = completeEvent[u]
      BY <1>0, <2>1
    <3> QED BY <2>3, <3>1, <3>2 DEF told
  <2> QED BY <2>1, <2>2, <2>4 DEF Calls!Return, accepted
<1>5. ASSUME Block(t) \/ WaitForRoom(t) PROVE UNCHANGED Calls!vars
  <2>1. UNCHANGED <<stored, popped, command, completeEvent, ExitEnqueued, ExitProcessed>>
    BY <1>5 DEF Block, WaitForRoom
  <2>2. pc[t] \in {"push", "awaitRoom"}
        /\ \/ pc' = [pc EXCEPT ![t] = "push"]
           \/ pc' = [pc EXCEPT ![t] = "awaitRoom"]
    BY <1>5 DEF Block, WaitForRoom
  <2>3. phase' = phase
    BY <1>0, <2>1, <2>2 DEF phase
  <2> QED BY <2>1, <2>3 DEF Calls!vars, accepted, told
<1> QED BY <1>1, <1>2, <1>3, <1>4, <1>5

LEMMA StepMaps ==
  ASSUME Typed, Shape, Exits, Signals, [Next]_vars
  PROVE  [Calls!Next]_(Calls!vars)
<1>1. ASSUME NEW t \in Producers, PushCall(t) \/ PushExitCommand(t) \/ Push(t)
      PROVE  [Calls!Next]_(Calls!vars)
  BY <1>1, ThreadStepsMap, EnqueueAccepts DEF Push, Calls!Next
<1>2. CASE PopCommand
  BY <1>2, PopStarts DEF Calls!Next
<1>3. CASE NotifyCaller
  BY <1>3, NotifyFinishes DEF Calls!Next
<1>4. CASE Execute
  <2>1. popped # NoCommand /\ popped \in Commands
        /\ ExitProcessed' = (ExitProcessed \/ popped.ExitFlag)
        /\ UNCHANGED <<stored, popped, pc, command, completeEvent, ExitEnqueued>>
    BY <1>4 DEF Execute, Typed, TypeOK, Holding
  <2>2. UNCHANGED <<accepted, phase, told>>
    BY <2>1 DEF accepted, phase, told
  <2>3. CASE popped.ExitFlag
    BY <2>1, <2>2, <2>3 DEF Calls!Next, Calls!End
  <2>4. CASE ~ popped.ExitFlag
    <3>1. ExitProcessed' = ExitProcessed
      BY <2>1, <2>4 DEF Typed, TypeOK
    <3> QED BY <2>1, <2>2, <3>1 DEF Calls!vars
  <2> QED BY <2>3, <2>4
<1>5. CASE FindNothing \/ Poll \/ UNCHANGED vars
  <2>1. UNCHANGED <<stored, popped, pc, command, completeEvent, ExitEnqueued, ExitProcessed>>
    BY <1>5 DEF FindNothing, Poll, vars
  <2> QED BY <2>1 DEF Calls!vars, accepted, phase, told
<1> QED BY <1>1, <1>2, <1>3, <1>4, <1>5 DEF Next, Run

(* The buffer, the events and the pipe do what CallQueue promises: calls   *)
(* run one at a time in the order they were accepted, none after the exit  *)
(* was announced, and nobody goes on before its call has run.              *)
THEOREM QueueRunsCallsInOrder == Spec => RunsCallsInOrder
<1>1. Typed /\ Shape /\ Exits /\ Signals /\ [Next]_vars => [Calls!Next]_(Calls!vars)
  BY StepMaps
<1> QED BY <1>1, CallsInit, WellTyped, ExitsKept, SignalsKept, PTL
        DEF Spec, RunsCallsInOrder, Calls!InOrder
=============================================================================
