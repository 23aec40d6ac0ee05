--------------------------- MODULE CircularBuffer ---------------------------
(***************************************************************************)
(* CircularBuffer of OVR_ThreadCommandQueue.cpp: one block of Size bytes   *)
(* that holds chunks of different sizes in the order they were written.  A *)
(* chunk is never split: one that does not fit behind Head starts over at  *)
(* 0, and End then remembers where the chunks before it stopped.  Operators*)
(* on a record of the three offsets; sizes are those already rounded up.   *)
(***************************************************************************)
EXTENDS Integers

CONSTANT Size     \* 2048 in ThreadCommandQueueImpl

ASSUME SizeIsPositive == Size \in Nat \ {0}

AlignSize == 16

roundUpSize(size) == ((size + AlignSize - 1) \div AlignSize) * AlignSize

Offsets == [Tail : 0 .. Size, Head : 0 .. Size, End : 0 .. Size]

EmptyBuffer == [Tail |-> 0, Head |-> 0, End |-> 0]

IsEmpty(b) == b.Head = b.Tail

(* A bug to compare with: the gap before Tail is counted as if a chunk     *)
(* could be split.                                                         *)
FitsAroundHead(b, n) ==
  IF b.Head >= b.Tail THEN n <= Size - b.Head + b.Tail ELSE b.Tail - b.Head > n

(* Write's first branch and its third: there is room where Head stands. *)
FitsAtHead(b, n) ==
  IF b.Head >= b.Tail THEN n <= Size - b.Head ELSE b.Tail - b.Head > n

(* A bug to compare with: the chunk may fill the gap before Tail, and a    *)
(* full buffer then looks like an empty one.                               *)
FitsAtStartExactly(b, n) == b.Head >= b.Tail /\ n > Size - b.Head /\ n <= b.Tail

(* Write's second branch: there is room before Tail. *)
FitsAtStart(b, n) == b.Head >= b.Tail /\ n > Size - b.Head /\ n < b.Tail

HasRoom(b, n) == FitsAtHead(b, n) \/ FitsAtStart(b, n)

(* Where a chunk that HasRoom is written, and the offsets after it. *)
Place(b, n) == IF FitsAtHead(b, n) THEN b.Head ELSE 0

Written(b, n) ==
  IF FitsAtHead(b, n)
  THEN [b EXCEPT !.Head = @ + n]
  ELSE [b EXCEPT !.End = b.Head, !.Head = n]

(* ReadEnd. *)
Consumed(b, n) ==
  IF b.Tail + n = b.End
  THEN [b EXCEPT !.Tail = 0, !.End = 0]
  ELSE IF b.Tail + n = b.Head
  THEN [b EXCEPT !.Tail = 0, !.Head = 0]
  ELSE [b EXCEPT !.Tail = @ + n]
=============================================================================
