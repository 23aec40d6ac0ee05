------------------------- MODULE ThreadCommandQueue -------------------------
(***************************************************************************)
(* OVR_ThreadCommandQueue.cpp with the loop of the thread that serves it   *)
(* (DeviceManagerThread::Run): any thread pushes calls into a circular     *)
(* buffer and may wait until they have run; a thread that finds no room    *)
(* waits for a pop to pulse its event; the consumer sleeps in poll until a *)
(* byte in a pipe says that an empty buffer has been written to.  One      *)
(* action per scope of QueueLock and per wait.                             *)
(***************************************************************************)
EXTENDS CircularBuffer, Sequences

CONSTANTS
  Producers,
  Kinds,       \* the calls pushed: [Size, WaitFlag], the size as sizeof gives it
  ExitSize,    \* sizeof(ExitCommand)
  ReadSize,    \* bytes Run reads from the pipe at once: 128
  PipeLimit,   \* a bound on unread wake-ups: 65536 bytes fit in a pipe
  NoCommand

ASSUME SizesArePositive ==
  /\ ExitSize \in Nat \ {0}
  /\ Kinds \subseteq [Size : Nat \ {0}, WaitFlag : BOOLEAN]
(* Write asserts it: there is always room for one command when it is empty. *)
ASSUME CommandsAreShort ==
  \A n \in { k.Size : k \in Kinds } \cup {ExitSize} : 2 * roundUpSize(n) < Size
ASSUME PipeIsReadInPieces == ReadSize \in Nat \ {0} /\ PipeLimit \in Nat

Commands ==
  [ from : Producers,
    Size : { k.Size : k \in Kinds } \cup {ExitSize},
    WaitFlag : BOOLEAN,
    ExitFlag : BOOLEAN ]

ASSUME NoCommandIsNone == NoCommand \notin Commands

VARIABLES
  CommandBuffer,         \* the offsets of the circular buffer
  stored,                \* the commands in it, oldest first, and where each lies
  BlockedProducers,      \* the threads whose event waits for room, oldest first
  queueAvailableEvent,   \* the event each thread waits for room on
  completeEvent,         \* the event each thread waits for its call on
  pc,                    \* where each thread stands in PushCommand
  command,               \* the command it is pushing
  ExitEnqueued, ExitProcessed,
  pipe,                  \* the bytes in CommandFd
  consumer,              \* where the thread that serves the queue stands in Run
  popped                 \* its PopBuffer

vars == << CommandBuffer, stored, BlockedProducers, queueAvailableEvent, completeEvent,
           pc, command, ExitEnqueued, ExitProcessed, pipe, consumer, popped >>

E == INSTANCE Event

Init ==
  /\ CommandBuffer = EmptyBuffer
  /\ stored = <<>>
  /\ BlockedProducers = <<>>
  /\ queueAvailableEvent = [t \in Producers |-> E!NewEvent]
  /\ completeEvent = [t \in Producers |-> E!NewEvent]
  /\ pc = [t \in Producers |-> "out"]
  /\ command = [t \in Producers |-> NoCommand]
  /\ ExitEnqueued = FALSE
  /\ ExitProcessed = FALSE
  /\ pipe = 0
  /\ consumer = "pop"
  /\ popped = NoCommand

-----------------------------------------------------------------------------
(* The threads that push. *)

(* PushCall and its variants: a command of the caller's choice. *)
PushCall(t) ==
  /\ pc[t] = "out"
  /\ \E k \in Kinds :
       command' = [command EXCEPT ![t] =
         [from |-> t, Size |-> k.Size, WaitFlag |-> k.WaitFlag, ExitFlag |-> FALSE]]
  /\ pc' = [pc EXCEPT ![t] = "push"]
  /\ UNCHANGED << CommandBuffer, stored, BlockedProducers, queueAvailableEvent,
                  completeEvent, ExitEnqueued, ExitProcessed, pipe, consumer, popped >>

(* A bug to compare with: the exit command alone, and no flag before it. *)
PushExitCommandUnannounced(t) ==
  /\ ~ ExitEnqueued
  /\ pc[t] = "out"
  /\ \E w \in BOOLEAN :
       command' = [command EXCEPT ![t] =
         [from |-> t, Size |-> ExitSize, WaitFlag |-> w, ExitFlag |-> TRUE]]
  /\ pc' = [pc EXCEPT ![t] = "push"]
  /\ UNCHANGED << CommandBuffer, stored, BlockedProducers, queueAvailableEvent,
                  completeEvent, ExitEnqueued, ExitProcessed, pipe, consumer, popped >>

(* PushExitCommand, which returns at once the second time. *)
PushExitCommand(t) ==
  /\ ~ ExitEnqueued
  /\ pc[t] = "out"
  /\ ExitEnqueued' = TRUE
  /\ \E w \in BOOLEAN :
       command' = [command EXCEPT ![t] =
         [from |-> t, Size |-> ExitSize, WaitFlag |-> w, ExitFlag |-> TRUE]]
  /\ pc' = [pc EXCEPT ![t] = "push"]
  /\ UNCHANGED << CommandBuffer, stored, BlockedProducers, queueAvailableEvent,
                  completeEvent, ExitProcessed, pipe, consumer, popped >>

Refused(t) == ExitEnqueued /\ ~ command[t].ExitFlag

Need(t) == roundUpSize(command[t].Size)

(* PushCommand returns false: the queue is being shut down. *)
Refuse(t) ==
  /\ pc[t] = "push"
  /\ Refused(t)
  /\ pc' = [pc EXCEPT ![t] = "out"]
  /\ command' = [command EXCEPT ![t] = NoCommand]
  /\ UNCHANGED << CommandBuffer, stored, BlockedProducers, queueAvailableEvent,
                  completeEvent, ExitEnqueued, ExitProcessed, pipe, consumer, popped >>

(* A bug to compare with: whether the buffer is empty is asked after the   *)
(* write.                                                                  *)
OnPushNonEmptyAfterWrite(t) ==
  /\ IsEmpty(CommandBuffer') => pipe < PipeLimit
  /\ pipe' = IF IsEmpty(CommandBuffer') THEN pipe + 1 ELSE pipe

(* OnPushNonEmpty_Locked: a byte for the consumer if the buffer was empty. *)
OnPushNonEmpty_Locked(t) ==
  /\ IsEmpty(CommandBuffer) => pipe < PipeLimit
  /\ pipe' = IF IsEmpty(CommandBuffer) THEN pipe + 1 ELSE pipe

(* The command is copied into the buffer; without WaitFlag that is all. *)
Enqueue(t) ==
  /\ pc[t] = "push"
  /\ ~ Refused(t)
  /\ HasRoom(CommandBuffer, Need(t))
  /\ CommandBuffer' = Written(CommandBuffer, Need(t))
  /\ stored' = Append(stored, [at |-> Place(CommandBuffer, Need(t)), command |-> command[t]])
  /\ OnPushNonEmpty_Locked(t)
  /\ pc' = [pc EXCEPT ![t] = IF command[t].WaitFlag THEN "awaitDone" ELSE "out"]
  /\ command' = [command EXCEPT ![t] = NoCommand]
  /\ UNCHANGED << BlockedProducers, queueAvailableEvent, completeEvent,
                  ExitEnqueued, ExitProcessed, consumer, popped >>

Block(t) ==
  /\ pc[t] = "push"
  /\ ~ Refused(t)
  /\ ~ HasRoom(CommandBuffer, Need(t))
  /\ BlockedProducers' = Append(BlockedProducers, t)
  /\ pc' = [pc EXCEPT ![t] = "awaitRoom"]
  /\ UNCHANGED << CommandBuffer, stored, queueAvailableEvent, completeEvent, command,
                  ExitEnqueued, ExitProcessed, pipe, consumer, popped >>

(* queueAvailableEvent->Wait() returns and the loop tries again. *)
WaitForRoom(t) ==
  /\ pc[t] = "awaitRoom"
  /\ E!IsSet(queueAvailableEvent[t])
  /\ queueAvailableEvent' = [queueAvailableEvent EXCEPT ![t] = E!AfterWait(@)]
  /\ pc' = [pc EXCEPT ![t] = "push"]
  /\ UNCHANGED << CommandBuffer, stored, BlockedProducers, completeEvent, command,
                  ExitEnqueued, ExitProcessed, pipe, consumer, popped >>

(* completeEvent->Wait() returns and so does PushCommand. *)
WaitForCall(t) ==
  /\ pc[t] = "awaitDone"
  /\ E!IsSet(completeEvent[t])
  /\ completeEvent' = [completeEvent EXCEPT ![t] = E!AfterWait(@)]
  /\ pc' = [pc EXCEPT ![t] = "out"]
  /\ UNCHANGED << CommandBuffer, stored, BlockedProducers, queueAvailableEvent, command,
                  ExitEnqueued, ExitProcessed, pipe, consumer, popped >>

-----------------------------------------------------------------------------
(* The thread that serves the queue. *)

(* A bug to compare with: a thread is told only while more is left to pop. *)
WakeOneUnlessLast ==
  IF BlockedProducers = <<>> \/ Len(stored) = 1
  THEN UNCHANGED <<BlockedProducers, queueAvailableEvent>>
  ELSE /\ BlockedProducers' = Tail(BlockedProducers)
       /\ queueAvailableEvent' =
            [queueAvailableEvent EXCEPT ![Head(BlockedProducers)] = E!PulseEvent]

(* The oldest blocked thread is told that there is room, whatever its need. *)
WakeOneProducer ==
  IF BlockedProducers = <<>>
  THEN UNCHANGED <<BlockedProducers, queueAvailableEvent>>
  ELSE /\ BlockedProducers' = Tail(BlockedProducers)
       /\ queueAvailableEvent' =
            [queueAvailableEvent EXCEPT ![Head(BlockedProducers)] = E!PulseEvent]

(* PopCommand with something to pop: the head of the buffer is copied out. *)
PopCommand ==
  /\ consumer = "pop"
  /\ ~ IsEmpty(CommandBuffer)
  /\ popped' = stored[1].command
  /\ stored' = Tail(stored)
  /\ CommandBuffer' = Consumed(CommandBuffer, roundUpSize(popped'.Size))
  /\ WakeOneProducer
  /\ consumer' = "execute"
  /\ UNCHANGED <<completeEvent, pc, command, ExitEnqueued, ExitProcessed, pipe>>

(* The command's own Execute; the exit command's sets ExitProcessed. *)
Execute ==
  /\ consumer = "execute"
  /\ ExitProcessed' = (ExitProcessed \/ popped.ExitFlag)
  /\ consumer' = "notify"
  /\ UNCHANGED << CommandBuffer, stored, BlockedProducers, queueAvailableEvent,
                  completeEvent, pc, command, ExitEnqueued, pipe, popped >>

(* The rest of PopBuffer::Execute, and Run's look at IsExiting. *)
NotifyCaller ==
  /\ consumer = "notify"
  /\ completeEvent' =
       IF popped.WaitFlag
       THEN [completeEvent EXCEPT ![popped.from] = E!PulseEvent]
       ELSE completeEvent
  /\ popped' = NoCommand
  /\ consumer' = IF ExitProcessed THEN "exited" ELSE "pop"
  /\ UNCHANGED << CommandBuffer, stored, BlockedProducers, queueAvailableEvent,
                  pc, command, ExitEnqueued, ExitProcessed, pipe >>

(* PopCommand on an empty buffer: OnPopEmpty_Locked does nothing. *)
FindNothing ==
  /\ consumer = "pop"
  /\ IsEmpty(CommandBuffer)
  /\ consumer' = "poll"
  /\ UNCHANGED << CommandBuffer, stored, BlockedProducers, queueAvailableEvent,
                  completeEvent, pc, command, ExitEnqueued, ExitProcessed, pipe, popped >>

(* poll returns for the pipe, and Run reads what it can of it. *)
Poll ==
  /\ consumer = "poll"
  /\ pipe > 0
  /\ pipe' = IF pipe > ReadSize THEN pipe - ReadSize ELSE 0
  /\ consumer' = "pop"
  /\ UNCHANGED << CommandBuffer, stored, BlockedProducers, queueAvailableEvent,
                  completeEvent, pc, command, ExitEnqueued, ExitProcessed, popped >>

Push(t) ==
  Refuse(t) \/ Enqueue(t) \/ Block(t) \/ WaitForRoom(t) \/ WaitForCall(t)

Run == PopCommand \/ Execute \/ NotifyCaller \/ FindNothing \/ Poll

Next == Run \/ \E t \in Producers : PushCall(t) \/ PushExitCommand(t) \/ Push(t)

(* The consumer runs on, and so does a thread inside a call: what stops    *)
(* them is only a wait, and a lock is held for a few steps at most.        *)
Spec ==
  /\ Init /\ [][Next]_vars
  /\ WF_vars(Run)
  /\ \A t \in Producers : WF_vars(Push(t))

-----------------------------------------------------------------------------
TypeOK ==
  /\ CommandBuffer \in Offsets
  /\ stored \in Seq([at : 0 .. Size, command : Commands])
  /\ BlockedProducers \in Seq(Producers)
  /\ queueAvailableEvent \in [Producers -> E!Events]
  /\ completeEvent \in [Producers -> E!Events]
  /\ pc \in [Producers -> {"out", "push", "awaitRoom", "awaitDone"}]
  /\ command \in [Producers -> Commands \cup {NoCommand}]
  /\ ExitEnqueued \in BOOLEAN /\ ExitProcessed \in BOOLEAN
  /\ pipe \in 0 .. PipeLimit
  /\ consumer \in {"pop", "execute", "notify", "poll", "exited"}
  /\ popped \in Commands \cup {NoCommand}

EndOf(c) == c.at + roundUpSize(c.command.Size)

(***************************************************************************)
(* The commands waiting in the buffer lie apart from each other and inside *)
(* it, and ReadBegin's offset is the oldest one's: none is overwritten     *)
(* before it has run, and an empty buffer is one without commands.         *)
(***************************************************************************)
CommandsApart ==
  /\ IsEmpty(CommandBuffer) <=> stored = <<>>
  /\ stored # <<>> => stored[1].at = CommandBuffer.Tail
  /\ \A i \in 1 .. Len(stored) : stored[i].at >= 0 /\ EndOf(stored[i]) <= Size
  /\ \A i, j \in 1 .. Len(stored) :
       i # j => EndOf(stored[i]) <= stored[j].at \/ EndOf(stored[j]) <= stored[i].at

(***************************************************************************)
(* Until the exit is announced no thread is left waiting for room that     *)
(* nobody will tell it of: either a command is still to be popped, or a    *)
(* thread already told is on its way to store one.                         *)
(***************************************************************************)
Told(t) == pc[t] = "awaitRoom" /\ E!IsSet(queueAvailableEvent[t])

RoomIsPassedOn ==
  BlockedProducers # <<>> /\ ~ ExitEnqueued =>
    stored # <<>> \/ \E t \in Producers : Told(t) \/ pc[t] = "push"

(***************************************************************************)
(* The consumer never sleeps on a buffer that holds a command: when it is  *)
(* at poll, or about to be, the pipe holds a byte for what was written     *)
(* since it found nothing.                                                 *)
(***************************************************************************)
NoSleepOnCommands == consumer = "poll" /\ stored # <<>> => pipe > 0

(***************************************************************************)
(* When the consumer has left its loop nothing is left in the buffer (the  *)
(* assertion of ~CircularBuffer) and every thread that waits for a call of *)
(* its own has been told of its end.                                       *)
(***************************************************************************)
NothingLeftBehind ==
  consumer = "exited" =>
    /\ stored = <<>>
    /\ \A t \in Producers : pc[t] = "awaitDone" => E!IsSet(completeEvent[t])

(* What CallQueue means by the state here. *)
accepted == [i \in 1 .. Len(stored) |-> stored[i].command]

phase == [t \in Producers |->
  IF pc[t] = "out" THEN "out"
  ELSE IF pc[t] = "awaitDone" THEN "waiting"
  ELSE IF command[t].ExitFlag THEN "closing" ELSE "calling"]

told == [t \in Producers |-> E!IsSet(completeEvent[t])]

Calls == INSTANCE CallQueue WITH
  queue <- accepted, running <- popped, phase <- phase, done <- told,
  closed <- ExitEnqueued, ended <- ExitProcessed

(***************************************************************************)
(* The queue runs accepted calls once each and in the order of acceptance, *)
(* accepts none after the exit is announced, and lets no caller return     *)
(* before its call has run: every step is one of CallQueue's, or none.     *)
(***************************************************************************)
RunsCallsInOrder == Calls!InOrder

(***************************************************************************)
(* Every call that was accepted is run in the end, those before the exit   *)
(* too, and its caller goes on: with RunsCallsInOrder, Calls!Spec.         *)
(***************************************************************************)
RunsAllCalls == Calls!AllRun

(***************************************************************************)
(* "The actual exit call is processed on the consumer thread, flushing any *)
(* prior commands" (OVR_ThreadCommandQueue.cpp:362-363): once announced,   *)
(* the exit is processed.                                                  *)
(***************************************************************************)
ExitIsProcessed == ExitEnqueued ~> ExitProcessed
=============================================================================
