----------------------------- MODULE CallQueue -----------------------------
(***************************************************************************)
(* What OVR_ThreadCommandQueue.h promises: calls made by many threads are  *)
(* run one after the other, in the order they were accepted, by a single   *)
(* consumer; a thread that asked to wait goes on once its call has run;    *)
(* after the exit call is announced no other is accepted, and those        *)
(* accepted before it still run.  No buffer, no event and no pipe here.    *)
(***************************************************************************)
EXTENDS Sequences

CONSTANTS Producers, Commands, NoCommand

VARIABLES
  queue,     \* the accepted commands that wait to be run
  running,   \* the command being run, or NoCommand
  phase,     \* of each thread: out of any call, "calling", announcing the exit
             \* ("closing") or "waiting" for an accepted call to run
  done,      \* whether the call a thread waits for has run
  closed,    \* the exit call has been announced
  ended      \* the exit call has run

vars == <<queue, running, phase, done, closed, ended>>

Init ==
  /\ queue = <<>>
  /\ running = NoCommand
  /\ phase = [t \in Producers |-> "out"]
  /\ done = [t \in Producers |-> FALSE]
  /\ closed = FALSE
  /\ ended = FALSE

Call(t) ==
  /\ phase[t] = "out"
  /\ phase' = [phase EXCEPT ![t] = "calling"]
  /\ UNCHANGED <<queue, running, done, closed, ended>>

Close(t) ==
  /\ ~ closed
  /\ phase[t] = "out"
  /\ closed' = TRUE
  /\ phase' = [phase EXCEPT ![t] = "closing"]
  /\ UNCHANGED <<queue, running, done, ended>>

Accept(t) ==
  /\ \E c \in Commands :
       /\ c.from = t
       /\ \/ phase[t] = "calling" /\ ~ closed /\ ~ c.ExitFlag
          \/ phase[t] = "closing" /\ c.ExitFlag
       /\ queue' = Append(queue, c)
       /\ phase' = [phase EXCEPT ![t] = IF c.WaitFlag THEN "waiting" ELSE "out"]
  /\ UNCHANGED <<running, done, closed, ended>>

Refuse(t) ==
  /\ closed
  /\ phase[t] = "calling"
  /\ phase' = [phase EXCEPT ![t] = "out"]
  /\ UNCHANGED <<queue, running, done, closed, ended>>

Start ==
  /\ running = NoCommand
  /\ ~ ended
  /\ queue # <<>>
  /\ running' = Head(queue)
  /\ queue' = Tail(queue)
  /\ UNCHANGED <<phase, done, closed, ended>>

Finish ==
  /\ running # NoCommand
  /\ running.ExitFlag => ended
  /\ running' = NoCommand
  /\ done' = IF running.WaitFlag THEN [done EXCEPT ![running.from] = TRUE] ELSE done
  /\ UNCHANGED <<queue, phase, closed, ended>>

(* The exit call ends the queue while it runs. *)
End ==
  /\ running # NoCommand
  /\ running.ExitFlag
  /\ ended' = TRUE
  /\ UNCHANGED <<queue, running, phase, done, closed>>

Return(t) ==
  /\ phase[t] = "waiting"
  /\ done[t]
  /\ done' = [done EXCEPT ![t] = FALSE]
  /\ phase' = [phase EXCEPT ![t] = "out"]
  /\ UNCHANGED <<queue, running, closed, ended>>

Next ==
  \/ Start \/ Finish \/ End
  \/ \E t \in Producers : Call(t) \/ Close(t) \/ Accept(t) \/ Refuse(t) \/ Return(t)

InOrder == Init /\ [][Next]_vars

(* What was accepted is run, and who waits for it is told. *)
AllRun ==
  /\ WF_vars(Start) /\ WF_vars(Finish)
  /\ \A t \in Producers : WF_vars(Return(t))

Spec == InOrder /\ AllRun
=============================================================================
