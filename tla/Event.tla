------------------------------- MODULE Event -------------------------------
(***************************************************************************)
(* Event of Kernel/OVR_Threads.h and OVR_ThreadsPthread.cpp: what a thread *)
(* waits on until another sets it.  A pulsed event stays set until the     *)
(* first thread has come in, so that a pulse before the wait is not lost.  *)
(* Each operator is the body of one method, run under StateMutex.          *)
(***************************************************************************)
Events == [State : BOOLEAN, Temporary : BOOLEAN]

NewEvent == [State |-> FALSE, Temporary |-> FALSE]

SetEvent == [State |-> TRUE, Temporary |-> FALSE]

PulseEvent == [State |-> TRUE, Temporary |-> TRUE]

(* An infinite Wait goes on only when State is set ... *)
IsSet(e) == e.State

(* ... and leaves the event like this. *)
AfterWait(e) == IF e.Temporary THEN NewEvent ELSE e
=============================================================================
