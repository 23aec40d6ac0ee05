------------------------- MODULE YahooFinanceReader -------------------------
(***************************************************************************)
(* SourceReaders/YahooFinanceReader.cpp: a source that downloads a table   *)
(* into a file of /tmp with wget and hands it out through a FileReader.    *)
(* The file is never removed and its name depends on the ticker and the    *)
(* dates alone, so that it serves as a cache: of later readers in the same *)
(* process, of later runs, and of processes that run at the same time.     *)
(***************************************************************************)
EXTENDS Integers

CONSTANTS
  Clients,     \* processes that construct readers of one ticker, in a loop
  SIZE         \* the portions of the table at the server

ASSUME SizeOK == SIZE \in Nat \ {0}

VARIABLES
  file,        \* the portions in the file, or Absent
  pc,          \* [client -> what the constructor or the reading is at]
  got,         \* [client -> how many portions its wget has written]
  read,        \* [client -> how many portions its fileReader handed out]
  outcome,     \* [client -> what its last reader came to]
  spoilt,      \* a download did not come to its end since the file appeared
  overlapped   \* a client began while another was at work

vars == <<file, pc, got, read, outcome, spoilt, overlapped>>

Absent == {0}
Idle == [p \in Clients |-> "idle"]

Init ==
  /\ file = Absent
  /\ pc = Idle
  /\ got = [p \in Clients |-> 0]
  /\ read = [p \in Clients |-> 0]
  /\ outcome = [p \in Clients |-> "none"]
  /\ spoilt = FALSE
  /\ overlapped = FALSE

(* A bug to compare with: the table is downloaded for every reader. *)
ConstructAnew(p) ==
  /\ pc[p] = "idle"
  /\ pc' = [pc EXCEPT ![p] = "request"]
  /\ overlapped' = (overlapped \/ pc # Idle)
  /\ UNCHANGED <<file, got, read, outcome, spoilt>>

(* The file is looked for; a client that finds it goes on to open it. *)
Construct(p) ==
  /\ pc[p] = "idle"
  /\ pc' = [pc EXCEPT ![p] = IF file = Absent THEN "request" ELSE "open"]
  /\ overlapped' = (overlapped \/ pc # Idle)
  /\ UNCHANGED <<file, got, read, outcome, spoilt>>

(* A bug to compare with: what arrives is added to what is there. *)
RequestMore(p) ==
  /\ pc[p] = "request"
  /\ pc' = [pc EXCEPT ![p] = "wget"]
  /\ file' = file
  /\ got' = [got EXCEPT ![p] = 0]
  /\ UNCHANGED <<read, outcome, spoilt, overlapped>>

(* wget -O creates the file, or empties it, before it asks for anything. *)
Request(p) ==
  /\ pc[p] = "request"
  /\ pc' = [pc EXCEPT ![p] = "wget"]
  /\ file' = {}
  /\ got' = [got EXCEPT ![p] = 0]
  /\ UNCHANGED <<read, outcome, spoilt, overlapped>>

(* There is no wget, or it cannot create the file. *)
NoRequest(p) ==
  /\ pc[p] = "request"
  /\ pc' = [pc EXCEPT ![p] = "idle"]
  /\ outcome' = [outcome EXCEPT ![p] = "exception"]
  /\ UNCHANGED <<file, got, read, spoilt, overlapped>>

Arrive(p) ==
  /\ pc[p] = "wget" /\ got[p] < SIZE
  /\ got' = [got EXCEPT ![p] = @ + 1]
  /\ file' = file \cup {got'[p]}
  /\ UNCHANGED <<pc, read, outcome, spoilt, overlapped>>

(* A bug to compare with: the constructor does not wait for wget. *)
DownloadedInBackground(p) ==
  /\ pc[p] = "wget"
  /\ pc' = [pc EXCEPT ![p] = "open"]
  /\ UNCHANGED <<file, got, read, outcome, spoilt, overlapped>>

(* system() returns 0. *)
Downloaded(p) ==
  /\ pc[p] = "wget" /\ got[p] = SIZE
  /\ pc' = [pc EXCEPT ![p] = "open"]
  /\ UNCHANGED <<file, got, read, outcome, spoilt, overlapped>>

(* system() returns anything else: the constructor throws "Could not       *)
(* download data", and the file stays with what has arrived.               *)
Fail(p) ==
  /\ pc[p] = "wget"
  /\ pc' = [pc EXCEPT ![p] = "idle"]
  /\ outcome' = [outcome EXCEPT ![p] = "exception"]
  /\ spoilt' = TRUE
  /\ UNCHANGED <<file, got, read, overlapped>>

(* The process and its wget are killed. *)
Kill(p) ==
  /\ pc[p] # "idle"
  /\ pc' = [pc EXCEPT ![p] = "idle"]
  /\ outcome' = [outcome EXCEPT ![p] = "none"]
  /\ spoilt' = (spoilt \/ pc[p] = "wget")
  /\ UNCHANGED <<file, got, read, overlapped>>

(* new FileReader: the file is there, if only because of the download. *)
Open(p) ==
  /\ pc[p] = "open"
  /\ pc' = [pc EXCEPT ![p] = "read"]
  /\ read' = [read EXCEPT ![p] = 0]
  /\ UNCHANGED <<file, got, outcome, spoilt, overlapped>>

(* The next portion, or the empty string where the file ends or has a gap. *)
ReadNextData(p) ==
  /\ pc[p] = "read"
  /\ \/ /\ read[p] + 1 \in file
        /\ read' = [read EXCEPT ![p] = @ + 1]
        /\ UNCHANGED <<pc, outcome>>
     \/ /\ read[p] + 1 \notin file
        /\ pc' = [pc EXCEPT ![p] = "idle"]
        /\ outcome' = [outcome EXCEPT ![p] = IF read[p] = SIZE THEN "whole" ELSE "part"]
        /\ UNCHANGED read
  /\ UNCHANGED <<file, got, spoilt, overlapped>>

(* A restart of the machine clears /tmp. *)
Reboot ==
  /\ file' = Absent
  /\ pc' = Idle
  /\ outcome' = [p \in Clients |-> "none"]
  /\ spoilt' = FALSE /\ overlapped' = FALSE
  /\ UNCHANGED <<got, read>>

Step(p) ==
  \/ Construct(p) \/ Request(p) \/ NoRequest(p) \/ Arrive(p)
  \/ Downloaded(p) \/ Fail(p) \/ Kill(p) \/ Open(p) \/ ReadNextData(p)

Next == Reboot \/ \E p \in Clients : Step(p)

Spec == Init /\ [][Next]_vars

-----------------------------------------------------------------------------
TypeOK ==
  /\ file \in {Absent} \cup SUBSET (1 .. SIZE)
  /\ pc \in [Clients -> {"idle", "request", "wget", "open", "read"}]
  /\ got \in [Clients -> 0 .. SIZE] /\ read \in [Clients -> 0 .. SIZE]
  /\ outcome \in [Clients -> {"none", "whole", "part", "exception"}]
  /\ spoilt \in BOOLEAN /\ overlapped \in BOOLEAN

(***************************************************************************)
(* As long as every download has come to its end and clients take turns, a *)
(* reader hands out the whole table, whether it downloaded it or found it. *)
(***************************************************************************)
WholeUnlessSpoilt ==
  ~ spoilt /\ ~ overlapped => \A p \in Clients : outcome[p] # "part"

(***************************************************************************)
(* A table that is whole stays whole while clients take turns: none        *)
(* empties the file that an earlier one has filled.                        *)
(***************************************************************************)
CacheKept ==
  [][ file = 1 .. SIZE /\ ~ overlapped' => file' \in {file, Absent} ]_vars

(***************************************************************************)
(* "Could not download data" is thrown for a table that could not be had,  *)
(* and what a reader then gives has the columns of the table (the test     *)
(* reads five rows and wants 7 columns of each): a client that works alone *)
(* gets the table or the exception.                                        *)
(***************************************************************************)
TableOrException ==
  ~ overlapped => \A p \in Clients : outcome[p] # "part"
=============================================================================
