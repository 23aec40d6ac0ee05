---------------------- MODULE YahooFinanceReaderProofs ----------------------
(***************************************************************************)
(* The cache of downloads, for any number of processes and any length of   *)
(* the table.                                                              *)
(***************************************************************************)
EXTENDS YahooFinanceReader, TLAPS

(* A wget has created its file, and only a restart, which ends it, takes   *)
(* the file away.                                                          *)
WgetHasFile == \A p \in Clients : pc[p] = "wget" => file # Absent

LEMMA Typing == ASSUME TypeOK, WgetHasFile, [Next]_vars PROVE TypeOK'
<1>1. CASE Reboot
  <2>1. /\ pc' \in [Clients -> {"idle", "request", "wget", "open", "read"}]
        /\ outcome' \in [Clients -> {"none", "whole", "part", "exception"}]
    BY <1>1 DEF Reboot, Idle
  <2> QED BY <1>1, <2>1 DEF Reboot, TypeOK
<1>2. ASSUME NEW p \in Clients, Step(p) PROVE TypeOK'
  <2>1. CASE Construct(p)
    BY <2>1 DEF Construct, TypeOK
  <2>2. CASE Request(p)
    BY <2>2, SizeOK DEF Request, TypeOK
  <2>3. CASE NoRequest(p)
    BY <2>3 DEF NoRequest, TypeOK
  <2>4. CASE Arrive(p)
    <3>1. got[p] + 1 \in 1 .. SIZE /\ got'[p] = got[p] + 1
      BY <2>4, SizeOK DEF Arrive, TypeOK
    <3>2. file' \in {Absent} \cup SUBSET (1 .. SIZE)
      BY <2>4, <3>1 DEF Arrive, TypeOK, WgetHasFile
    <3> QED BY <2>4, <3>1, <3>2, SizeOK DEF Arrive, TypeOK
  <2>5. CASE Downloaded(p)
    BY <2>5 DEF Downloaded, TypeOK
  <2>6. CASE Fail(p)
    BY <2>6 DEF Fail, TypeOK
  <2>7. CASE Kill(p)
    BY <2>7 DEF Kill, TypeOK
  <2>8. CASE Open(p)
    BY <2>8, SizeOK DEF Open, TypeOK
  <2>9. CASE ReadNextData(p)
    <3>1. read[p] + 1 \in file => read[p] + 1 \in 0 .. SIZE
      <4>1. read[p] \in Nat /\ read[p] + 1 # 0
        BY <2>9, SizeOK DEF TypeOK
      <4>2. CASE file \in SUBSET (1 .. SIZE)
        BY <4>1, <4>2, SizeOK
      <4>3. CASE file = Absent
        BY <4>1, <4>3 DEF Absent
      <4> QED BY <4>2, <4>3 DEF TypeOK
    <3>2. read' \in [Clients -> 0 .. SIZE]
      BY <2>9, <3>1 DEF ReadNextData, TypeOK
    <3>3. /\ pc' \in [Clients -> {"idle", "request", "wget", "open", "read"}]
          /\ outcome' \in [Clients -> {"none", "whole", "part", "exception"}]
      BY <2>9 DEF ReadNextData, TypeOK
    <3> QED BY <2>9, <3>2, <3>3 DEF ReadNextData, TypeOK
  <2> QED BY <1>2, <2>1, <2>2, <2>3, <2>4, <2>5, <2>6, <2>7, <2>8, <2>9 DEF Step
<1>3. CASE UNCHANGED vars
  BY <1>3 DEF vars, TypeOK
<1> QED BY <1>1, <1>2, <1>3 DEF Next

LEMMA FileOfWget == ASSUME TypeOK, WgetHasFile, [Next]_vars PROVE WgetHasFile'
<1>1. CASE Reboot
  BY <1>1 DEF Reboot, WgetHasFile, Idle
<1>2. ASSUME NEW p \in Clients, Step(p) PROVE WgetHasFile'
  <2>1. CASE Request(p)
    BY <2>1 DEF Request, WgetHasFile, Absent
  <2>2. CASE Arrive(p)
    <3>1. file \in SUBSET (1 .. SIZE)
      BY <2>2 DEF Arrive, TypeOK, WgetHasFile
    <3>2. 1 <= got'[p] /\ got'[p] \in file'
      BY <2>2, SizeOK DEF Arrive, TypeOK
    <3> QED BY <2>2, <3>2, SizeOK DEF Arrive, WgetHasFile, Absent
  <2>3. CASE UNCHANGED file /\ \A q \in Clients : pc'[q] = "wget" => pc[q] = "wget"
    BY <2>3 DEF WgetHasFile
  <2> QED BY <1>2, <2>1, <2>2, <2>3
          DEF Step, Construct, NoRequest, Downloaded, Fail, Kill, Open, ReadNextData, TypeOK
<1>3. CASE UNCHANGED vars
  BY <1>3 DEF vars, WgetHasFile
<1> QED BY <1>1, <1>2, <1>3 DEF Next

(* The type invariant of the cache and its clients. *)
THEOREM TypeInvariant == Spec => []TypeOK
<1>1. Init => TypeOK /\ WgetHasFile
  <2> SUFFICES ASSUME Init PROVE TypeOK /\ WgetHasFile
    OBVIOUS
  <2>1. /\ pc \in [Clients -> {"idle", "request", "wget", "open", "read"}]
        /\ outcome \in [Clients -> {"none", "whole", "part", "exception"}]
    BY DEF Init, Idle
  <2>2. got \in [Clients -> 0 .. SIZE] /\ read \in [Clients -> 0 .. SIZE]
    BY SizeOK DEF Init
  <2> QED BY <2>1, <2>2 DEF Init, TypeOK, WgetHasFile, Idle
<1>2. TypeOK /\ WgetHasFile /\ [Next]_vars => TypeOK' /\ WgetHasFile'
  BY Typing, FileOfWget
<1> QED BY <1>1, <1>2, PTL DEF Spec
-----------------------------------------------------------------------------
(* While clients take turns one is at work at most, one that asks for a    *)
(* download has found no file, and the file holds what this download has   *)
(* brought so far.                                                         *)
Turns ==
  ~ overlapped =>
    /\ \A p, q \in Clients : pc[p] # "idle" /\ pc[q] # "idle" => p = q
    /\ \A p \in Clients :
         /\ pc[p] = "request" => file = Absent
         /\ pc[p] = "wget" => file = 1 .. got[p]

(* If downloads come to their ends too, what nobody is downloading is the  *)
(* whole table, or is not there.                                           *)
Whole ==
  ~ overlapped /\ ~ spoilt =>
    /\ (\A p \in Clients : pc[p] # "wget") => file \in {Absent, 1 .. SIZE}
    /\ \A p \in Clients :
         /\ pc[p] \in {"open", "read"} => file = 1 .. SIZE
         /\ outcome[p] # "part"

LEMMA TakingTurns == ASSUME TypeOK, Turns, [Next]_vars PROVE Turns'
<1>1. CASE Reboot
  BY <1>1 DEF Reboot, Turns, Idle
<1>2. ASSUME NEW p \in Clients, Step(p) PROVE Turns'
  <2> SUFFICES ASSUME ~ overlapped'
               PROVE  /\ \A q, r \in Clients : pc'[q] # "idle" /\ pc'[r] # "idle" => q = r
                      /\ \A q \in Clients :
                           /\ pc'[q] = "request" => file' = Absent
                           /\ pc'[q] = "wget" => file' = 1 .. got'[q]
    BY DEF Turns
  <2>0. ~ overlapped
    BY <1>2 DEF Step, Construct, Request, NoRequest, Arrive, Downloaded, Fail, Kill, Open,
       ReadNextData
  <2>1. CASE Construct(p)
    <3>1. pc = Idle
      BY <2>1 DEF Construct
    <3>2. \A q \in Clients : q # p => pc'[q] = "idle"
      BY <2>1, <3>1 DEF Construct, Idle, TypeOK
    <3>3. pc'[p] = IF file = Absent THEN "request" ELSE "open"
      BY <2>1 DEF Construct, TypeOK
    <3> QED BY <2>1, <3>2, <3>3 DEF Construct
  <2>2. ASSUME pc[p] # "idle" PROVE \A q \in Clients : q # p => pc[q] = "idle"
    BY <2>0, <2>2 DEF Turns
  <2>3. CASE Request(p)
    <3>1. file' = {} /\ got'[p] = 0
      BY <2>3 DEF Request, TypeOK
    <3>2. 1 .. 0 = {}
      OBVIOUS
    <3>3. pc'[p] = "wget" /\ \A q \in Clients : q # p => pc'[q] = "idle"
      BY <2>2, <2>3 DEF Request, TypeOK
    <3> QED BY <3>1, <3>2, <3>3
  <2>4. CASE Arrive(p)
    <3>1. file = 1 .. got[p] /\ got[p] \in Nat /\ got'[p] = got[p] + 1
      BY <2>0, <2>4, SizeOK DEF Arrive, Turns, TypeOK
    <3>2. file' = 1 .. got'[p]
      BY <2>4, <3>1 DEF Arrive
    <3>3. pc' = pc /\ \A q \in Clients : q # p => pc[q] = "idle"
      BY <2>2, <2>4 DEF Arrive
    <3>4. pc'[p] = "wget"
      BY <2>4 DEF Arrive
    <3> QED BY <3>2, <3>3, <3>4
  <2>5. CASE NoRequest(p) \/ Downloaded(p) \/ Fail(p) \/ Kill(p) \/ Open(p) \/ ReadNextData(p)
    <3>1. pc[p] # "idle" /\ \A q \in Clients : q # p => pc'[q] = "idle"
      BY <2>2, <2>5 DEF NoRequest, Downloaded, Fail, Kill, Open, ReadNextData, TypeOK
    <3>2. pc'[p] \notin {"request", "wget"}
      BY <2>5 DEF NoRequest, Downloaded, Fail, Kill, Open, ReadNextData, TypeOK
    <3> QED BY <3>1, <3>2
  <2> QED BY <1>2, <2>1, <2>3, <2>4, <2>5 DEF Step
<1>3. CASE UNCHANGED vars
  BY <1>3 DEF vars, Turns
<1> QED BY <1>1, <1>2, <1>3 DEF Next

LEMMA StaysWhole == ASSUME TypeOK, Turns, Whole, [Next]_vars PROVE Whole'
<1>1. CASE Reboot
  BY <1>1 DEF Reboot, Whole, Idle
<1>2. ASSUME NEW p \in Clients, Step(p) PROVE Whole'
  <2> SUFFICES ASSUME ~ overlapped', ~ spoilt'
               PROVE  /\ (\A q \in Clients : pc'[q] # "wget") => file' \in {Absent, 1 .. SIZE}
                      /\ \A q \in Clients :
                           /\ pc'[q] \in {"open", "read"} => file' = 1 .. SIZE
                           /\ outcome'[q] # "part"
    BY DEF Whole
  <2>0. ~ overlapped /\ ~ spoilt
    <3>1. ~ overlapped
      BY <1>2 DEF Step, Construct, Request, NoRequest, Arrive, Downloaded, Fail, Kill, Open,
         ReadNextData
    <3>2. CASE Kill(p)
      BY <3>1, <3>2 DEF Kill
    <3>3. CASE ~ Kill(p)
      <4>1. spoilt' = spoilt \/ spoilt' = TRUE
        BY <1>2, <3>3 DEF Step, Construct, Request, NoRequest, Arrive, Downloaded, Fail, Open,
           ReadNextData
      <4> QED BY <3>1, <4>1
    <3> QED BY <3>2, <3>3
  <2>1. CASE Construct(p)
    <3>1. \A q \in Clients : pc[q] = "idle"
      BY <2>1 DEF Construct, Idle
    <3>2. file' = file /\ file \in {Absent, 1 .. SIZE}
      BY <2>0, <2>1, <3>1 DEF Construct, Whole
    <3>3. \A q \in Clients : pc'[q] \in {"open", "read"} => file # Absent
      BY <2>1, <3>1 DEF Construct, TypeOK
    <3> QED BY <2>0, <2>1, <3>2, <3>3 DEF Construct, Whole
  <2>2. ASSUME pc[p] # "idle" PROVE \A q \in Clients : q # p => pc[q] = "idle"
    BY <2>0, <2>2 DEF Turns
  <2>3. CASE Request(p) \/ Arrive(p)
    <3>1. /\ pc'[p] = "wget" /\ outcome' = outcome
          /\ \A q \in Clients : q # p => pc'[q] = "idle"
      BY <2>2, <2>3 DEF Request, Arrive, TypeOK
    <3> QED BY <2>0, <3>1 DEF Whole
  <2>4. CASE NoRequest(p)
    <3>1. file' = Absent
      BY <2>0, <2>4 DEF NoRequest, Turns
    <3>2. \A q \in Clients : pc'[q] = "idle"
      BY <2>2, <2>4 DEF NoRequest, TypeOK
    <3>3. \A q \in Clients : outcome'[q] \in {outcome[q], "exception"}
      BY <2>4 DEF NoRequest, TypeOK
    <3> QED BY <2>0, <3>1, <3>2, <3>3 DEF Whole
  <2>5. CASE Downloaded(p)
    BY <2>0, <2>5 DEF Downloaded, Turns, Whole
  <2>6. CASE Kill(p)
    <3>1. pc[p] # "wget" /\ pc[p] # "idle" /\ file' = file
      BY <2>6 DEF Kill
    <3>2. file \in {Absent, 1 .. SIZE}
      BY <2>0, <2>2, <3>1 DEF Whole
    <3>3. \A q \in Clients : pc'[q] = "idle"
      BY <2>2, <2>6 DEF Kill, TypeOK
    <3>4. \A q \in Clients : outcome'[q] \in {outcome[q], "none"}
      BY <2>6 DEF Kill, TypeOK
    <3> QED BY <2>0, <3>1, <3>2, <3>3, <3>4 DEF Whole
  <2>7. CASE Open(p)
    <3>1. file' = 1 .. SIZE /\ outcome' = outcome
      BY <2>0, <2>7 DEF Open, Whole
    <3> QED BY <2>0, <3>1 DEF Whole
  <2>8. CASE ReadNextData(p)
    <3>1. file = 1 .. SIZE /\ file' = file
      BY <2>0, <2>8 DEF ReadNextData, Whole
    <3>2. read[p] \in 0 .. SIZE
      BY DEF TypeOK
    <3>3. read[p] + 1 \notin file => read[p] = SIZE
      BY <3>1, <3>2, SizeOK
    <3>4. \A q \in Clients : outcome'[q] \in {outcome[q], "whole"}
      BY <2>8, <3>3 DEF ReadNextData, TypeOK
    <3> QED BY <2>0, <3>1, <3>4 DEF Whole
  <2>9. ~ Fail(p)
    BY DEF Fail
  <2> QED BY <1>2, <2>1, <2>3, <2>4, <2>5, <2>6, <2>7, <2>8, <2>9 DEF Step
<1>3. CASE UNCHANGED vars
  BY <1>3 DEF vars, Whole
<1> QED BY <1>1, <1>2, <1>3 DEF Next

LEMMA InTurn == Spec => [](Turns /\ Whole)
<1>1. Init => Turns /\ Whole
  BY DEF Init, Turns, Whole, Idle
<1>2. TypeOK /\ Turns /\ Whole /\ [Next]_vars => Turns' /\ Whole'
  BY TakingTurns, StaysWhole
<1> QED BY <1>1, <1>2, TypeInvariant, PTL DEF Spec

(* Clients that take turns, and whose downloads come to their ends, hand   *)
(* out whole tables, however many they are.                                *)
THEOREM TablesAreWhole == Spec => []WholeUnlessSpoilt
<1>1. Whole => WholeUnlessSpoilt
  BY DEF Whole, WholeUnlessSpoilt
<1> QED BY <1>1, InTurn, PTL

LEMMA KeepsFile ==
  ASSUME TypeOK, Turns, [Next]_vars, file = 1 .. SIZE, ~ overlapped'
  PROVE  file' \in {file, Absent}
<1>1. CASE Reboot
  BY <1>1 DEF Reboot
<1>2. ASSUME NEW p \in Clients, Step(p) PROVE file' \in {file, Absent}
  <2>0. ~ overlapped
    BY <1>2 DEF Step, Construct, Request, NoRequest, Arrive, Downloaded, Fail, Kill, Open,
       ReadNextData
  <2>1. SIZE \in 1 .. SIZE /\ SIZE \in Nat
    BY SizeOK
  <2>2. ~ Request(p)
    <3>1. file # Absent
      BY <2>1 DEF Absent
    <3> QED BY <2>0, <3>1 DEF Request, Turns
  <2>3. ~ Arrive(p)
    <3> SUFFICES ASSUME Arrive(p) PROVE FALSE
      OBVIOUS
    <3>1. got[p] < SIZE /\ file = 1 .. got[p] /\ got[p] \in Nat
      BY <2>0, SizeOK DEF Arrive, Turns, TypeOK
    <3>2. SIZE \notin 1 .. got[p]
      BY <2>1, <3>1
    <3> QED BY <2>1, <3>1, <3>2
  <2> QED BY <1>2, <2>2, <2>3
          DEF Step, Construct, NoRequest, Downloaded, Fail, Kill, Open, ReadNextData
<1>3. CASE UNCHANGED vars
  BY <1>3 DEF vars
<1> QED BY <1>1, <1>2, <1>3 DEF Next

(* A whole table is kept for as long as clients take turns. *)
THEOREM WholeTableIsKept == Spec => CacheKept
<1>1. TypeOK /\ Turns /\ [Next]_vars =>
        [file = 1 .. SIZE /\ ~ overlapped' => file' \in {file, Absent}]_vars
  BY KeepsFile
<1> QED BY <1>1, InTurn, TypeInvariant, PTL DEF Spec, CacheKept
=============================================================================
