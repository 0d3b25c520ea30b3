------------------------- MODULE InverterControlTypes -------------------------
(***************************************************************************)
(* Type correctness of InverterControl for any number of inverters,        *)
(* processes, requests, subscriptions and faults, and the lemmas about its *)
(* records and rows that the other proofs use.                             *)
(***************************************************************************)
EXTENDS InverterControl, SequenceTheorems, TLAPS

Early == [pc: {"precheck", "phase1"}, inv: Inverters, key: Keys]
Executing == [pc: {"phase2", "held", "applied", "unknown", "fail"},
              inv: Inverters, key: Keys, n: Nat \ {0}, rep: BOOLEAN]
Returned == [pc: {"done"}, inv: Inverters, key: Keys,
             res: Settled \cup {"PENDING", "REJECTED", "ERROR"}]

\* The shape of a call is told by its pc.
LEMMA CallShape ==
  ASSUME TypeOK, NEW p \in Procs
  PROVE  /\ call[p] \in {IdleCall} \cup Early \cup Executing \cup Returned
         /\ call[p].pc \in {"precheck", "phase1"} => call[p] \in Early
         /\ call[p].pc \in {"phase2", "held", "applied", "unknown", "fail"} => call[p] \in Executing
         /\ call[p].pc = "done" => call[p] \in Returned
         /\ call[p].pc # "idle" => call[p].inv \in Inverters /\ call[p].key \in Keys
<1>1. call[p] \in Calls
  BY DEF TypeOK
<1>2. call[p] \in {IdleCall} \cup Early \cup Executing \cup Returned
  BY <1>1 DEF Calls, Early, Executing, Returned
<1>3. CASE call[p] = IdleCall
  BY <1>3 DEF IdleCall
<1>4. CASE call[p] \in Early
  BY <1>4 DEF Early
<1>5. CASE call[p] \in Executing
  BY <1>5 DEF Executing
<1>6. CASE call[p] \in Returned
  BY <1>6 DEF Returned
<1>7. QED BY <1>2, <1>3, <1>4, <1>5, <1>6

LEMMA CallTypes ==
  ASSUME TypeOK, NEW p \in Procs, NEW c,
         c \in {IdleCall} \cup Early \cup Executing \cup Returned,
         Call(p, c)
  PROVE  call' \in [Procs -> Calls]
<1>1. c \in Calls
  BY DEF Calls, Early, Executing, Returned
<1>2. QED BY <1>1 DEF Call, TypeOK

\* The parts of TypeOK that have definitions of their own.
Sites == {IdleSite} \cup [pc: {"loop", "rollback"}, req: Requests, acked: SUBSET Inverters]
ActiveSites == [pc: {"loop", "rollback"}, req: Requests, acked: SUBSET Inverters]
Works == {IdleWork} \cup
  [pc: {"selected", "claimed", "sweeping", "obsolete", "confirmed", "failed"},
   job: Events, att: Nat]

LEMMA IdleTypes ==
  /\ NoJob \in Jobs /\ IdleCall \in Calls /\ NoSweep \in Sweeps
  /\ IdleSite \in Sites /\ IdleWork \in Works
BY DEF NoJob, Jobs, Calls, Sweeps, Sites, Works

LEMMA TypeInit == Init => TypeOK
<1> SUFFICES ASSUME Init PROVE TypeOK
  OBVIOUS
<1> USE DEF Init
<1>1. jobs \in [Events -> Jobs] /\ call \in [Procs -> Calls] /\ sweep \in [Procs -> Sweeps]
  BY IdleTypes
<1>2. site \in [Users -> Sites] /\ work \in [Workers -> Works]
  BY IdleTypes
<1>3. cmds \in [Inverters -> Seq(Command)]
  OBVIOUS
<1>4. faults \in 0..MaxFaults
  BY FaultsAssumption
<1>5. subs \in [Subs -> {"NONE", "ACTIVE", "LAPSED", "ENDED"}]
  OBVIOUS
<1>6. QED BY <1>1, <1>2, <1>3, <1>4, <1>5 DEF TypeOK, Sites, Works

JobSweeps == [on: {TRUE}, kind: {"job"}, ref: Events, att: Nat,
              inv: Inverters, try: {1, 2}, failed: BOOLEAN]
UnresolvedSweeps == [on: {TRUE}, kind: {"unresolved"}, ref: OnRequests, att: Inverters,
                     inv: Inverters, try: {1, 2}, failed: BOOLEAN]

\* The shape of a sweep is told by its kind.
LEMMA SweepShape ==
  ASSUME NEW s \in Sweeps, s.on
  PROVE  /\ s \in JobSweeps \cup UnresolvedSweeps
         /\ s.kind = "job" => s \in JobSweeps
         /\ s.kind = "unresolved" => s \in UnresolvedSweeps
<1>1. s # NoSweep
  BY DEF NoSweep
<1>2. s \in JobSweeps \cup UnresolvedSweeps
  BY <1>1 DEF Sweeps, JobSweeps, UnresolvedSweeps
<1>3. QED BY <1>2 DEF JobSweeps, UnresolvedSweeps

LEMMA KeyTypes ==
  /\ \A r \in Requests : UserKey(r) \in Keys /\ RollbackKey(r) \in Keys
  /\ \A s \in Sweeps, nonce \in {"stable", "random"} : s.on => SweepKey(s, nonce) \in Keys
  /\ \A i \in Inverters, k \in Keys : NewCall(i, k) \in Early
<1>1. \A r \in Requests : UserKey(r) \in Keys /\ RollbackKey(r) \in Keys
  BY DEF UserKey, RollbackKey, Keys
<1>2. ASSUME NEW s \in Sweeps, NEW nonce \in {"stable", "random"}, s.on
      PROVE  SweepKey(s, nonce) \in Keys
  <2>1. s \in JobSweeps \cup UnresolvedSweeps
    BY <1>2, SweepShape
  <2>2. s.kind \in {"job", "unresolved"} /\ s.ref \in Requests \cup Events /\ s.att \in Nat
    <3>1. CASE s \in JobSweeps
      BY <3>1 DEF JobSweeps
    <3>2. CASE s \in UnresolvedSweeps
      <4>1. s.ref \in OnRequests /\ s.att \in Inverters /\ s.kind = "unresolved"
        BY <3>2 DEF UnresolvedSweeps
      <4>2. QED BY <4>1, NAssumption DEF Inverters, Requests
    <3>3. QED BY <2>1, <3>1, <3>2
  <2>3. QED BY <2>2 DEF SweepKey, Keys
<1>3. \A i \in Inverters, k \in Keys : NewCall(i, k) \in Early
  BY DEF NewCall, Early
<1>4. QED BY <1>1, <1>2, <1>3

\* A command that changes its status, or a new one, keeps the rows in their type.
LEMMA CmdsTypes ==
  ASSUME TypeOK, NEW i \in Inverters, NEW rows \in Seq(Command),
         cmds' = [cmds EXCEPT ![i] = rows]
  PROVE  cmds' \in [Inverters -> Seq(Command)]
BY DEF TypeOK

LEMMA RowTypes ==
  ASSUME TypeOK, NEW i \in Inverters
  PROVE  /\ cmds[i] \in Seq(Command)
         /\ Len(cmds[i]) \in Nat
         /\ DOMAIN cmds[i] = 1..Len(cmds[i])
         /\ \A n \in DOMAIN cmds[i] :
              /\ cmds[i][n] \in Command
              /\ cmds[i][n].key \in Keys
              /\ cmds[i][n].status \in {"PENDING"} \cup Settled
<1>1. cmds[i] \in Seq(Command)
  BY DEF TypeOK
<1>2. Len(cmds[i]) \in Nat /\ DOMAIN cmds[i] = 1..Len(cmds[i])
  BY <1>1, LenProperties
<1>3. \A n \in DOMAIN cmds[i] : cmds[i][n] \in Command
  BY <1>1, <1>2, ElementOfSeq
<1>4. QED BY <1>1, <1>2, <1>3 DEF Command

LEMMA StatusTypes ==
  ASSUME TypeOK, NEW i \in Inverters, NEW n \in DOMAIN cmds[i],
         NEW status \in {"PENDING"} \cup Settled,
         SetStatus(i, n, status)
  PROVE  /\ cmds' \in [Inverters -> Seq(Command)]
         /\ \A j \in Inverters : DOMAIN cmds'[j] = DOMAIN cmds[j]
         /\ \A j \in Inverters : \A m \in DOMAIN cmds[j] :
              /\ cmds'[j][m].key = cmds[j][m].key
              /\ j = i /\ m = n => cmds'[j][m].status = status
              /\ j # i \/ m # n => cmds'[j][m].status = cmds[j][m].status
<1> DEFINE row == [cmds[i][n] EXCEPT !.status = status]
           rows == [cmds[i] EXCEPT ![n] = row]
<1>1. cmds' = [cmds EXCEPT ![i] = rows]
  BY DEF SetStatus
<1>2. row \in Command /\ row.key = cmds[i][n].key /\ row.status = status
  BY RowTypes DEF Command
<1>3. /\ rows \in Seq(Command) /\ Len(rows) = Len(cmds[i])
      /\ \A m \in DOMAIN cmds[i] : rows[m] = IF m = n THEN row ELSE cmds[i][m]
  BY <1>2, RowTypes, ExceptSeq
<1>4. DOMAIN rows = DOMAIN cmds[i]
  OBVIOUS
<1>5. \A j \in Inverters : cmds'[j] = IF j = i THEN rows ELSE cmds[j]
  BY <1>1 DEF TypeOK
<1>6. cmds' \in [Inverters -> Seq(Command)]
  BY <1>1, <1>3, CmdsTypes
<1>7. QED BY <1>2, <1>3, <1>4, <1>5, <1>6

LEMMA AppendTypes ==
  ASSUME TypeOK, NEW i \in Inverters, NEW row \in Command,
         cmds' = [cmds EXCEPT ![i] = Append(@, row)]
  PROVE  /\ cmds' \in [Inverters -> Seq(Command)]
         /\ \A j \in Inverters : DOMAIN cmds[j] \subseteq DOMAIN cmds'[j]
         /\ \A j \in Inverters : \A m \in DOMAIN cmds[j] : cmds'[j][m] = cmds[j][m]
         /\ \A j \in Inverters : \A m \in DOMAIN cmds'[j] :
              m \in DOMAIN cmds[j] \/ (j = i /\ m = Len(cmds[i]) + 1)
         /\ Len(cmds[i]) + 1 \in DOMAIN cmds'[i]
         /\ cmds'[i][Len(cmds[i]) + 1] = row
<1> DEFINE rows == Append(cmds[i], row)
<1>1. cmds' = [cmds EXCEPT ![i] = rows]
  OBVIOUS
<1>2. /\ rows \in Seq(Command) /\ Len(rows) = Len(cmds[i]) + 1
      /\ \A m \in 1..Len(cmds[i]) : rows[m] = cmds[i][m]
      /\ rows[Len(cmds[i]) + 1] = row
  BY RowTypes, AppendProperties
<1>3. DOMAIN rows = 1..(Len(cmds[i]) + 1)
  BY <1>2, LenProperties
<1>4. \A j \in Inverters : cmds'[j] = IF j = i THEN rows ELSE cmds[j]
  BY <1>1 DEF TypeOK
<1>5. cmds' \in [Inverters -> Seq(Command)]
  BY <1>1, <1>2, CmdsTypes
<1>6. \A j \in Inverters : Len(cmds[j]) \in Nat /\ DOMAIN cmds[j] = 1..Len(cmds[j])
  BY RowTypes
<1> HIDE DEF rows
<1>7. \A j \in Inverters : DOMAIN cmds[j] \subseteq DOMAIN cmds'[j]
  BY <1>3, <1>4, <1>6
<1>8. \A j \in Inverters : \A m \in DOMAIN cmds'[j] :
        m \in DOMAIN cmds[j] \/ (j = i /\ m = Len(cmds[i]) + 1)
  BY <1>3, <1>4, <1>6
<1>9. Len(cmds[i]) + 1 \in DOMAIN cmds'[i]
  BY <1>3, <1>4, <1>6
<1>10. QED BY <1>2, <1>4, <1>5, <1>6, <1>7, <1>8, <1>9

-----------------------------------------------------------------------------
(* Type correctness of the steps *)

\* What CallInv says of the command that a call executes.
HasRow(p) ==
  call[p].pc \in {"phase2", "held", "applied", "unknown", "fail"} =>
    call[p].n \in DOMAIN cmds[call[p].inv] /\ cmds[call[p].inv][call[p].n].key = call[p].key

LEMMA FaultTypes == TypeOK /\ Fault => faults' \in 0..MaxFaults
BY FaultsAssumption DEF TypeOK, Fault

\* The three ways in which a call goes on yield a call.
LEMMA GoOn ==
  ASSUME TypeOK, NEW p \in Procs, call[p].pc # "idle"
  PROVE  /\ \A res \in Settled \cup {"PENDING", "REJECTED", "ERROR"} :
              Done(p, res) => call' \in [Procs -> Calls]
         /\ \A i \in Inverters, k \in Keys, n \in Nat \ {0}, rep \in BOOLEAN :
              Execute(p, i, k, n, rep) => call' \in [Procs -> Calls]
         /\ \A i \in Inverters, k \in Keys :
              Call(p, NewCall(i, k)) => call' \in [Procs -> Calls]
<1>1. call[p].inv \in Inverters /\ call[p].key \in Keys
  BY CallShape
<1>2. ASSUME NEW res \in Settled \cup {"PENDING", "REJECTED", "ERROR"}, Done(p, res)
      PROVE  call' \in [Procs -> Calls]
  <2> DEFINE c == [pc |-> "done", inv |-> call[p].inv, key |-> call[p].key, res |-> res]
  <2>1. c \in Returned
    BY <1>1 DEF Returned
  <2>2. QED BY <1>2, <2>1, CallTypes DEF Done
<1>3. ASSUME NEW i \in Inverters, NEW k \in Keys, NEW n \in Nat \ {0}, NEW rep \in BOOLEAN,
             Execute(p, i, k, n, rep)
      PROVE  call' \in [Procs -> Calls]
  <2> DEFINE c == [pc |-> "phase2", inv |-> i, key |-> k, n |-> n, rep |-> rep]
  <2>1. c \in Executing
    BY DEF Executing
  <2>2. QED BY <1>3, <2>1, CallTypes DEF Execute
<1>4. ASSUME NEW i \in Inverters, NEW k \in Keys, Call(p, NewCall(i, k))
      PROVE  call' \in [Procs -> Calls]
  <2>1. NewCall(i, k) \in Early
    BY KeyTypes
  <2>2. QED BY <1>4, <2>1, CallTypes
<1>5. QED BY <1>2, <1>3, <1>4

LEMMA NextPc ==
  ASSUME TypeOK, NEW p \in Procs, NEW pc
  PROVE  /\ call[p] \in Executing /\ pc \in {"held", "applied", "unknown", "fail"}
              /\ Call(p, [call[p] EXCEPT !.pc = pc]) => call' \in [Procs -> Calls]
         /\ call[p] \in Early /\ pc = "phase1"
              /\ Call(p, [call[p] EXCEPT !.pc = pc]) => call' \in [Procs -> Calls]
<1> DEFINE c == [call[p] EXCEPT !.pc = pc]
<1>1. call[p] \in Executing /\ pc \in {"held", "applied", "unknown", "fail"} => c \in Executing
  BY DEF Executing
<1>2. call[p] \in Early /\ pc = "phase1" => c \in Early
  BY DEF Early
<1>3. QED BY <1>1, <1>2, CallTypes

LEMMA FoundTypes ==
  ASSUME TypeOK, NEW p \in Procs, call[p].pc # "idle",
         NEW n \in DOMAIN cmds[call[p].inv], FoundIntent(p, n)
  PROVE  call' \in [Procs -> Calls]
<1>1. call[p].inv \in Inverters /\ call[p].key \in Keys
  BY CallShape
<1>2. n \in Nat \ {0} /\ cmds[call[p].inv][n].status \in Settled \cup {"PENDING"}
  BY <1>1, RowTypes
<1>3. QED BY <1>1, <1>2, GoOn DEF FoundIntent

LEMMA FailOrSweepTypes ==
  ASSUME TypeOK, NEW p \in Procs, HasRow(p), call[p].pc = "phase2", FailOrSweep(p)
  PROVE  /\ call' \in [Procs -> Calls]
         /\ sweep' \in [Procs -> Sweeps]
         /\ cmds' \in [Inverters -> Seq(Command)]
<1> DEFINE i == call[p].inv  n == call[p].n  k == call[p].key
           s == NewSweep("unresolved", k.ref, i)
<1>1. i \in Inverters /\ k \in Keys /\ n \in DOMAIN cmds[i]
  BY CallShape DEF HasRow
<1>2. CASE call[p].rep /\ Type(k) = "turnon"
  <2>1. /\ sweep' = [sweep EXCEPT ![p] = s] /\ Call(p, NewCall(1, SweepKey(s, "stable")))
        /\ UNCHANGED cmds
    BY <1>2 DEF FailOrSweep
  <2>2. s \in Sweeps /\ s.on /\ 1 \in Inverters
    <3>1. k.ref \in OnRequests
      BY <1>2 DEF Type
    <3>2. s \in UnresolvedSweeps
      BY <1>1, <3>1, NAssumption DEF NewSweep, UnresolvedSweeps, Inverters
    <3>3. \A x \in UnresolvedSweeps : x \in Sweeps /\ x.on
      BY DEF UnresolvedSweeps, Sweeps
    <3>4. 1 \in Inverters
      BY NAssumption DEF Inverters
    <3>5. QED BY <3>2, <3>3, <3>4
  <2>3. SweepKey(s, "stable") \in Keys
    BY <2>2, KeyTypes
  <2> HIDE DEF s
  <2>4. call' \in [Procs -> Calls]
    BY <2>1, <2>2, <2>3, GoOn
  <2>5. QED BY <2>1, <2>2, <2>4 DEF TypeOK
<1>3. CASE ~(call[p].rep /\ Type(k) = "turnon")
  <2>1. /\ SetStatus(i, n, "FAILED") /\ Done(p, "FAILED")
        /\ UNCHANGED sweep
    BY <1>3 DEF FailOrSweep
  <2>2. "FAILED" \in Settled
    BY DEF Settled
  <2>3. cmds' \in [Inverters -> Seq(Command)]
    BY <1>1, <2>1, <2>2, StatusTypes
  <2>4. call' \in [Procs -> Calls]
    BY <2>1, <2>2, GoOn
  <2>5. QED BY <2>1, <2>3, <2>4 DEF TypeOK
<1>4. QED BY <1>2, <1>3

\* The steps of a call.
LEMMA CallStepTypes ==
  ASSUME TypeOK, NEW p \in Procs, HasRow(p), IssueInverterCommand(p) \/ CommandFault(p)
  PROVE  TypeOK'
<1> DEFINE i == call[p].inv  k == call[p].key  n == call[p].n
<1>1. ASSUME call[p].pc # "idle" PROVE i \in Inverters /\ k \in Keys
  BY <1>1, CallShape
<1>2. ASSUME call[p].pc \in {"phase2", "held", "applied", "unknown", "fail"}
      PROVE  call[p] \in Executing /\ n \in DOMAIN cmds[i] /\ i \in Inverters /\ k \in Keys
  BY <1>2, CallShape DEF HasRow
<1>3. ASSUME NEW j \in Inverters, NEW m \in DOMAIN cmds[j]
      PROVE  cmds[j][m].status \in Settled \cup {"PENDING"} /\ m \in Nat \ {0}
  BY <1>3, RowTypes
<1>4. "FAILED" \in Settled /\ "ACKNOWLEDGED" \in Settled /\ "CANCELED" \in Settled
  BY DEF Settled
<1>5. CASE Precheck(p)
  <2>1. i \in Inverters /\ k \in Keys
    BY <1>1, <1>5 DEF Precheck
  <2>2. CASE \E m \in Existing(i, k) : FoundIntent(p, m)
    BY <1>5, <2>2, FoundTypes DEF Existing, Precheck, TypeOK, commerce, flags
  <2>3. CASE Done(p, "REJECTED")
    <3>1. call' \in [Procs -> Calls]
      BY <1>5, <2>3, GoOn DEF Precheck
    <3>2. QED BY <1>5, <3>1 DEF Precheck, TypeOK, commerce, flags
  <2>4. CASE Call(p, [call[p] EXCEPT !.pc = "phase1"])
    <3>1. call' \in [Procs -> Calls]
      BY <1>5, <2>4, CallShape, NextPc DEF Precheck
    <3>2. QED BY <1>5, <3>1 DEF Precheck, TypeOK, commerce, flags
  <2>5. QED BY <1>5, <2>2, <2>3, <2>4 DEF Precheck
<1>6. CASE Phase1(p)
  <2>1. i \in Inverters /\ k \in Keys /\ call[p].pc = "phase1"
    BY <1>1, <1>6 DEF Phase1
  <2>2. CASE \E m \in Existing(i, k) : FoundIntent(p, m) /\ UNCHANGED cmds
    <3>1. call' \in [Procs -> Calls]
      BY <2>1, <2>2, FoundTypes DEF Existing
    <3>2. QED BY <1>6, <2>2, <3>1 DEF Phase1, TypeOK, commerce, flags
  <2>3. CASE CreateIntent(p)
    <3> DEFINE row == [key |-> k, status |-> "PENDING"]
    <3>1. row \in Command
      BY <2>1 DEF Command
    <3>2. cmds' = [cmds EXCEPT ![i] = Append(@, row)] /\ Execute(p, i, k, Len(cmds[i]) + 1, FALSE)
      BY <2>3 DEF CreateIntent
    <3> HIDE DEF row
    <3>3. cmds' \in [Inverters -> Seq(Command)]
      BY <2>1, <3>1, <3>2, AppendTypes
    <3>4. Len(cmds[i]) + 1 \in Nat \ {0}
      BY <2>1, RowTypes
    <3>5. call' \in [Procs -> Calls]
      BY <2>1, <3>2, <3>4, GoOn
    <3>6. QED BY <1>6, <3>3, <3>5 DEF Phase1, TypeOK, commerce, flags
  <2>4. CASE RefuseIntent(p)
    <3>1. call' \in [Procs -> Calls] /\ UNCHANGED cmds
      BY <2>1, <2>4, GoOn DEF RefuseIntent
    <3>2. QED BY <1>6, <3>1 DEF Phase1, TypeOK, commerce, flags
  <2>5. QED BY <1>6, <2>2, <2>3, <2>4 DEF Phase1
<1>7. CASE Phase2Begin(p)
  <2>1. call[p].pc = "phase2"
    BY <1>7 DEF Phase2Begin
  <2>2. CASE Done(p, cmds[i][n].status) /\ UNCHANGED <<cmds, sweep>>
    <3>1. call' \in [Procs -> Calls]
      BY <1>2, <1>3, <2>1, <2>2, GoOn
    <3>2. QED BY <1>7, <2>2, <3>1 DEF Phase2Begin, TypeOK, commerce, flags
  <2>3. CASE FailOrSweep(p)
    <3>1. /\ call' \in [Procs -> Calls] /\ sweep' \in [Procs -> Sweeps]
          /\ cmds' \in [Inverters -> Seq(Command)]
      BY <2>1, <2>3, FailOrSweepTypes
    <3>2. QED BY <1>7, <3>1 DEF Phase2Begin, TypeOK, commerce, flags
  <2>4. CASE Call(p, [call[p] EXCEPT !.pc = "held"]) /\ UNCHANGED <<cmds, sweep>>
    <3>1. call' \in [Procs -> Calls]
      BY <1>2, <2>1, <2>4, NextPc
    <3>2. QED BY <1>7, <2>4, <3>1 DEF Phase2Begin, TypeOK, commerce, flags
  <2>5. QED BY <1>7, <2>2, <2>3, <2>4 DEF Phase2Begin
<1>8. CASE Vendor(p)
  <2>1. call[p] \in Executing /\ i \in Inverters
    BY <1>2, <1>8 DEF Vendor
  <2>2. call' \in [Procs -> Calls]
    BY <1>8, <2>1, NextPc DEF Vendor
  <2>3. physical' \in [Inverters -> BOOLEAN]
    BY <1>8, <2>1 DEF Vendor, TypeOK
  <2>4. QED BY <1>8, <2>2, <2>3 DEF Vendor, TypeOK, commerce, flags
<1>9. CASE Acknowledge(p)
  <2>1. n \in DOMAIN cmds[i] /\ i \in Inverters /\ k \in Keys
    BY <1>2, <1>9 DEF Acknowledge
  <2> DEFINE new(m) == IF m = n THEN [cmds[i][m] EXCEPT !.status = "ACKNOWLEDGED"]
                       ELSE IF Superseded(i, n, k, m)
                            THEN [cmds[i][m] EXCEPT !.status = "CANCELED"]
                       ELSE cmds[i][m]
             rows == [m \in DOMAIN cmds[i] |-> new(m)]
  <2>2. cmds' = [cmds EXCEPT ![i] = rows]
    BY <1>9 DEF Acknowledge
  <2>3. \A m \in DOMAIN cmds[i] : new(m) \in Command
    BY <1>4, <2>1, RowTypes DEF Command
  <2> HIDE DEF new
  <2>4. rows \in Seq(Command)
    BY <2>1, <2>3, RowTypes, IsASeq
  <2>5. cmds' \in [Inverters -> Seq(Command)]
    BY <2>1, <2>2, <2>4, CmdsTypes
  <2>6. call' \in [Procs -> Calls]
    BY <1>4, <1>9, GoOn DEF Acknowledge
  <2>7. optimizationOn' \in BOOLEAN
    BY <1>9 DEF Acknowledge
  <2>8. QED BY <1>9, <2>5, <2>6, <2>7 DEF Acknowledge, TypeOK, commerce, flags
<1>10. CASE RecordUnknownOutcome(p)
  <2>1. call' \in [Procs -> Calls]
    BY <1>2, <1>3, <1>10, GoOn DEF RecordUnknownOutcome
  <2>2. QED BY <1>10, <2>1 DEF RecordUnknownOutcome, TypeOK, commerce, flags
<1>11. CASE RecordExecutionFailure(p)
  <2>1. n \in DOMAIN cmds[i] /\ i \in Inverters
    BY <1>2, <1>11 DEF RecordExecutionFailure
  <2>2. FailureStatus(i, n) \in Settled \cup {"PENDING"}
    BY <1>3, <1>4, <2>1 DEF FailureStatus
  <2>3. cmds' \in [Inverters -> Seq(Command)]
    BY <1>11, <2>1, <2>2, StatusTypes DEF RecordExecutionFailure
  <2>4. call' \in [Procs -> Calls]
    BY <1>11, <2>2, GoOn DEF RecordExecutionFailure
  <2>5. QED BY <1>11, <2>3, <2>4 DEF RecordExecutionFailure, TypeOK, commerce, flags
<1>12. CASE Phase1Error(p)
  <2>1. call' \in [Procs -> Calls]
    BY <1>12, GoOn DEF Phase1Error
  <2>2. QED BY <1>12, <2>1, FaultTypes DEF Phase1Error, TypeOK, commerce, flags
<1>13. CASE ConnectionUnusable(p)
  <2>1. /\ call' \in [Procs -> Calls] /\ sweep' \in [Procs -> Sweeps]
        /\ cmds' \in [Inverters -> Seq(Command)]
    BY <1>13, FailOrSweepTypes DEF ConnectionUnusable
  <2>2. QED BY <1>13, <2>1, FaultTypes DEF ConnectionUnusable, TypeOK, commerce, flags
<1>14. CASE Phase2Error(p)
  <2>1. call' \in [Procs -> Calls]
    BY <1>2, <1>14, NextPc DEF Phase2Error
  <2>2. QED BY <1>14, <2>1, FaultTypes DEF Phase2Error, TypeOK, commerce, flags
<1>15. CASE OutcomeLost(p)
  <2>1. call' \in [Procs -> Calls]
    BY <1>2, <1>15, NextPc DEF OutcomeLost, Holding
  <2>2. QED BY <1>15, <2>1, FaultTypes DEF OutcomeLost, TypeOK, commerce, flags
<1>16. QED
  BY <1>5, <1>6, <1>7, <1>8, <1>9, <1>10, <1>11, <1>12, <1>13, <1>14, <1>15
     DEF IssueInverterCommand, CommandFault

\* The steps of a sweep.  A worker that sweeps is in the middle of its job.
LEMMA SweepTypes ==
  ASSUME TypeOK, WorkInv, NEW p \in Procs, Sweep(p)
  PROVE  TypeOK'
<1> DEFINE s == sweep[p]
<1>1. s \in JobSweeps \cup UnresolvedSweeps /\ s \in Sweeps /\ s.on
  BY SweepShape DEF Sweep, TypeOK
<1>2. s.inv \in Inverters /\ s.try \in {1, 2} /\ s.failed \in BOOLEAN
  BY <1>1 DEF JobSweeps, UnresolvedSweeps
<1>3. call[p] \in Returned /\ call[p].pc = "done"
  BY CallShape DEF Sweep
<1>4. call' \in [Procs -> Calls] /\ sweep' \in [Procs -> Sweeps] /\ UNCHANGED work => TypeOK'
  BY DEF Sweep, TypeOK, commerce, flags
<1>5. SweepKey(s, "stable") \in Keys /\ SweepKey(s, "random") \in Keys
  BY <1>1, KeyTypes
<1>6. CASE SweepAgain(p)
  <2>1. s.try = 1
    BY <1>2, <1>6 DEF SweepAgain, TargetDone, TriesLeft
  <2>2. [s EXCEPT !.try = 2] \in Sweeps
    <3>1. CASE s \in JobSweeps
      BY <3>1 DEF JobSweeps, Sweeps
    <3>2. CASE s \in UnresolvedSweeps
      BY <3>2 DEF UnresolvedSweeps, Sweeps
    <3>3. QED BY <1>1, <3>1, <3>2
  <2>3. sweep' = [sweep EXCEPT ![p] = [s EXCEPT !.try = 2]]
    BY <1>6, <2>1 DEF SweepAgain
  <2>4. sweep' \in [Procs -> Sweeps]
    BY <2>2, <2>3 DEF TypeOK
  <2>5. call' \in [Procs -> Calls]
    BY <1>2, <1>3, <1>5, <1>6, GoOn DEF SweepAgain
  <2>6. QED BY <1>4, <1>6, <2>4, <2>5 DEF SweepAgain
<1>7. CASE SweepNext(p)
  <2>1. s.inv + 1 \in Inverters
    BY <1>2, <1>7, NAssumption DEF SweepNext, Inverters
  <2>2. SweepFailed(p) \in BOOLEAN
    BY DEF SweepFailed
  <2> DEFINE t == [s EXCEPT !.inv = s.inv + 1, !.try = 1, !.failed = SweepFailed(p)]
  <2>3. t \in Sweeps
    <3>1. CASE s \in JobSweeps
      BY <2>1, <2>2, <3>1 DEF JobSweeps, Sweeps
    <3>2. CASE s \in UnresolvedSweeps
      BY <2>1, <2>2, <3>2 DEF UnresolvedSweeps, Sweeps
    <3>3. QED BY <1>1, <3>1, <3>2
  <2>4. sweep' = [sweep EXCEPT ![p] = t]
    BY <1>7 DEF SweepNext
  <2> HIDE DEF t
  <2>5. sweep' \in [Procs -> Sweeps]
    BY <2>3, <2>4 DEF TypeOK
  <2>6. call' \in [Procs -> Calls]
    BY <1>3, <1>5, <1>7, <2>1, GoOn DEF SweepNext
  <2>7. QED BY <1>4, <1>7, <2>5, <2>6 DEF SweepNext
<1>8. CASE SweepEnd(p)
  <2>1. sweep' \in [Procs -> Sweeps]
    BY <1>8, IdleTypes DEF SweepEnd, TypeOK
  <2>2. CASE /\ s.kind = "job" /\ Call(p, IdleCall)
             /\ work' = [work EXCEPT ![p].pc = IF SweepFailed(p) THEN "failed" ELSE "confirmed"]
    <3>1. call' \in [Procs -> Calls]
      BY <2>2, CallTypes
    <3>2. work' \in [Workers -> Works]
      <4>1. CASE p \in Workers
        <5>1. work[p] \in Works /\ work[p].pc = "sweeping"
          BY <1>1, <4>1 DEF WorkInv, TypeOK, Works
        <5>2. [work[p] EXCEPT !.pc = "failed"] \in Works /\ [work[p] EXCEPT !.pc = "confirmed"] \in Works
          BY <5>1 DEF Works, IdleWork
        <5>3. QED BY <2>2, <4>1, <5>2 DEF TypeOK, Works
      <4>2. CASE p \notin Workers
        BY <2>2, <4>2 DEF TypeOK, Works
      <4>3. QED BY <4>1, <4>2
    <3>3. QED BY <2>1, <3>1, <3>2 DEF Sweep, TypeOK, Works, commerce, flags
  <2>3. CASE s.kind = "unresolved" /\ UNCHANGED work
    <3> DEFINE i == s.att  key == UserKey(s.ref)
    <3>1. i \in Inverters /\ s.ref \in OnRequests
      BY <1>1, <2>3, SweepShape DEF UnresolvedSweeps
    <3>2. key \in Keys
      BY <3>1, KeyTypes DEF Requests
    <3>3. PICK n \in Existing(i, key) :
            Call(p, [pc |-> "done", inv |-> i, key |-> key, res |-> cmds[i][n].status])
      BY <1>8, <2>3 DEF SweepEnd
    <3> HIDE DEF key
    <3>4. cmds[i][n].status \in Settled \cup {"PENDING"}
      BY <3>1, RowTypes DEF Existing
    <3>5. [pc |-> "done", inv |-> i, key |-> key, res |-> cmds[i][n].status] \in Returned
      BY <3>1, <3>2, <3>4 DEF Returned
    <3>6. call' \in [Procs -> Calls]
      BY <3>3, <3>5, CallTypes
    <3>7. QED BY <1>4, <2>1, <2>3, <3>6
  <2>4. QED BY <1>8, <2>2, <2>3 DEF SweepEnd
<1>9. CASE SweepClaimLost(p)
  <2>1. call' \in [Procs -> Calls]
    BY <1>9, CallTypes DEF SweepClaimLost
  <2>2. sweep' \in [Procs -> Sweeps] /\ work' \in [Workers -> Works]
    BY <1>9, IdleTypes DEF SweepClaimLost, TypeOK, Works
  <2>3. QED BY <2>1, <2>2 DEF Sweep, TypeOK, Works, commerce, flags
<1>10. QED BY <1>6, <1>7, <1>8, <1>9 DEF Sweep

\* The steps of the users' requests and of the reconciler.
LEMMA SiteTypes ==
  ASSUME TypeOK, NEW u \in Users, SiteCommand(u) \/ \E r \in Requests : SiteRequest(u, r)
  PROVE  TypeOK'
<1>1. u \in Procs /\ site[u] \in Sites
  BY DEF Procs, TypeOK, Sites
<1>2. 1 \in Inverters
  BY NAssumption DEF Inverters
<1>3. CASE \E r \in Requests : SiteRequest(u, r)
  <2>1. PICK r \in Requests : SiteRequest(u, r)
    BY <1>3
  <2>2. [pc |-> "loop", req |-> r, acked |-> {}] \in Sites
    BY DEF Sites
  <2>3. site' \in [Users -> Sites]
    BY <2>1, <2>2 DEF SiteRequest, TypeOK, Sites
  <2>4. NewCall(1, UserKey(r)) \in Early
    BY <1>2, KeyTypes
  <2>5. call' \in [Procs -> Calls]
    BY <1>1, <2>1, <2>4, CallTypes DEF SiteRequest
  <2>6. requiredInfo' \in BOOLEAN
    BY <2>1 DEF SiteRequest, TypeOK
  <2>7. QED BY <2>1, <2>3, <2>5, <2>6 DEF SiteRequest, TypeOK, Sites, commerce, flags
<1>4. CASE SiteCommand(u)
  <2>1. /\ call[u].pc = "done" /\ call[u] \in Returned /\ call[u].inv \in Inverters
        /\ site[u].pc # "idle"
    BY <1>1, <1>4, CallShape DEF SiteCommand
  <2>2. site[u].req \in Requests /\ site[u].acked \in SUBSET Inverters /\ site[u].pc \in {"loop", "rollback"}
    BY <1>1, <2>1 DEF Sites, IdleSite
  <2>3. ASSUME site' \in [Users -> Sites], call' \in [Procs -> Calls], optimizationOn' \in BOOLEAN
        PROVE  TypeOK'
    BY <1>4, <2>3 DEF SiteCommand, TypeOK, Sites, commerce
  <2>4. ASSUME site' = [site EXCEPT ![u] = IdleSite], Call(u, IdleCall),
               optimizationOn' \in BOOLEAN
        PROVE  TypeOK'
    <3>1. call' \in [Procs -> Calls]
      BY <1>1, <2>4, CallTypes
    <3>2. site' \in [Users -> Sites]
      BY <2>4, IdleTypes DEF TypeOK, Sites
    <3>3. QED BY <2>3, <2>4, <3>1, <3>2
  <2>5. ASSUME Rollback(u, site[u].acked) PROVE TypeOK'
    <3>1. CASE SiteEnd(u, FALSE)
      BY <2>4, <3>1 DEF SiteEnd
    <3>2. CASE ~SiteEnd(u, FALSE)
      <4>1. PICK i \in site[u].acked :
              /\ site' = [site EXCEPT ![u].pc = "rollback", ![u].acked = site[u].acked \ {i}]
              /\ Call(u, NewCall(i, RollbackKey(site[u].req)))
              /\ UNCHANGED optimizationOn
        BY <2>5, <3>2 DEF Rollback
      <4>2. NewCall(i, RollbackKey(site[u].req)) \in Early
        BY <2>2, KeyTypes
      <4>3. call' \in [Procs -> Calls]
        BY <1>1, <4>1, <4>2, CallTypes
      <4> DEFINE new == [site[u] EXCEPT !.pc = "rollback", !.acked = site[u].acked \ {i}]
      <4>4. new \in Sites
        <5>1. site[u] \in ActiveSites
          BY <1>1, <2>1 DEF Sites, ActiveSites, IdleSite
        <5>2. new \in ActiveSites
          BY <5>1 DEF ActiveSites
        <5>3. QED BY <5>2 DEF Sites, ActiveSites
      <4>5. site' = [site EXCEPT ![u] = new]
        BY <4>1
      <4> HIDE DEF new
      <4>6. site' \in [Users -> Sites]
        BY <4>4, <4>5 DEF TypeOK, Sites
      <4>7. QED BY <2>3, <4>1, <4>3, <4>6 DEF TypeOK
    <3>3. QED BY <3>1, <3>2
  <2>6. CASE SiteAdvance(u)
    <3> DEFINE i == call[u].inv
    <3>1. CASE SiteEnd(u, Turnon(u))
      BY <2>4, <3>1 DEF SiteEnd, Turnon
    <3>2. CASE ~SiteEnd(u, Turnon(u))
      <4> DEFINE acked == IF Turnon(u) THEN site[u].acked \cup {i} ELSE site[u].acked
      <4>1. /\ i < N
            /\ site' = [site EXCEPT ![u].acked = acked]
            /\ Call(u, NewCall(i + 1, UserKey(site[u].req)))
            /\ UNCHANGED optimizationOn
        BY <2>6, <3>2 DEF SiteAdvance
      <4>2. i + 1 \in Inverters
        BY <2>1, <4>1, NAssumption DEF Inverters
      <4>3. NewCall(i + 1, UserKey(site[u].req)) \in Early
        BY <2>2, <4>2, KeyTypes
      <4>4. call' \in [Procs -> Calls]
        BY <1>1, <4>1, <4>3, CallTypes
      <4>5. acked \in SUBSET Inverters
        BY <2>1, <2>2
      <4> HIDE DEF acked
      <4> DEFINE new == [site[u] EXCEPT !.acked = acked]
      <4>6. new \in Sites
        <5>1. site[u] \in ActiveSites
          BY <1>1, <2>1 DEF Sites, ActiveSites, IdleSite
        <5>2. new \in ActiveSites
          BY <4>5, <5>1 DEF ActiveSites
        <5>3. QED BY <5>2 DEF Sites, ActiveSites
      <4>7. site' = [site EXCEPT ![u] = new]
        BY <4>1
      <4> HIDE DEF new
      <4>8. site' \in [Users -> Sites]
        BY <4>6, <4>7 DEF TypeOK, Sites
      <4>9. QED BY <2>3, <4>1, <4>4, <4>8 DEF TypeOK
    <3>3. QED BY <3>1, <3>2
  <2>7. CASE SiteFail(u)
    BY <2>4, <2>5, <2>7 DEF SiteFail, SiteEnd
  <2>8. QED BY <1>4, <2>5, <2>6, <2>7 DEF SiteCommand
<1>5. QED BY <1>3, <1>4

LEMMA ReconcileTypes ==
  ASSUME TypeOK, NEW c \in Reconcilers,
         \/ ReconcileDone(c)
         \/ \E i \in Inverters : \E n \in DOMAIN cmds[i] : ReconcilePick(c, i, n)
  PROVE  TypeOK'
<1>1. c \in Procs
  BY DEF Procs
<1>2. CASE ReconcileDone(c)
  <2>1. call' \in [Procs -> Calls]
    BY <1>1, <1>2, CallTypes DEF ReconcileDone
  <2>2. QED BY <1>2, <2>1 DEF ReconcileDone, TypeOK, commerce, flags
<1>3. CASE \E i \in Inverters : \E n \in DOMAIN cmds[i] : ReconcilePick(c, i, n)
  <2>0. PICK i \in Inverters : \E n \in DOMAIN cmds[i] : ReconcilePick(c, i, n)
    BY <1>3
  <2>1. PICK n \in DOMAIN cmds[i] : ReconcilePick(c, i, n)
    BY <2>0
  <2>2. cmds[i][n].key \in Keys /\ n \in Nat \ {0}
    BY RowTypes
  <2> DEFINE new == [pc |-> "phase2", inv |-> i, key |-> cmds[i][n].key, n |-> n, rep |-> TRUE]
  <2>3. new \in Executing
    BY <2>2 DEF Executing
  <2>4. call' \in [Procs -> Calls]
    BY <1>1, <2>1, <2>3, CallTypes DEF ReconcilePick, Execute
  <2>5. QED BY <2>1, <2>4 DEF ReconcilePick, TypeOK, commerce, flags
<1>4. QED BY <1>2, <1>3

\* The steps of the job processor.
LEMMA WorkerTypes ==
  ASSUME TypeOK, NEW w \in Workers, Worker(w) \/ \E e \in Events : JobSelect(w, e)
  PROVE  TypeOK'
<1>1. w \in Procs /\ work[w] \in Works
  BY DEF Procs, TypeOK, Works
<1>2. ASSUME work[w].pc # "idle"
      PROVE  /\ work[w].job \in Events /\ work[w].att \in Nat
             /\ \A pc \in {"claimed", "sweeping", "obsolete", "confirmed", "failed"} :
                  [work[w] EXCEPT !.pc = pc] \in Works
  BY <1>1, <1>2 DEF Works, IdleWork
<1>3. ASSUME NEW new \in Works, work' = [work EXCEPT ![w] = new]
      PROVE  work' \in [Workers -> Works]
  BY <1>3 DEF TypeOK, Works
<1>4. IdleWork \in Works
  BY IdleTypes
<1>5. \A e \in Events : jobs[e] \in Jobs
  BY DEF TypeOK
<1>6. CASE \E e \in Events : JobSelect(w, e)
  <2>1. PICK e \in Events : JobSelect(w, e)
    BY <1>6
  <2> DEFINE new == [pc |-> "selected", job |-> e, att |-> jobs[e].attempts + 1]
  <2>2. jobs[e].attempts + 1 \in Nat
    BY <1>5 DEF Jobs
  <2>3. new \in Works
    BY <2>2 DEF Works
  <2>4. work' = [work EXCEPT ![w] = new]
    BY <2>1 DEF JobSelect
  <2> HIDE DEF new
  <2>5. work' \in [Workers -> Works]
    BY <1>3, <2>3, <2>4
  <2>6. QED BY <2>1, <2>5 DEF JobSelect, TypeOK, Works, commerce, flags
<1>7. CASE JobClaim(w)
  <2> DEFINE e == work[w].job
             job == [status |-> "RUNNING", owner |-> w, attempts |-> jobs[e].attempts + 1]
  <2>1. e \in Events
    BY <1>2, <1>7 DEF JobClaim
  <2>2. CASE jobs' = [jobs EXCEPT ![e] = job] /\ work' = [work EXCEPT ![w].pc = "claimed"]
    <3>1. jobs[e].attempts + 1 \in Nat
      BY <1>5, <2>1 DEF Jobs
    <3>2. job \in Jobs
      BY <3>1 DEF Jobs
    <3>3. jobs' \in [Events -> Jobs]
      BY <2>1, <2>2, <3>2 DEF TypeOK
    <3>4. work' = [work EXCEPT ![w] = [work[w] EXCEPT !.pc = "claimed"]]
      BY <2>2
    <3>5. [work[w] EXCEPT !.pc = "claimed"] \in Works
      BY <1>2, <1>7 DEF JobClaim
    <3>6. work' \in [Workers -> Works]
      BY <1>3, <3>4, <3>5
    <3>7. QED BY <1>7, <3>3, <3>6 DEF JobClaim, TypeOK, Works, flags
  <2>3. CASE work' = [work EXCEPT ![w] = IdleWork] /\ UNCHANGED jobs
    <3>1. work' \in [Workers -> Works]
      BY <1>3, <1>4, <2>3
    <3>2. QED BY <1>7, <2>3, <3>1 DEF JobClaim, TypeOK, Works, flags
  <2>4. QED BY <1>7, <2>2, <2>3 DEF JobClaim
<1>8. CASE JobBegin(w)
  <2>1. /\ work[w].job \in Events /\ work[w].att \in Nat
        /\ \A pc \in {"claimed", "sweeping", "obsolete", "confirmed", "failed"} :
             [work[w] EXCEPT !.pc = pc] \in Works
    BY <1>2, <1>8 DEF JobBegin
  <2> DEFINE s == NewSweep("job", work[w].job, work[w].att)
  <2>2. CASE work' = [work EXCEPT ![w] = IdleWork] /\ UNCHANGED <<call, sweep>>
    <3>1. work' \in [Workers -> Works]
      BY <1>3, <1>4, <2>2
    <3>2. QED BY <1>8, <2>2, <3>1 DEF JobBegin, TypeOK, Works, commerce, flags
  <2>3. CASE work' = [work EXCEPT ![w].pc = "obsolete"] /\ UNCHANGED <<call, sweep>>
    <3>1. work' = [work EXCEPT ![w] = [work[w] EXCEPT !.pc = "obsolete"]]
      BY <2>3
    <3>2. work' \in [Workers -> Works]
      BY <1>3, <2>1, <3>1
    <3>3. QED BY <1>8, <2>3, <3>2 DEF JobBegin, TypeOK, Works, commerce, flags
  <2>4. CASE /\ work' = [work EXCEPT ![w].pc = "sweeping"] /\ sweep' = [sweep EXCEPT ![w] = s]
             /\ Call(w, NewCall(1, SweepKey(s, "stable")))
    <3>1. work' = [work EXCEPT ![w] = [work[w] EXCEPT !.pc = "sweeping"]]
      BY <2>4
    <3>2. work' \in [Workers -> Works]
      BY <1>3, <2>1, <3>1
    <3>3. 1 \in Inverters
      BY NAssumption DEF Inverters
    <3>4. s \in JobSweeps
      BY <2>1, <3>3 DEF NewSweep, JobSweeps
    <3>5. \A x \in JobSweeps : x \in Sweeps /\ x.on
      BY DEF JobSweeps, Sweeps
    <3>6. sweep' \in [Procs -> Sweeps]
      BY <1>1, <2>4, <3>4, <3>5 DEF TypeOK
    <3> HIDE DEF s
    <3>7. NewCall(1, SweepKey(s, "stable")) \in Early
      BY <3>3, <3>4, <3>5, KeyTypes
    <3>8. call' \in [Procs -> Calls]
      BY <1>1, <2>4, <3>7, CallTypes
    <3>9. QED BY <1>8, <3>2, <3>6, <3>8 DEF JobBegin, TypeOK, Works, commerce, flags
  <2>5. QED BY <1>8, <2>2, <2>3, <2>4 DEF JobBegin
<1>9. CASE JobEnd(w)
  <2> DEFINE e == work[w].job
             status == IF work[w].pc = "failed" THEN "PENDING" ELSE "SUCCEEDED"
  <2>1. e \in Events
    BY <1>2, <1>9 DEF JobEnd
  <2>2. work' \in [Workers -> Works]
    BY <1>3, <1>4, <1>9 DEF JobEnd
  <2>3. [jobs[e] EXCEPT !.status = status, !.owner = "nobody"] \in Jobs
    BY <1>5, <2>1 DEF Jobs
  <2>4. jobs' = [jobs EXCEPT ![e] = [jobs[e] EXCEPT !.status = status, !.owner = "nobody"]]
          \/ jobs' = jobs
    BY <1>9 DEF JobEnd
  <2>5. jobs' \in [Events -> Jobs]
    BY <2>1, <2>3, <2>4 DEF TypeOK
  <2>6. QED BY <1>9, <2>2, <2>5 DEF JobEnd, TypeOK, Works, flags
<1>10. QED BY <1>6, <1>7, <1>8, <1>9 DEF Worker

LEMMA RecoverTypes ==
  ASSUME TypeOK, NEW e \in Events, JobRecover(e)
  PROVE  TypeOK'
<1> jobs[e] \in Jobs
  BY DEF TypeOK
<1>1. [jobs[e] EXCEPT !.status = "PENDING", !.owner = "nobody"] \in Jobs
  BY DEF Jobs
<1>2. jobs' = [jobs EXCEPT ![e] = [jobs[e] EXCEPT !.status = "PENDING", !.owner = "nobody"]]
  BY DEF JobRecover
<1>3. jobs' \in [Events -> Jobs]
  BY <1>1, <1>2 DEF TypeOK
<1>4. faults' \in 0..MaxFaults
  BY FaultTypes DEF JobRecover, TypeOK
<1>5. QED BY <1>3, <1>4 DEF JobRecover, TypeOK, flags

\* A new deactivation job is PENDING; an existing one is left alone.
LEMMA EnqueueTypes ==
  ASSUME TypeOK, NEW e \in Events, Enqueue(e)
  PROVE  jobs' \in [Events -> Jobs]
<1> jobs[e] \in Jobs
  BY DEF TypeOK
<1>1. [jobs[e] EXCEPT !.status = "PENDING"] \in Jobs
  BY DEF Jobs
<1>2. jobs' = [jobs EXCEPT ![e] = [jobs[e] EXCEPT !.status = "PENDING"]] \/ jobs' = jobs
  BY DEF Enqueue
<1>3. QED BY <1>1, <1>2 DEF TypeOK

LEMMA CommerceTypes ==
  ASSUME TypeOK, Commerce
  PROVE  TypeOK'
<1> USE DEF NotCommerce, flags
<1>1. ASSUME NEW s \in Subs, NEW status \in {"ACTIVE", "LAPSED", "ENDED"},
             subs' = [subs EXCEPT ![s] = status]
      PROVE  subs' \in [Subs -> {"NONE", "ACTIVE", "LAPSED", "ENDED"}]
  BY <1>1 DEF TypeOK
<1>2. ASSUME NEW s \in Subs, Subscribe(s) \/ Lapse(s) PROVE TypeOK'
  <2>1. subs' \in [Subs -> {"NONE", "ACTIVE", "LAPSED", "ENDED"}]
    BY <1>1, <1>2 DEF Subscribe, Lapse
  <2>2. QED BY <1>2, <2>1 DEF Subscribe, Lapse, TypeOK
<1>3. ASSUME NEW s \in Subs, NEW e \in Events, Enqueue(e), subs' = [subs EXCEPT ![s] = "ENDED"],
             UNCHANGED <<userActive, NotCommerce>>
      PROVE  TypeOK'
  <2>1. subs' \in [Subs -> {"NONE", "ACTIVE", "LAPSED", "ENDED"}]
    BY <1>1, <1>3
  <2>2. jobs' \in [Events -> Jobs]
    BY <1>3, EnqueueTypes
  <2>3. QED BY <1>3, <2>1, <2>2 DEF TypeOK
<1>4. ASSUME NEW s \in Subs, Expire(s) \/ Cancel(s) PROVE TypeOK'
  BY <1>3, <1>4 DEF Expire, Cancel, Events
<1>5. ASSUME NEW s \in Subs, NEW e \in Refunds, Refund(s, e) PROVE TypeOK'
  BY <1>3, <1>5 DEF Refund, Events
<1>6. ASSUME NEW e \in Disablings, Disable(e) PROVE TypeOK'
  <2>1. jobs' \in [Events -> Jobs]
    BY <1>6, EnqueueTypes DEF Disable, Events
  <2>2. QED BY <1>6, <2>1 DEF Disable, TypeOK
<1>7. CASE Enable
  BY <1>7 DEF Enable, TypeOK
<1>8. QED BY <1>2, <1>4, <1>5, <1>6, <1>7 DEF Commerce

LEMMA OtherTypes ==
  ASSUME TypeOK, FlagsOverwritten \/ \E p \in Procs : Crash(p)
  PROVE  TypeOK'
<1>1. CASE FlagsOverwritten
  <2>1. requiredInfo' \in BOOLEAN /\ optimizationOn' \in BOOLEAN
    BY <1>1 DEF FlagsOverwritten, TypeOK
  <2>2. faults' \in 0..MaxFaults
    BY <1>1, FaultTypes DEF FlagsOverwritten
  <2>3. QED BY <1>1, <2>1, <2>2 DEF FlagsOverwritten, TypeOK, commerce
<1>2. ASSUME NEW p \in Procs, Crash(p) PROVE TypeOK'
  <2>1. call' \in [Procs -> Calls]
    BY <1>2, CallTypes DEF Crash
  <2>2. sweep' \in [Procs -> Sweeps]
    BY <1>2, IdleTypes DEF Crash, TypeOK
  <2>3. site' \in [Users -> Sites] /\ work' \in [Workers -> Works]
    BY <1>2, IdleTypes DEF Crash, TypeOK, Sites, Works
  <2>4. faults' \in 0..MaxFaults
    BY <1>2, FaultTypes DEF Crash
  <2>5. QED BY <1>2, <2>1, <2>2, <2>3, <2>4 DEF Crash, TypeOK, Sites, Works, commerce, flags
<1>3. QED BY <1>1, <1>2

\* Every step keeps the types, given what calls and workers rely on.
LEMMA TypeStep == TypeOK /\ CallInv /\ WorkInv /\ [Next]_vars => TypeOK'
<1> SUFFICES ASSUME TypeOK, CallInv, WorkInv, [Next]_vars PROVE TypeOK'
  OBVIOUS
<1>1. \A p \in Procs : HasRow(p)
  BY DEF CallInv, HasRow
<1>2. CASE UNCHANGED vars
  BY <1>2 DEF vars, TypeOK
<1>3. CASE Next
  BY <1>1, <1>3, CallStepTypes, SweepTypes, SiteTypes, ReconcileTypes, WorkerTypes,
     RecoverTypes, CommerceTypes, OtherTypes DEF Next
<1>4. QED BY <1>2, <1>3
===============================================================================
