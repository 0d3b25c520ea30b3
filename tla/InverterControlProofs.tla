------------------------ MODULE InverterControlProofs ------------------------
(***************************************************************************)
(* The inductive invariant IInv of InverterControl, and what follows from  *)
(* it: types, the safety OFF, the finality and truth of acknowledgements,  *)
(* and the abstract promise.                                               *)
(***************************************************************************)
EXTENDS InverterControlTypes

-----------------------------------------------------------------------------
(* Who takes a step *)

ProcStep(p) ==
  \/ IssueInverterCommand(p) \/ CommandFault(p) \/ Sweep(p) \/ Crash(p)
  \/ p \in Users /\ (SiteCommand(p) \/ \E r \in Requests : SiteRequest(p, r))
  \/ p \in Reconcilers /\ ReconcileDone(p)
  \/ p \in Reconcilers /\ \E i \in Inverters : \E n \in DOMAIN cmds[i] : ReconcilePick(p, i, n)
  \/ p \in Workers /\ (Worker(p) \/ \E e \in Events : JobSelect(p, e))

OutsideStep == (\E e \in Events : JobRecover(e)) \/ Commerce \/ FlagsOverwritten

LEMMA WhoSteps == Next => OutsideStep \/ \E p \in Procs : ProcStep(p)
BY DEF Next, OutsideStep, ProcStep, Procs

LEMMA OutsideFrame ==
  OutsideStep => UNCHANGED <<cmds, physical, call, sweep, site, work>>
BY DEF OutsideStep, JobRecover, Commerce, FlagsOverwritten, Subscribe, Lapse, Expire,
       Cancel, Refund, Disable, Enable, NotCommerce

\* A step of one process leaves the others alone, and the entitlement.
LEMMA ProcFrame ==
  ASSUME TypeOK, NEW p \in Procs, ProcStep(p)
  PROVE  /\ UNCHANGED <<subs, userActive>>
         /\ \A q \in Procs : q # p => call'[q] = call[q] /\ sweep'[q] = sweep[q]
         /\ \A w \in Workers : w # p => work'[w] = work[w]
<1> USE DEF TypeOK, commerce, Call, Done, Execute
<1>1. CASE IssueInverterCommand(p) \/ CommandFault(p)
  BY <1>1 DEF IssueInverterCommand, CommandFault, Precheck, Phase1, Phase2Begin, Vendor,
     Acknowledge, RecordUnknownOutcome, RecordExecutionFailure, Phase1Error,
     ConnectionUnusable, Phase2Error, OutcomeLost, FoundIntent, CreateIntent,
     RefuseIntent, FailOrSweep
<1>2. CASE Sweep(p)
  BY <1>2 DEF Sweep, SweepAgain, SweepNext, SweepEnd, SweepClaimLost
<1>3. CASE Crash(p)
  BY <1>3 DEF Crash
<1>4. CASE SiteCommand(p) \/ \E r \in Requests : SiteRequest(p, r)
  BY <1>4 DEF SiteCommand, SiteRequest, SiteAdvance, SiteFail, Rollback, SiteEnd
<1>5. CASE ReconcileDone(p) \/ \E i \in Inverters : \E n \in DOMAIN cmds[i] : ReconcilePick(p, i, n)
  BY <1>5 DEF ReconcileDone, ReconcilePick
<1>6. CASE Worker(p) \/ \E e \in Events : JobSelect(p, e)
  BY <1>6 DEF Worker, JobSelect, JobClaim, JobBegin, JobEnd
<1>7. QED BY <1>1, <1>2, <1>3, <1>4, <1>5, <1>6 DEF ProcStep

-----------------------------------------------------------------------------
(* What the step of a process does to rows, inverters and locks *)

\* Rows are only added (by phase 1) and keep their keys.  Only a PENDING row on
\* the inverter of the call changes its status, never one held by another
\* process, and only the one whose command was applied is acknowledged.
CmdsStep(p) ==
  /\ \A i \in Inverters : DOMAIN cmds[i] \subseteq DOMAIN cmds'[i]
  /\ \A i \in Inverters : \A n \in DOMAIN cmds[i] :
       /\ cmds'[i][n].key = cmds[i][n].key
       /\ cmds'[i][n].status # cmds[i][n].status =>
            /\ Pending(i, n) /\ call[p].inv = i
            /\ \A q \in Procs : q # p /\ Holding(q) => call[q].inv # i \/ call[q].n # n
            /\ cmds'[i][n].status = "ACKNOWLEDGED" => call[p].pc = "applied" /\ n = call[p].n
  /\ \A i \in Inverters : \A n \in DOMAIN cmds'[i] :
       \/ n \in DOMAIN cmds[i]
       \/ /\ call[p].pc = "phase1" /\ i = call[p].inv
          /\ cmds'[i][n].key = call[p].key /\ cmds'[i][n].status = "PENDING"

\* A row set to a status, under the lock or by the catch block.
LEMMA StatusStep ==
  ASSUME TypeOK, NEW p \in Procs, NEW status \in {"PENDING"} \cup Settled,
         NEW j \in Inverters, NEW m \in DOMAIN cmds[j],
         SetStatus(j, m, status),
         call[p].inv = j, status # "ACKNOWLEDGED" \/ ~Pending(j, m),
         \/ status = cmds[j][m].status
         \/ /\ Pending(j, m)
            /\ \A q \in Procs : q # p /\ Holding(q) => call[q].inv # j \/ call[q].n # m
  PROVE  CmdsStep(p)
<1>1. /\ \A i \in Inverters : DOMAIN cmds'[i] = DOMAIN cmds[i]
      /\ \A i \in Inverters : \A n \in DOMAIN cmds[i] :
           /\ cmds'[i][n].key = cmds[i][n].key
           /\ i = j /\ n = m => cmds'[i][n].status = status
           /\ i # j \/ n # m => cmds'[i][n].status = cmds[i][n].status
  BY StatusTypes
<1>2. ASSUME NEW i \in Inverters, NEW n \in DOMAIN cmds[i], cmds'[i][n].status # cmds[i][n].status
      PROVE  /\ Pending(i, n) /\ call[p].inv = i /\ cmds'[i][n].status # "ACKNOWLEDGED"
             /\ \A q \in Procs : q # p /\ Holding(q) => call[q].inv # i \/ call[q].n # n
  <2>1. i = j /\ n = m /\ status # cmds[j][m].status /\ cmds'[i][n].status = status
    BY <1>1, <1>2
  <2>2. QED BY <2>1
<1>3. QED BY <1>1, <1>2 DEF CmdsStep

LEMMA NoCmdsStep ==
  ASSUME TypeOK, NEW p \in Procs, UNCHANGED cmds
  PROVE  CmdsStep(p)
<1>1. \A i \in Inverters : cmds'[i] = cmds[i]
  OBVIOUS
<1>2. QED BY <1>1 DEF CmdsStep

LEMMA FailOrSweepStep ==
  ASSUME TypeOK, NEW p \in Procs, HasRow(p), call[p].pc = "phase2",
         LockFree(call[p].inv), Pending(call[p].inv, call[p].n), FailOrSweep(p)
  PROVE  CmdsStep(p)
<1>1. CASE UNCHANGED cmds
  BY <1>1, NoCmdsStep
<1>2. CASE SetStatus(call[p].inv, call[p].n, "FAILED")
  <2>1. call[p].inv \in Inverters /\ call[p].n \in DOMAIN cmds[call[p].inv]
    BY CallShape DEF HasRow
  <2>2. "FAILED" \in Settled
    BY DEF Settled
  <2>3. \A q \in Procs : Holding(q) => call[q].inv # call[p].inv
    BY DEF LockFree
  <2>4. QED BY <1>2, <2>1, <2>2, <2>3, StatusStep
<1>3. QED BY <1>1, <1>2 DEF FailOrSweep

LEMMA CmdsSteps ==
  ASSUME TypeOK, CallInv, HeldInv, Mutex, NEW p \in Procs, ProcStep(p)
  PROVE  CmdsStep(p)
<1> DEFINE i == call[p].inv  k == call[p].key  n == call[p].n
<1>1. HasRow(p)
  BY DEF CallInv, HasRow
<1>2. CASE Phase1(p)
  <2>1. CASE UNCHANGED cmds
    BY <2>1, NoCmdsStep
  <2>2. CASE CreateIntent(p)
    <3> DEFINE row == [key |-> k, status |-> "PENDING"]
    <3>1. call[p].pc = "phase1" /\ i \in Inverters /\ k \in Keys
      BY <1>2, CallShape DEF Phase1
    <3>2. row \in Command /\ row.key = k /\ row.status = "PENDING"
      BY <3>1 DEF Command
    <3>3. cmds' = [cmds EXCEPT ![i] = Append(@, row)]
      BY <2>2 DEF CreateIntent
    <3> HIDE DEF row
    <3>4. /\ \A j \in Inverters : DOMAIN cmds[j] \subseteq DOMAIN cmds'[j]
          /\ \A j \in Inverters : \A m \in DOMAIN cmds[j] : cmds'[j][m] = cmds[j][m]
          /\ \A j \in Inverters : \A m \in DOMAIN cmds'[j] :
               m \in DOMAIN cmds[j] \/ (j = i /\ m = Len(cmds[i]) + 1)
          /\ cmds'[i][Len(cmds[i]) + 1] = row
      BY <3>1, <3>2, <3>3, AppendTypes
    <3>5. QED BY <3>1, <3>2, <3>4 DEF CmdsStep
  <2>3. QED BY <1>2, <2>1, <2>2 DEF Phase1, RefuseIntent
<1>3. CASE Phase2Begin(p)
  <2>1. CASE UNCHANGED cmds
    BY <2>1, NoCmdsStep
  <2>2. CASE Pending(i, n) /\ FailOrSweep(p)
    BY <1>1, <1>3, <2>2, FailOrSweepStep DEF Phase2Begin
  <2>3. QED BY <1>3, <2>1, <2>2 DEF Phase2Begin
<1>4. CASE ConnectionUnusable(p)
  BY <1>1, <1>4, FailOrSweepStep DEF ConnectionUnusable
<1>5. CASE Acknowledge(p)
  <2>1. call[p].pc = "applied" /\ i \in Inverters /\ n \in DOMAIN cmds[i]
    BY <1>1, <1>5, CallShape DEF Acknowledge, HasRow
  <2>2. /\ \A j \in Inverters : DOMAIN cmds'[j] = DOMAIN cmds[j]
        /\ \A j \in Inverters : j # i => cmds'[j] = cmds[j]
        /\ \A m \in DOMAIN cmds[i] : cmds'[i][m] =
             IF m = n THEN [cmds[i][m] EXCEPT !.status = "ACKNOWLEDGED"]
             ELSE IF Superseded(i, n, k, m) THEN [cmds[i][m] EXCEPT !.status = "CANCELED"]
             ELSE cmds[i][m]
    BY <1>5, <2>1 DEF Acknowledge, TypeOK
  <2>3. \A m \in DOMAIN cmds[i] : cmds[i][m] \in Command
    BY <2>1, RowTypes
  <2>4. \A m \in DOMAIN cmds[i] :
          /\ cmds'[i][m].key = cmds[i][m].key
          /\ m # n /\ cmds'[i][m].status # cmds[i][m].status =>
               Pending(i, m) /\ cmds'[i][m].status = "CANCELED"
          /\ m = n => cmds'[i][m].status = "ACKNOWLEDGED"
    BY <2>2, <2>3 DEF Command, Superseded
  <2>5. Pending(i, n)
    BY <2>1 DEF HeldInv, Holding
  <2>6. \A q \in Procs : q # p /\ Holding(q) => call[q].inv # i
    BY <2>1 DEF Mutex, Holding
  <2>7. QED BY <2>1, <2>2, <2>4, <2>5, <2>6 DEF CmdsStep
<1>6. CASE RecordExecutionFailure(p)
  <2>1. i \in Inverters /\ n \in DOMAIN cmds[i] /\ RowFree(i, n)
    BY <1>1, <1>6, CallShape DEF RecordExecutionFailure, HasRow
  <2>2. cmds[i][n].status \in {"PENDING"} \cup Settled
    BY <2>1, RowTypes
  <2>3. CASE Pending(i, n)
    <3>1. FailureStatus(i, n) = "FAILED" /\ "FAILED" \in Settled
      BY <2>3 DEF FailureStatus, Settled
    <3>2. SetStatus(i, n, "FAILED")
      BY <1>6, <3>1 DEF RecordExecutionFailure
    <3>3. \A q \in Procs : Holding(q) => call[q].inv # i \/ call[q].n # n
      BY <2>1 DEF RowFree
    <3>4. QED BY <2>1, <2>3, <3>1, <3>2, <3>3, StatusStep
  <2>4. CASE ~Pending(i, n)
    <3>1. SetStatus(i, n, cmds[i][n].status)
      BY <1>6, <2>4 DEF RecordExecutionFailure, FailureStatus
    <3>2. QED BY <2>1, <2>2, <2>4, <3>1, StatusStep
  <2>5. QED BY <2>3, <2>4
<1>7. CASE UNCHANGED cmds
  BY <1>7, NoCmdsStep
<1>8. QED
  BY <1>2, <1>3, <1>4, <1>5, <1>6, <1>7
     DEF ProcStep, IssueInverterCommand, CommandFault, Precheck, Vendor, RecordUnknownOutcome,
         Phase1Error, Phase2Error, OutcomeLost, Sweep, Crash, SiteCommand, SiteRequest,
         ReconcileDone, ReconcilePick, Worker, JobSelect, JobClaim, JobBegin, JobEnd

\* Only the holder of an inverter's lock changes it, to what its command asks.
PhysicalStep(p) ==
  \A i \in Inverters : physical'[i] # physical[i] =>
    /\ call[p].pc = "held" /\ call[p].inv = i
    /\ physical'[i] = (Type(call[p].key) = "turnon")

LEMMA PhysicalSteps ==
  ASSUME TypeOK, NEW p \in Procs, ProcStep(p)
  PROVE  PhysicalStep(p)
<1>1. CASE Vendor(p)
  <2>1. /\ call[p].pc = "held"
        /\ physical' = [physical EXCEPT ![call[p].inv] = (Type(call[p].key) = "turnon")]
    BY <1>1 DEF Vendor
  <2>2. \A i \in Inverters : i # call[p].inv => physical'[i] = physical[i]
    BY <2>1 DEF TypeOK
  <2>3. call[p].inv \in Inverters => physical'[call[p].inv] = (Type(call[p].key) = "turnon")
    BY <2>1 DEF TypeOK
  <2>4. QED BY <2>1, <2>2, <2>3 DEF PhysicalStep
<1>2. CASE ~Vendor(p)
  <2>1. UNCHANGED physical
    BY <1>2 DEF ProcStep, IssueInverterCommand, CommandFault, Precheck, Phase1, Phase2Begin,
       Acknowledge, RecordUnknownOutcome, RecordExecutionFailure, Phase1Error,
       ConnectionUnusable, Phase2Error, OutcomeLost, Sweep, Crash, SiteCommand, SiteRequest,
       ReconcileDone, ReconcilePick, Worker, JobSelect, JobClaim, JobBegin, JobEnd
  <2>2. QED BY <2>1 DEF PhysicalStep
<1>3. QED BY <1>1, <1>2

\* A process holds a lock because it held it before, or because phase 2 found
\* it free, the command PENDING and nothing against it.
HoldStep(p) ==
  Holding(p)' =>
    /\ call'[p].inv = call[p].inv /\ call'[p].key = call[p].key /\ call'[p].n = call[p].n
    /\ \/ Holding(p)
       \/ /\ call[p].pc = "phase2" /\ LockFree(call[p].inv)
          /\ Pending(call[p].inv, call[p].n) /\ ~Refused(p)
          /\ UNCHANGED <<cmds, physical, jobs, work>>
    /\ call'[p].pc = "applied" =>
         call[p].pc = "applied" \/ physical'[call[p].inv] = (Type(call[p].key) = "turnon")

LEMMA HoldSteps ==
  ASSUME TypeOK, NEW p \in Procs, ProcStep(p)
  PROVE  HoldStep(p)
<1>1. ASSUME NEW c, Call(p, c), c.pc \notin {"held", "applied"} PROVE HoldStep(p)
  <2>1. call'[p] = c
    BY <1>1 DEF Call, TypeOK
  <2>2. QED BY <1>1, <2>1 DEF HoldStep, Holding
<1>2. ASSUME NEW res, Done(p, res) PROVE HoldStep(p)
  BY <1>1, <1>2 DEF Done
<1>3. ASSUME NEW i, NEW k, NEW n, NEW rep, Execute(p, i, k, n, rep) PROVE HoldStep(p)
  BY <1>1, <1>3 DEF Execute
<1>4. ASSUME NEW i, NEW k, Call(p, NewCall(i, k)) PROVE HoldStep(p)
  BY <1>1, <1>4 DEF NewCall
<1>5. ASSUME Call(p, IdleCall) PROVE HoldStep(p)
  BY <1>1, <1>5 DEF IdleCall
<1>6. ASSUME NEW n, FoundIntent(p, n) PROVE HoldStep(p)
  BY <1>2, <1>3, <1>6 DEF FoundIntent
<1>7. ASSUME FailOrSweep(p) PROVE HoldStep(p)
  BY <1>2, <1>4, <1>7 DEF FailOrSweep
<1>8. ASSUME NEW pc, call[p] \in Early \cup Executing, Call(p, [call[p] EXCEPT !.pc = pc])
      PROVE  /\ call'[p] = [call[p] EXCEPT !.pc = pc]
             /\ call'[p].pc = pc /\ call'[p].inv = call[p].inv /\ call'[p].key = call[p].key
             /\ call[p] \in Executing => call'[p].n = call[p].n
  BY <1>8 DEF Call, TypeOK, Early, Executing
<1>9. CASE Precheck(p)
  <2>1. CASE Call(p, [call[p] EXCEPT !.pc = "phase1"])
    BY <1>8, <1>9, <2>1, CallShape DEF Precheck, HoldStep, Holding
  <2>2. QED BY <1>2, <1>6, <1>9, <2>1 DEF Precheck
<1>10. CASE Phase1(p)
  BY <1>2, <1>3, <1>6, <1>10 DEF Phase1, CreateIntent, RefuseIntent
<1>11. CASE Phase2Begin(p)
  <2>1. CASE ~Refused(p) /\ Pending(call[p].inv, call[p].n)
              /\ Call(p, [call[p] EXCEPT !.pc = "held"]) /\ UNCHANGED <<cmds, sweep>>
    <3>1. call[p] \in Executing /\ call[p].pc = "phase2" /\ LockFree(call[p].inv)
      BY <1>11, CallShape DEF Phase2Begin
    <3>2. /\ call'[p].pc = "held" /\ call'[p].inv = call[p].inv
          /\ call'[p].key = call[p].key /\ call'[p].n = call[p].n
      BY <1>8, <2>1, <3>1
    <3>3. UNCHANGED <<cmds, physical, jobs, work>>
      BY <1>11, <2>1 DEF Phase2Begin, commerce
    <3>4. QED BY <2>1, <3>1, <3>2, <3>3 DEF HoldStep
  <2>2. QED BY <1>2, <1>7, <1>11, <2>1 DEF Phase2Begin
<1>12. CASE Vendor(p)
  <2>1. call[p] \in Executing /\ call[p].pc = "held"
    BY <1>12, CallShape DEF Vendor
  <2>2. /\ call'[p].pc = "applied" /\ call'[p].inv = call[p].inv
        /\ call'[p].key = call[p].key /\ call'[p].n = call[p].n
    BY <1>8, <1>12, <2>1 DEF Vendor
  <2>3. call[p].inv \in Inverters => physical'[call[p].inv] = (Type(call[p].key) = "turnon")
    BY <1>12 DEF Vendor, TypeOK
  <2>4. call[p].inv \in Inverters
    BY <2>1 DEF Executing
  <2>5. QED BY <2>1, <2>2, <2>3, <2>4 DEF HoldStep, Holding
<1>13. CASE Acknowledge(p) \/ RecordUnknownOutcome(p) \/ RecordExecutionFailure(p) \/ Phase1Error(p)
  BY <1>2, <1>13 DEF Acknowledge, RecordUnknownOutcome, RecordExecutionFailure, Phase1Error
<1>14. CASE ConnectionUnusable(p)
  BY <1>7, <1>14 DEF ConnectionUnusable
<1>15. CASE Phase2Error(p) \/ OutcomeLost(p)
  <2>1. call[p] \in Executing
    BY <1>15, CallShape DEF Phase2Error, OutcomeLost, Holding
  <2>2. call'[p].pc \in {"fail", "unknown"}
    BY <1>8, <1>15, <2>1 DEF Phase2Error, OutcomeLost
  <2>3. QED BY <2>2 DEF HoldStep, Holding
<1>16. CASE Sweep(p)
  <2>1. CASE SweepAgain(p) \/ SweepNext(p) \/ SweepClaimLost(p)
    BY <1>4, <1>5, <2>1 DEF SweepAgain, SweepNext, SweepClaimLost
  <2>2. CASE SweepEnd(p)
    BY <1>1, <1>5, <2>2 DEF SweepEnd
  <2>3. QED BY <1>16, <2>1, <2>2 DEF Sweep
<1>17. CASE Crash(p)
  BY <1>5, <1>17 DEF Crash
<1>18. CASE SiteCommand(p) \/ \E r \in Requests : SiteRequest(p, r)
  BY <1>4, <1>5, <1>18 DEF SiteCommand, SiteRequest, SiteAdvance, SiteFail, Rollback, SiteEnd
<1>19. CASE ReconcileDone(p) \/ \E i \in Inverters : \E n \in DOMAIN cmds[i] : ReconcilePick(p, i, n)
  BY <1>3, <1>5, <1>19 DEF ReconcileDone, ReconcilePick
<1>20. CASE p \in Workers /\ (Worker(p) \/ \E e \in Events : JobSelect(p, e))
  <2>1. CASE UNCHANGED call
    BY <2>1 DEF HoldStep, Holding
  <2>2. QED BY <1>4, <1>20, <2>1 DEF Worker, JobSelect, JobClaim, JobBegin, JobEnd
<1>21. QED
  BY <1>9, <1>10, <1>11, <1>12, <1>13, <1>14, <1>15, <1>16, <1>17, <1>18, <1>19, <1>20
     DEF ProcStep, IssueInverterCommand, CommandFault

-----------------------------------------------------------------------------
(* Locks and calls *)

LEMMA MutexStep ==
  ASSUME TypeOK, Mutex, NEW p \in Procs, ProcStep(p)
  PROVE  Mutex'
<1> SUFFICES ASSUME NEW q \in Procs, NEW r \in Procs, q # r,
                    Holding(q)', Holding(r)', call'[q].inv = call'[r].inv
             PROVE  FALSE
  BY DEF Mutex
<1>1. \A x \in Procs : x # p /\ Holding(x)' => Holding(x) /\ call'[x].inv = call[x].inv
  BY ProcFrame DEF Holding
<1>2. Holding(p)' => /\ call'[p].inv = call[p].inv
                     /\ Holding(p) \/ LockFree(call[p].inv)
  BY HoldSteps DEF HoldStep
<1>3. QED BY <1>1, <1>2 DEF Mutex, LockFree

LEMMA HeldStep ==
  ASSUME TypeOK, CallInv, HeldInv, Mutex, NEW p \in Procs, ProcStep(p)
  PROVE  HeldInv'
<1> SUFFICES ASSUME NEW q \in Procs, Holding(q)'
             PROVE  Pending(call[q].inv, call[q].n)'
  BY DEF HeldInv
<1>1. CmdsStep(p)
  BY CmdsSteps
<1>2. /\ call'[q].inv = call[q].inv /\ call'[q].n = call[q].n
      /\ q # p => Holding(q)
      /\ q = p => Holding(p) \/ (Pending(call[p].inv, call[p].n) /\ UNCHANGED cmds)
  BY ProcFrame, HoldSteps DEF HoldStep, Holding
<1> DEFINE i == call[q].inv  n == call[q].n
<1>3. Pending(i, n)
  BY <1>2 DEF HeldInv
<1>4. call[q].pc \in {"phase2", "held", "applied"}
  BY <1>2, ProcFrame, HoldSteps DEF HoldStep, Holding
<1>5. i \in Inverters /\ n \in DOMAIN cmds[i]
  BY <1>4, CallShape DEF CallInv
<1>6. CASE q # p
  BY <1>1, <1>2, <1>3, <1>5, <1>6 DEF CmdsStep, Pending
<1>7. CASE q = p
  <2>1. call'[p].pc \in {"held", "applied"}
    BY <1>7 DEF Holding
  <2>2. cmds'[i][n].status = "PENDING" \/ cmds'[i][n].status # cmds[i][n].status
    BY <1>3 DEF Pending
  <2>3. ASSUME cmds'[i][n].status # cmds[i][n].status PROVE FALSE
    <3>1. UNCHANGED cmds \/ Phase1(p) \/ (\E res : Done(p, res)) \/ FailOrSweep(p)
      BY DEF ProcStep, IssueInverterCommand, CommandFault, Precheck, Phase2Begin, Vendor,
         Acknowledge, RecordUnknownOutcome, RecordExecutionFailure, Phase1Error,
         ConnectionUnusable, Phase2Error, OutcomeLost, Sweep, Crash, SiteCommand, SiteRequest,
         ReconcileDone, ReconcilePick, Worker, JobSelect, JobClaim, JobBegin, JobEnd
    <3>2. ~ \E res : Done(p, res)
      BY <2>1 DEF Done, Call, TypeOK
    <3>3. ~FailOrSweep(p)
      <4>1. ~Call(p, NewCall(1, SweepKey(NewSweep("unresolved", call[p].key.ref, call[p].inv), "stable")))
        BY <2>1 DEF Call, NewCall, TypeOK
      <4>2. ~Done(p, "FAILED")
        BY <3>2
      <4>3. QED BY <4>1, <4>2 DEF FailOrSweep
    <3>4. ~Phase1(p)
      BY <1>4, <1>7 DEF Phase1
    <3>5. QED BY <2>3, <3>1, <3>2, <3>3, <3>4
  <2>4. QED BY <1>2, <1>7, <2>2, <2>3 DEF Pending
<1>8. QED BY <1>6, <1>7

\* Acked in the next state, for an event and an inverter named in this one.
AckedNext(e, i) ==
  \E n \in DOMAIN cmds'[i] : IsJobKey(cmds'[i][n].key, e) /\ cmds'[i][n].status = "ACKNOWLEDGED"

LEMMA AckedGrows ==
  ASSUME NEW p \in Procs, CmdsStep(p), NEW e, NEW i \in Inverters, Acked(e, i)
  PROVE  AckedNext(e, i)
<1>1. PICK n \in DOMAIN cmds[i] :
        IsJobKey(cmds[i][n].key, e) /\ cmds[i][n].status = "ACKNOWLEDGED"
  BY DEF Acked
<1>2. n \in DOMAIN cmds'[i] /\ cmds'[i][n].key = cmds[i][n].key
  BY DEF CmdsStep
<1>3. cmds'[i][n].status = "ACKNOWLEDGED"
  BY <1>1 DEF CmdsStep, Pending
<1>4. QED BY <1>1, <1>2, <1>3 DEF AckedNext, IsJobKey

\* A call that reports an acknowledged command of a job has one to show.
AckOk(p) ==
  call[p].pc = "done" /\ call[p].key.kind = "job" /\ call[p].res = "ACKNOWLEDGED" =>
    Acked(call[p].key.ref, call[p].inv)

\* What the calling process itself does to its call.
LEMMA OwnCall ==
  ASSUME TypeOK, CallInv, HeldInv, Mutex, NEW p \in Procs, ProcStep(p)
  PROVE  HasRow(p)' /\ AckOk(p)'
<1> DEFINE i == call[p].inv  k == call[p].key  n == call[p].n  Good == HasRow(p)' /\ AckOk(p)'
<1>1. CmdsStep(p)
  BY CmdsSteps
<1>2. ASSUME NEW c, Call(p, c), c.pc \in {"idle", "precheck", "phase1"} PROVE Good
  <2>1. call'[p] = c
    BY <1>2 DEF Call, TypeOK
  <2>2. QED BY <1>2, <2>1 DEF HasRow, AckOk
<1>3. ASSUME NEW j, NEW key, Call(p, NewCall(j, key)) PROVE Good
  BY <1>2, <1>3 DEF NewCall
<1>4. ASSUME Call(p, IdleCall) PROVE Good
  BY <1>2, <1>4 DEF IdleCall
<1>5. ASSUME NEW res, Done(p, res),
             res = "ACKNOWLEDGED" /\ k.kind = "job" => AckedNext(k.ref, i)
      PROVE  Good
  <2>1. /\ call'[p].pc = "done" /\ call'[p].inv = i /\ call'[p].key = k /\ call'[p].res = res
    BY <1>5 DEF Done, Call, TypeOK
  <2>2. QED BY <1>5, <2>1 DEF HasRow, AckOk, Acked, AckedNext
<1>6. ASSUME NEW j \in Inverters, NEW m \in DOMAIN cmds'[j], NEW key, NEW rep,
             cmds'[j][m].key = key, Execute(p, j, key, m, rep)
      PROVE  Good
  <2>1. call'[p].pc = "phase2" /\ call'[p].inv = j /\ call'[p].key = key /\ call'[p].n = m
    BY <1>6 DEF Execute, Call, TypeOK
  <2>2. QED BY <1>6, <2>1 DEF HasRow, AckOk
<1>7. ASSUME NEW pc \in {"held", "applied", "unknown", "fail"}, call[p] \in Executing,
             Call(p, [call[p] EXCEPT !.pc = pc]), UNCHANGED cmds
      PROVE  Good
  <2>1. /\ call'[p].pc = pc /\ call'[p].inv = i /\ call'[p].key = k /\ call'[p].n = n
    BY <1>7 DEF Call, TypeOK, Executing
  <2>2. n \in DOMAIN cmds[i] /\ cmds[i][n].key = k
    BY <1>7 DEF CallInv, Executing
  <2>3. QED BY <1>7, <2>1, <2>2 DEF HasRow, AckOk
\* A settled row with the key of the call, if acknowledged, is what AckOk asks for.
<1>8. ASSUME NEW m \in DOMAIN cmds[i], i \in Inverters, cmds[i][m].key = k, UNCHANGED cmds,
             Done(p, cmds[i][m].status)
      PROVE  Good
  <2>1. cmds[i][m].status = "ACKNOWLEDGED" /\ k.kind = "job" => Acked(k.ref, i)
    BY <1>8 DEF Acked, IsJobKey
  <2>2. cmds[i][m].status = "ACKNOWLEDGED" /\ k.kind = "job" => AckedNext(k.ref, i)
    BY <1>1, <1>8, <2>1, AckedGrows
  <2>3. QED BY <1>5, <1>8, <2>2
<1>9. ASSUME call[p].pc \in {"phase2", "held", "applied", "unknown", "fail"}
      PROVE  i \in Inverters /\ n \in DOMAIN cmds[i] /\ cmds[i][n].key = k /\ call[p] \in Executing
  BY <1>9, CallShape DEF CallInv
<1>10. ASSUME NEW m \in Existing(i, k), FoundIntent(p, m), UNCHANGED cmds, i \in Inverters PROVE Good
  <2>1. m \in DOMAIN cmds[i] /\ cmds[i][m].key = k
    BY <1>10 DEF Existing
  <2>2. QED BY <1>6, <1>8, <1>10, <2>1 DEF FoundIntent
<1>11. ASSUME FailOrSweep(p) PROVE Good
  BY <1>3, <1>5, <1>11 DEF FailOrSweep
<1>12. CASE Precheck(p)
  <2>1. i \in Inverters /\ call[p].pc = "precheck" /\ UNCHANGED cmds
    BY <1>12, CallShape DEF Precheck
  <2>2. CASE Call(p, [call[p] EXCEPT !.pc = "phase1"])
    <3>1. [call[p] EXCEPT !.pc = "phase1"].pc = "phase1"
      BY <2>1, CallShape DEF Early
    <3>2. QED BY <1>2, <2>2, <3>1
  <2>3. QED BY <1>5, <1>10, <1>12, <2>1, <2>2 DEF Precheck
<1>13. CASE Phase1(p)
  <2>1. i \in Inverters
    BY <1>13, CallShape DEF Phase1
  <2>2. CASE CreateIntent(p)
    <3> DEFINE row == [key |-> k, status |-> "PENDING"]
    <3>1. row \in Command /\ row.key = k
      BY <1>13, CallShape DEF Phase1, Command
    <3>2. cmds' = [cmds EXCEPT ![i] = Append(@, row)] /\ Execute(p, i, k, Len(cmds[i]) + 1, FALSE)
      BY <2>2 DEF CreateIntent
    <3> HIDE DEF row
    <3>3. Len(cmds[i]) + 1 \in DOMAIN cmds'[i] /\ cmds'[i][Len(cmds[i]) + 1] = row
      BY <2>1, <3>1, <3>2, AppendTypes
    <3>4. QED BY <1>6, <2>1, <3>1, <3>2, <3>3
  <2>3. QED BY <1>5, <1>10, <1>13, <2>1, <2>2 DEF Phase1, RefuseIntent
<1>14. CASE Phase2Begin(p)
  BY <1>7, <1>8, <1>9, <1>11, <1>14 DEF Phase2Begin
<1>15. CASE Vendor(p) \/ Phase2Error(p) \/ OutcomeLost(p)
  BY <1>7, <1>9, <1>15 DEF Vendor, Phase2Error, OutcomeLost, Holding
<1>16. CASE Acknowledge(p)
  <2>1. i \in Inverters /\ n \in DOMAIN cmds[i] /\ cmds[i][n].key = k
    BY <1>9, <1>16 DEF Acknowledge
  <2>2. cmds'[i][n].status = "ACKNOWLEDGED"
    <3>1. cmds'[i][n] = [cmds[i][n] EXCEPT !.status = "ACKNOWLEDGED"]
      BY <1>16, <2>1 DEF Acknowledge, TypeOK
    <3>2. QED BY <2>1, <3>1, RowTypes DEF Command
  <2>3. n \in DOMAIN cmds'[i] /\ cmds'[i][n].key = k
    BY <1>1, <2>1 DEF CmdsStep
  <2>4. k.kind = "job" => AckedNext(k.ref, i)
    BY <2>2, <2>3 DEF AckedNext, IsJobKey
  <2>5. QED BY <1>5, <1>16, <2>4 DEF Acknowledge
<1>17. CASE RecordUnknownOutcome(p)
  BY <1>8, <1>9, <1>17 DEF RecordUnknownOutcome
<1>18. CASE RecordExecutionFailure(p)
  <2>1. i \in Inverters /\ n \in DOMAIN cmds[i] /\ cmds[i][n].key = k
    BY <1>9, <1>18 DEF RecordExecutionFailure
  <2>2. FailureStatus(i, n) = "ACKNOWLEDGED" => cmds[i][n].status = "ACKNOWLEDGED"
    BY DEF FailureStatus
  <2>3. FailureStatus(i, n) = "ACKNOWLEDGED" /\ k.kind = "job" => Acked(k.ref, i)
    BY <2>1, <2>2 DEF Acked, IsJobKey
  <2>4. FailureStatus(i, n) = "ACKNOWLEDGED" /\ k.kind = "job" => AckedNext(k.ref, i)
    BY <1>1, <2>1, <2>3, AckedGrows
  <2>5. Done(p, FailureStatus(i, n))
    BY <1>18 DEF RecordExecutionFailure
  <2>6. QED BY <1>5, <2>4, <2>5
<1>19. CASE Phase1Error(p)
  BY <1>5, <1>19 DEF Phase1Error
<1>20. CASE ConnectionUnusable(p)
  BY <1>11, <1>20 DEF ConnectionUnusable
<1>21. CASE Sweep(p)
  <2>1. CASE SweepAgain(p) \/ SweepNext(p) \/ SweepClaimLost(p)
    BY <1>3, <1>4, <2>1 DEF SweepAgain, SweepNext, SweepClaimLost
  <2>2. CASE SweepEnd(p)
    <3>1. CASE Call(p, IdleCall)
      BY <1>4, <3>1
    <3>2. CASE \E m \in Existing(sweep[p].att, UserKey(sweep[p].ref)) :
                 Call(p, [pc |-> "done", inv |-> sweep[p].att, key |-> UserKey(sweep[p].ref),
                          res |-> cmds[sweep[p].att][m].status])
      <4>1. call'[p].pc = "done" /\ call'[p].key.kind = "user"
        BY <3>2 DEF Call, TypeOK, UserKey
      <4>2. QED BY <4>1 DEF HasRow, AckOk
    <3>3. QED BY <2>2, <3>1, <3>2 DEF SweepEnd
  <2>3. QED BY <1>21, <2>1, <2>2 DEF Sweep
<1>22. CASE Crash(p) \/ ReconcileDone(p)
  BY <1>4, <1>22 DEF Crash, ReconcileDone
<1>23. CASE SiteCommand(p) \/ \E r \in Requests : SiteRequest(p, r)
  BY <1>3, <1>4, <1>23 DEF SiteCommand, SiteRequest, SiteAdvance, SiteFail, Rollback, SiteEnd
<1>24. CASE \E j \in Inverters : \E m \in DOMAIN cmds[j] : ReconcilePick(p, j, m)
  BY <1>6, <1>24 DEF ReconcilePick
<1>25. CASE UNCHANGED <<call, cmds>>
  <2>1. HasRow(p) /\ AckOk(p)
    BY DEF CallInv, HasRow, AckOk
  <2>2. QED BY <1>25, <2>1 DEF HasRow, AckOk, Acked
<1>26. CASE p \in Workers /\ (Worker(p) \/ \E e \in Events : JobSelect(p, e))
  <2>1. UNCHANGED <<call, cmds>> \/ \E j, key : Call(p, NewCall(j, key))
    BY <1>26 DEF Worker, JobSelect, JobClaim, JobBegin, JobEnd
  <2>2. QED BY <1>3, <1>25, <2>1
<1>27. QED
  BY <1>12, <1>13, <1>14, <1>15, <1>16, <1>17, <1>18, <1>19, <1>20, <1>21, <1>22, <1>23,
     <1>24, <1>26 DEF ProcStep, IssueInverterCommand, CommandFault

LEMMA CallInvStep ==
  ASSUME TypeOK, CallInv, HeldInv, Mutex, NEW p \in Procs, ProcStep(p)
  PROVE  CallInv'
<1> SUFFICES ASSUME NEW q \in Procs
             PROVE  /\ HasRow(q)' /\ AckOk(q)'
                    /\ (call[q].pc = "applied" => physical[call[q].inv] = (Type(call[q].key) = "turnon"))'
  BY DEF CallInv, HasRow, AckOk
<1>1. CmdsStep(p) /\ PhysicalStep(p) /\ HoldStep(p)
  BY CmdsSteps, PhysicalSteps, HoldSteps
<1>2. CASE q # p
  <2>1. call'[q] = call[q]
    BY <1>2, ProcFrame
  <2>2. HasRow(q)'
    <3>1. SUFFICES ASSUME call[q].pc \in {"phase2", "held", "applied", "unknown", "fail"}
                   PROVE  /\ call[q].n \in DOMAIN cmds'[call[q].inv]
                          /\ cmds'[call[q].inv][call[q].n].key = call[q].key
      BY <2>1 DEF HasRow
    <3>2. call[q].inv \in Inverters
      BY <3>1, CallShape
    <3>3. QED BY <1>1, <3>1, <3>2 DEF CmdsStep, CallInv
  <2>3. AckOk(q)'
    <3>1. SUFFICES ASSUME call[q].pc = "done", call[q].key.kind = "job", call[q].res = "ACKNOWLEDGED"
                   PROVE  AckedNext(call[q].key.ref, call[q].inv)
      BY <2>1 DEF AckOk, Acked, AckedNext
    <3>2. call[q].inv \in Inverters /\ Acked(call[q].key.ref, call[q].inv)
      BY <3>1, CallShape DEF CallInv
    <3>3. QED BY <1>1, <3>2, AckedGrows
  <2>4. ASSUME call[q].pc = "applied"
        PROVE  physical'[call[q].inv] = (Type(call[q].key) = "turnon")
    <3>1. call[q].inv \in Inverters /\ physical[call[q].inv] = (Type(call[q].key) = "turnon")
      BY <2>4, CallShape DEF CallInv
    <3>2. ~(call[p].pc = "held" /\ call[p].inv = call[q].inv)
      BY <1>2, <2>4 DEF Mutex, Holding
    <3>3. QED BY <1>1, <3>1, <3>2 DEF PhysicalStep
  <2>5. QED BY <2>1, <2>2, <2>3, <2>4
<1>3. CASE q = p
  <2>1. HasRow(p)' /\ AckOk(p)'
    BY OwnCall
  <2>2. ASSUME call'[p].pc = "applied"
        PROVE  physical'[call'[p].inv] = (Type(call'[p].key) = "turnon")
    <3>1. /\ call'[p].inv = call[p].inv /\ call'[p].key = call[p].key
          /\ call[p].pc = "applied" \/ physical'[call[p].inv] = (Type(call[p].key) = "turnon")
      BY <1>1, <2>2 DEF HoldStep, Holding
    <3>2. CASE call[p].pc = "applied"
      <4>1. call[p].inv \in Inverters /\ physical[call[p].inv] = (Type(call[p].key) = "turnon")
        BY <3>2, CallShape DEF CallInv
      <4>2. physical'[call[p].inv] = physical[call[p].inv]
        BY <1>1, <3>2, <4>1 DEF PhysicalStep
      <4>3. QED BY <3>1, <4>1, <4>2
    <3>3. QED BY <3>1, <3>2
  <2>3. QED BY <1>3, <2>1, <2>2
<1>4. QED BY <1>2, <1>3

-----------------------------------------------------------------------------
(* Jobs and their traces *)

\* What the step of a process does to its keys and to the job it works on.
KeysStep(p) ==
  /\ call'[p].pc # "idle" =>
       \/ call[p].pc # "idle" /\ call'[p].key = call[p].key
       \/ call'[p].key.kind # "job"
       \/ /\ sweep'[p].on
          /\ call'[p].key.kind = sweep'[p].kind /\ call'[p].key.ref = sweep'[p].ref
       \/ \E i \in Inverters : \E n \in DOMAIN cmds[i] : call'[p].key = cmds[i][n].key
  /\ sweep'[p].on =>
       \/ sweep[p].on /\ sweep'[p].kind = sweep[p].kind /\ sweep'[p].ref = sweep[p].ref
       \/ sweep'[p].kind # "job"
       \/ p \in Workers /\ work[p].pc # "idle" /\ sweep'[p].ref = work[p].job
  /\ p \in Workers /\ work'[p].pc # "idle" =>
       \/ work[p].pc # "idle" /\ work'[p].job = work[p].job
       \/ work'[p].job \in Events /\ jobs[work'[p].job].status # "NONE"

LEMMA KeysSteps ==
  ASSUME TypeOK, WorkInv, NEW p \in Procs, ProcStep(p)
  PROVE  KeysStep(p)
<1> DEFINE CallPart == call'[p].pc # "idle" =>
             \/ call[p].pc # "idle" /\ call'[p].key = call[p].key
             \/ call'[p].key.kind # "job"
             \/ /\ sweep'[p].on
                /\ call'[p].key.kind = sweep'[p].kind /\ call'[p].key.ref = sweep'[p].ref
             \/ \E i \in Inverters : \E n \in DOMAIN cmds[i] : call'[p].key = cmds[i][n].key
           SweepPart == sweep'[p].on =>
             \/ sweep[p].on /\ sweep'[p].kind = sweep[p].kind /\ sweep'[p].ref = sweep[p].ref
             \/ sweep'[p].kind # "job"
             \/ p \in Workers /\ work[p].pc # "idle" /\ sweep'[p].ref = work[p].job
           WorkPart == p \in Workers /\ work'[p].pc # "idle" =>
             \/ work[p].pc # "idle" /\ work'[p].job = work[p].job
             \/ work'[p].job \in Events /\ jobs[work'[p].job].status # "NONE"
<1>1. ASSUME NEW c, Call(p, c), c.pc = "idle" \/ (call[p].pc # "idle" /\ c.key = call[p].key)
      PROVE  CallPart
  <2>1. call'[p] = c
    BY <1>1 DEF Call, TypeOK
  <2>2. QED BY <1>1, <2>1
<1>2. ASSUME NEW res, Done(p, res), call[p].pc # "idle" PROVE CallPart
  BY <1>1, <1>2 DEF Done
<1>3. ASSUME NEW i, NEW n, NEW rep, Execute(p, i, call[p].key, n, rep), call[p].pc # "idle"
      PROVE  CallPart
  BY <1>1, <1>3 DEF Execute
<1>4. ASSUME Call(p, IdleCall) PROVE CallPart
  BY <1>1, <1>4 DEF IdleCall
<1>5. ASSUME NEW i, NEW r, Call(p, NewCall(i, UserKey(r))) \/ Call(p, NewCall(i, RollbackKey(r)))
      PROVE  CallPart
  <2>1. call'[p].key.kind \in {"user", "rollback"}
    BY <1>5 DEF Call, TypeOK, NewCall, UserKey, RollbackKey
  <2>2. QED BY <2>1
<1>6. ASSUME NEW i, NEW s, NEW nonce, Call(p, NewCall(i, SweepKey(s, nonce))),
             sweep'[p].on /\ sweep'[p].kind = s.kind /\ sweep'[p].ref = s.ref
      PROVE  CallPart
  <2>1. call'[p].key.kind = s.kind /\ call'[p].key.ref = s.ref
    BY <1>6 DEF Call, TypeOK, NewCall, SweepKey
  <2>2. QED BY <1>6, <2>1
<1>7. ASSUME NEW pc, call[p] \in Early \cup Executing, Call(p, [call[p] EXCEPT !.pc = pc])
      PROVE  CallPart
  <2>1. call[p].pc # "idle" /\ [call[p] EXCEPT !.pc = pc].key = call[p].key
    BY <1>7 DEF Early, Executing
  <2>2. QED BY <1>1, <1>7, <2>1
<1>8. ASSUME UNCHANGED sweep PROVE SweepPart
  BY <1>8
<1>9. ASSUME UNCHANGED work PROVE WorkPart
  BY <1>9
<1>10. ASSUME NEW n, FoundIntent(p, n), call[p].pc # "idle" PROVE CallPart
  BY <1>2, <1>3, <1>10 DEF FoundIntent
<1>11. ASSUME FailOrSweep(p), call[p].pc # "idle" PROVE CallPart /\ SweepPart
  <2> DEFINE s == NewSweep("unresolved", call[p].key.ref, call[p].inv)
  <2>1. CASE /\ sweep' = [sweep EXCEPT ![p] = s]
             /\ Call(p, NewCall(1, SweepKey(s, "stable")))
    <3>1. sweep'[p] = s
      BY <2>1 DEF TypeOK
    <3>2. sweep'[p].on /\ sweep'[p].kind = s.kind /\ sweep'[p].ref = s.ref /\ s.kind = "unresolved"
      BY <3>1 DEF NewSweep
    <3> HIDE DEF s
    <3>3. CallPart
      BY <1>6, <2>1, <3>2
    <3>4. QED BY <3>2, <3>3
  <2>2. CASE Done(p, "FAILED") /\ UNCHANGED sweep
    BY <1>2, <1>8, <1>11, <2>2
  <2>3. QED BY <1>11, <2>1, <2>2 DEF FailOrSweep
<1>12. CASE IssueInverterCommand(p) \/ CommandFault(p)
  <2>1. WorkPart
    BY <1>9, <1>12 DEF IssueInverterCommand, CommandFault, Precheck, Phase1, Phase2Begin,
       Vendor, Acknowledge, RecordUnknownOutcome, RecordExecutionFailure, Phase1Error,
       ConnectionUnusable, Phase2Error, OutcomeLost
  <2>2. call[p].pc # "idle"
    BY <1>12 DEF IssueInverterCommand, CommandFault, Precheck, Phase1, Phase2Begin,
       Vendor, Acknowledge, RecordUnknownOutcome, RecordExecutionFailure, Phase1Error,
       ConnectionUnusable, Phase2Error, OutcomeLost, Holding
  <2>3. CASE Phase2Begin(p) \/ ConnectionUnusable(p)
    <3>1. call[p] \in Executing
      BY <2>3, CallShape DEF Phase2Begin, ConnectionUnusable
    <3>2. CASE FailOrSweep(p)
      BY <1>11, <2>1, <2>2, <3>2 DEF KeysStep
    <3>3. CASE UNCHANGED sweep
      <4>1. CallPart
        BY <1>2, <1>7, <1>11, <2>2, <2>3, <3>1 DEF Phase2Begin, ConnectionUnusable
      <4>2. QED BY <1>8, <2>1, <3>3, <4>1 DEF KeysStep
    <3>4. QED BY <2>3, <3>2, <3>3 DEF Phase2Begin, ConnectionUnusable
  <2>4. CASE ~(Phase2Begin(p) \/ ConnectionUnusable(p))
    <3>1. SweepPart
      BY <1>8, <1>12, <2>4 DEF IssueInverterCommand, CommandFault, Precheck, Phase1,
         Vendor, Acknowledge, RecordUnknownOutcome, RecordExecutionFailure, Phase1Error,
         Phase2Error, OutcomeLost
    <3>2. CASE Precheck(p)
      <4>1. call[p] \in Early
        BY <3>2, CallShape DEF Precheck
      <4>2. CallPart
        BY <1>2, <1>7, <1>10, <2>2, <3>2, <4>1 DEF Precheck
      <4>3. QED BY <2>1, <3>1, <4>2 DEF KeysStep
    <3>3. CASE Phase1(p)
      <4>1. CallPart
        BY <1>2, <1>3, <1>10, <2>2, <3>3 DEF Phase1, CreateIntent, RefuseIntent
      <4>2. QED BY <2>1, <3>1, <4>1 DEF KeysStep
    <3>4. CASE Vendor(p) \/ Phase2Error(p) \/ OutcomeLost(p)
      <4>1. call[p] \in Executing
        BY <3>4, CallShape DEF Vendor, Phase2Error, OutcomeLost, Holding
      <4>2. CallPart
        BY <1>7, <3>4, <4>1 DEF Vendor, Phase2Error, OutcomeLost
      <4>3. QED BY <2>1, <3>1, <4>2 DEF KeysStep
    <3>5. CASE Acknowledge(p) \/ RecordUnknownOutcome(p) \/ RecordExecutionFailure(p) \/ Phase1Error(p)
      <4>1. CallPart
        BY <1>2, <2>2, <3>5 DEF Acknowledge, RecordUnknownOutcome, RecordExecutionFailure, Phase1Error
      <4>2. QED BY <2>1, <3>1, <4>1 DEF KeysStep
    <3>6. QED BY <1>12, <2>4, <3>2, <3>3, <3>4, <3>5 DEF IssueInverterCommand, CommandFault
  <2>5. QED BY <2>3, <2>4
<1>13. CASE Sweep(p)
  <2> DEFINE s == sweep[p]
  <2>1. s \in JobSweeps \cup UnresolvedSweeps /\ s.on
    BY <1>13, SweepShape DEF Sweep, TypeOK
  <2>2. ASSUME NEW t, sweep' = [sweep EXCEPT ![p] = t], t.on, t.kind = s.kind, t.ref = s.ref
        PROVE  SweepPart /\ sweep'[p].on /\ sweep'[p].kind = s.kind /\ sweep'[p].ref = s.ref
    <3>1. sweep'[p] = t
      BY <2>2 DEF TypeOK
    <3>2. QED BY <2>1, <2>2, <3>1
  <2>3. ASSUME sweep' = [sweep EXCEPT ![p] = NoSweep] PROVE SweepPart
    BY <2>3 DEF TypeOK, NoSweep
  <2>4. CASE SweepAgain(p)
    <3> DEFINE t == [s EXCEPT !.try = s.try + 1]
    <3>1. t.on /\ t.kind = s.kind /\ t.ref = s.ref
      BY <2>1 DEF JobSweeps, UnresolvedSweeps
    <3>2. sweep' = [sweep EXCEPT ![p] = t] /\ Call(p, NewCall(s.inv, SweepKey(s, "random"))) /\ UNCHANGED work
      BY <2>4 DEF SweepAgain
    <3> HIDE DEF t
    <3>3. SweepPart /\ sweep'[p].on /\ sweep'[p].kind = s.kind /\ sweep'[p].ref = s.ref
      BY <2>2, <3>1, <3>2
    <3>4. CallPart
      BY <1>6, <3>2, <3>3
    <3>5. QED BY <1>9, <3>2, <3>3, <3>4 DEF KeysStep
  <2>5. CASE SweepNext(p)
    <3> DEFINE t == [s EXCEPT !.inv = s.inv + 1, !.try = 1, !.failed = SweepFailed(p)]
    <3>1. t.on /\ t.kind = s.kind /\ t.ref = s.ref
      BY <2>1 DEF JobSweeps, UnresolvedSweeps
    <3>2. sweep' = [sweep EXCEPT ![p] = t] /\ Call(p, NewCall(s.inv + 1, SweepKey(s, "stable"))) /\ UNCHANGED work
      BY <2>5 DEF SweepNext
    <3> HIDE DEF t
    <3>3. SweepPart /\ sweep'[p].on /\ sweep'[p].kind = s.kind /\ sweep'[p].ref = s.ref
      BY <2>2, <3>1, <3>2
    <3>4. CallPart
      BY <1>6, <3>2, <3>3
    <3>5. QED BY <1>9, <3>2, <3>3, <3>4 DEF KeysStep
  <2>6. CASE SweepEnd(p)
    <3>1. SweepPart
      BY <2>3, <2>6 DEF SweepEnd
    <3>2. CallPart
      <4>1. CASE Call(p, IdleCall)
        BY <1>4, <4>1
      <4>2. CASE \E m \in Existing(s.att, UserKey(s.ref)) :
                   Call(p, [pc |-> "done", inv |-> s.att, key |-> UserKey(s.ref),
                            res |-> cmds[s.att][m].status])
        <5>1. call'[p].key.kind = "user"
          BY <4>2 DEF Call, TypeOK, UserKey
        <5>2. QED BY <5>1
      <4>3. QED BY <2>6, <4>1, <4>2 DEF SweepEnd
    <3>3. WorkPart
      <4>1. CASE UNCHANGED work
        BY <1>9, <4>1
      <4>2. CASE work' = [work EXCEPT ![p].pc = IF SweepFailed(p) THEN "failed" ELSE "confirmed"]
        <5>1. SUFFICES ASSUME p \in Workers PROVE work[p].pc # "idle" /\ work'[p].job = work[p].job
          OBVIOUS
        <5>2. work[p].pc = "sweeping" /\ work[p] \in Works
          BY <2>1, <5>1 DEF WorkInv, TypeOK, Works
        <5>3. QED BY <4>2, <5>1, <5>2 DEF TypeOK, Works, IdleWork
      <4>3. QED BY <2>6, <4>1, <4>2 DEF SweepEnd
    <3>4. QED BY <3>1, <3>2, <3>3 DEF KeysStep
  <2>7. CASE SweepClaimLost(p)
    <3>1. SweepPart /\ CallPart
      BY <1>4, <2>3, <2>7 DEF SweepClaimLost
    <3>2. WorkPart
      BY <2>7 DEF SweepClaimLost, TypeOK, IdleWork
    <3>3. QED BY <3>1, <3>2 DEF KeysStep
  <2>8. QED BY <1>13, <2>4, <2>5, <2>6, <2>7 DEF Sweep
<1>14. CASE Crash(p)
  <2>1. CallPart
    BY <1>4, <1>14 DEF Crash
  <2>2. SweepPart
    BY <1>14 DEF Crash, TypeOK, NoSweep
  <2>3. WorkPart
    BY <1>14 DEF Crash, TypeOK, IdleWork
  <2>4. QED BY <2>1, <2>2, <2>3 DEF KeysStep
<1>15. CASE SiteCommand(p) \/ \E r \in Requests : SiteRequest(p, r)
  <2>1. SweepPart /\ WorkPart
    BY <1>8, <1>9, <1>15 DEF SiteCommand, SiteRequest
  <2>2. CallPart
    BY <1>4, <1>5, <1>15 DEF SiteCommand, SiteRequest, SiteAdvance, SiteFail, Rollback, SiteEnd
  <2>3. QED BY <2>1, <2>2 DEF KeysStep
<1>16. CASE ReconcileDone(p)
  <2>1. SweepPart /\ WorkPart /\ CallPart
    BY <1>4, <1>8, <1>9, <1>16 DEF ReconcileDone
  <2>2. QED BY <2>1 DEF KeysStep
<1>17. CASE \E i \in Inverters : \E n \in DOMAIN cmds[i] : ReconcilePick(p, i, n)
  <2>1. SweepPart /\ WorkPart
    BY <1>8, <1>9, <1>17 DEF ReconcilePick
  <2>2. \E i \in Inverters : \E n \in DOMAIN cmds[i] : call'[p].key = cmds[i][n].key
    BY <1>17 DEF ReconcilePick, Execute, Call, TypeOK
  <2>3. QED BY <2>1, <2>2 DEF KeysStep
<1>18. CASE p \in Workers /\ (Worker(p) \/ \E e \in Events : JobSelect(p, e))
  <2>1. work[p] \in Works /\ (work[p].pc # "idle" => work[p].job \in Events)
    BY <1>18 DEF TypeOK, Works, IdleWork
  <2>2. CASE \E e \in Events : JobSelect(p, e)
    <3>1. PICK e \in Events : JobSelect(p, e)
      BY <2>2
    <3>2. work'[p].job = e /\ jobs[e].status # "NONE"
      BY <1>18, <3>1 DEF JobSelect, TypeOK
    <3>3. CallPart /\ SweepPart
      BY <3>1 DEF JobSelect
    <3>4. QED BY <3>2, <3>3 DEF KeysStep
  <2>3. CASE JobClaim(p) \/ JobEnd(p)
    <3>1. CallPart /\ SweepPart
      BY <2>3 DEF JobClaim, JobEnd
    <3>2. CASE work' = [work EXCEPT ![p] = IdleWork]
      BY <1>18, <3>1, <3>2 DEF KeysStep, TypeOK, IdleWork
    <3>3. CASE work[p].pc # "idle" /\ work' = [work EXCEPT ![p].pc = "claimed"]
      <4>1. work'[p].job = work[p].job
        BY <1>18, <2>1, <3>3 DEF TypeOK, Works, IdleWork
      <4>2. QED BY <3>1, <3>3, <4>1 DEF KeysStep
    <3>4. QED BY <2>3, <3>2, <3>3 DEF JobClaim, JobEnd
  <2>4. CASE JobBegin(p)
    <3>1. CASE work' = [work EXCEPT ![p] = IdleWork] /\ UNCHANGED <<call, sweep>>
      BY <1>18, <3>1 DEF KeysStep, TypeOK, IdleWork
    <3>2. ASSUME NEW pc, work[p].pc # "idle", work' = [work EXCEPT ![p].pc = pc] PROVE WorkPart
      BY <1>18, <2>1, <3>2 DEF TypeOK, Works, IdleWork
    <3>3. CASE work' = [work EXCEPT ![p].pc = "obsolete"] /\ UNCHANGED <<call, sweep>>
      BY <2>4, <3>2, <3>3 DEF KeysStep, JobBegin
    <3>4. CASE /\ work' = [work EXCEPT ![p].pc = "sweeping"]
               /\ sweep' = [sweep EXCEPT ![p] = NewSweep("job", work[p].job, work[p].att)]
               /\ Call(p, NewCall(1, SweepKey(NewSweep("job", work[p].job, work[p].att), "stable")))
      <4> DEFINE s == NewSweep("job", work[p].job, work[p].att)
      <4>1. sweep'[p] = s /\ s.on /\ s.kind = "job" /\ s.ref = work[p].job
        BY <3>4 DEF NewSweep, TypeOK
      <4>2. Call(p, NewCall(1, SweepKey(s, "stable")))
        BY <3>4
      <4>3. work[p].pc # "idle" /\ WorkPart
        BY <2>4, <3>2, <3>4 DEF JobBegin
      <4> HIDE DEF s
      <4>4. CallPart
        BY <1>6, <4>1, <4>2
      <4>5. SweepPart
        BY <1>18, <4>1, <4>3
      <4>6. QED BY <4>3, <4>4, <4>5 DEF KeysStep
    <3>5. QED BY <2>4, <3>1, <3>3, <3>4 DEF JobBegin
  <2>5. QED BY <1>18, <2>2, <2>3, <2>4 DEF Worker
<1>19. QED BY <1>12, <1>13, <1>14, <1>15, <1>16, <1>17, <1>18 DEF ProcStep

\* A job appears only for an event that is new, and never disappears.
JobsStep ==
  \/ UNCHANGED jobs
  \/ \E e \in Events, j \in Jobs :
       /\ jobs' = [jobs EXCEPT ![e] = j]
       /\ j.status # "NONE"
       /\ jobs[e].status = "NONE" => (e \in Subs => subs'[e] = "ENDED")

LEMMA JobsSteps ==
  ASSUME TypeOK, Next
  PROVE  JobsStep
<1>1. \A e \in Events : jobs[e] \in Jobs
  BY DEF TypeOK
<1>2. ASSUME NEW e \in Events, Enqueue(e), e \in Subs => subs'[e] = "ENDED" PROVE JobsStep
  <2>1. [jobs[e] EXCEPT !.status = "PENDING"] \in Jobs /\ [jobs[e] EXCEPT !.status = "PENDING"].status = "PENDING"
    BY <1>1 DEF Jobs
  <2>2. jobs' = [jobs EXCEPT ![e] = [jobs[e] EXCEPT !.status = "PENDING"]] \/ UNCHANGED jobs
    BY <1>2 DEF Enqueue
  <2>3. QED BY <1>2, <2>1, <2>2 DEF JobsStep
<1>3. ASSUME NEW e \in Events, NEW status \in {"PENDING", "SUCCEEDED"}, jobs[e].status # "NONE",
             jobs' = [jobs EXCEPT ![e].status = status, ![e].owner = "nobody"]
      PROVE  JobsStep
  <2> DEFINE j == [jobs[e] EXCEPT !.status = status, !.owner = "nobody"]
  <2>1. j \in Jobs /\ j.status # "NONE"
    BY <1>1 DEF Jobs
  <2>2. jobs' = [jobs EXCEPT ![e] = j]
    BY <1>3
  <2>3. QED BY <1>3, <2>1, <2>2 DEF JobsStep
<1>4. CASE \E e \in Events : JobRecover(e)
  BY <1>3, <1>4 DEF JobRecover
<1>5. CASE Commerce
  <2>1. ASSUME NEW s \in Subs, Expire(s) \/ Cancel(s) PROVE JobsStep
    BY <1>2, <2>1 DEF Expire, Cancel, Events, TypeOK
  <2>2. ASSUME NEW s \in Subs, NEW e \in Refunds, Refund(s, e) PROVE JobsStep
    BY <1>2, <2>2, DisjointAssumption DEF Refund, Events
  <2>3. ASSUME NEW e \in Disablings, Disable(e) PROVE JobsStep
    BY <1>2, <2>3, DisjointAssumption DEF Disable, Events
  <2>4. QED BY <1>5, <2>1, <2>2, <2>3 DEF Commerce, Subscribe, Lapse, Enable, JobsStep
<1>6. ASSUME NEW p \in Procs, ProcStep(p) PROVE JobsStep
  <2>1. CASE p \in Workers /\ JobClaim(p)
    <3> DEFINE e == work[p].job
               j == [status |-> "RUNNING", owner |-> p, attempts |-> jobs[e].attempts + 1]
    <3>1. work[p].pc = "selected" /\ e \in Events
      BY <2>1 DEF JobClaim, TypeOK, IdleWork
    <3>2. j \in Jobs /\ j.status # "NONE"
      BY <1>1, <2>1, <3>1 DEF Jobs
    <3>3. UNCHANGED jobs \/ (jobs' = [jobs EXCEPT ![e] = j] /\ jobs[e].status # "NONE")
      BY <2>1 DEF JobClaim
    <3> HIDE DEF j
    <3>4. QED BY <3>1, <3>2, <3>3 DEF JobsStep
  <2>2. CASE p \in Workers /\ JobEnd(p)
    <3>1. work[p].job \in Events
      BY <2>2 DEF JobEnd, TypeOK, IdleWork
    <3>2. CASE Owns(p)
      <4> DEFINE status == IF work[p].pc = "failed" THEN "PENDING" ELSE "SUCCEEDED"
      <4>1. status \in {"PENDING", "SUCCEEDED"} /\ jobs[work[p].job].status # "NONE"
        BY <3>2 DEF Owns
      <4>2. jobs' = [jobs EXCEPT ![work[p].job].status = status, ![work[p].job].owner = "nobody"]
        BY <2>2, <3>2 DEF JobEnd
      <4> HIDE DEF status
      <4>3. QED BY <1>3, <3>1, <4>1, <4>2
    <3>3. CASE ~Owns(p)
      BY <2>2, <3>3 DEF JobEnd, JobsStep
    <3>4. QED BY <3>2, <3>3
  <2>3. CASE ~(p \in Workers /\ (JobClaim(p) \/ JobEnd(p)))
    <3>1. UNCHANGED jobs
      BY <1>6, <2>3 DEF ProcStep, IssueInverterCommand, CommandFault, Precheck, Phase1,
         Phase2Begin, Vendor, Acknowledge, RecordUnknownOutcome, RecordExecutionFailure,
         Phase1Error, ConnectionUnusable, Phase2Error, OutcomeLost, Sweep, Crash, SiteCommand,
         SiteRequest, ReconcileDone, ReconcilePick, Worker, JobSelect, JobBegin, commerce
    <3>2. QED BY <3>1 DEF JobsStep
  <2>4. QED BY <2>1, <2>2, <2>3
<1>7. CASE FlagsOverwritten
  BY <1>7 DEF FlagsOverwritten, commerce, JobsStep
<1>8. QED BY <1>4, <1>5, <1>6, <1>7, WhoSteps DEF OutsideStep

LEMMA SubsStep ==
  ASSUME TypeOK, SubsInv, Next
  PROVE  SubsInv'
<1> SUFFICES ASSUME NEW s \in Subs, subs'[s] # "ENDED" PROVE jobs'[s].status = "NONE"
  BY DEF SubsInv
<1>1. subs[s] # "ENDED"
  <2>1. ASSUME NEW p \in Procs, ProcStep(p) PROVE subs[s] # "ENDED"
    BY <2>1, ProcFrame
  <2>2. CASE (\E e \in Events : JobRecover(e)) \/ FlagsOverwritten
    BY <2>2 DEF JobRecover, FlagsOverwritten, commerce
  <2>3. CASE Commerce
    BY <2>3 DEF Commerce, Subscribe, Lapse, Expire, Cancel, Refund, Disable, Enable, TypeOK
  <2>4. QED BY <2>1, <2>2, <2>3, WhoSteps DEF OutsideStep
<1>2. jobs[s].status = "NONE" /\ s \in Events
  BY <1>1 DEF SubsInv, Events
<1>3. QED BY <1>2, JobsSteps DEF JobsStep, TypeOK

LEMMA FreshStep ==
  ASSUME TypeOK, CallInv, HeldInv, Mutex, WorkInv, FreshInv, Next
  PROVE  FreshInv'
<1> SUFFICES ASSUME NEW e \in Events, jobs'[e].status = "NONE"
             PROVE  /\ jobs'[e] = NoJob
                    /\ \A i \in Inverters : \A n \in DOMAIN cmds'[i] : ~IsJobKey(cmds'[i][n].key, e)
                    /\ \A p \in Procs : call'[p].pc # "idle" => ~IsJobKey(call'[p].key, e)
                    /\ \A p \in Procs : sweep'[p].on => ~IsJobKey(sweep'[p], e)
                    /\ \A w \in Workers : work'[w].pc # "idle" => work'[w].job # e
  BY DEF FreshInv, IsJobKey
<1>1. jobs[e].status = "NONE" /\ jobs'[e] = jobs[e]
  BY JobsSteps DEF JobsStep, TypeOK
<1>2. /\ jobs[e] = NoJob
      /\ \A i \in Inverters : \A n \in DOMAIN cmds[i] : ~IsJobKey(cmds[i][n].key, e)
      /\ \A p \in Procs : call[p].pc # "idle" => ~IsJobKey(call[p].key, e)
      /\ \A p \in Procs : sweep[p].on => ~IsJobKey(sweep[p], e)
      /\ \A w \in Workers : work[w].pc # "idle" => work[w].job # e
  BY <1>1 DEF FreshInv
<1>3. CASE OutsideStep
  BY <1>1, <1>2, <1>3, OutsideFrame
<1>4. ASSUME NEW p \in Procs, ProcStep(p)
      PROVE  /\ \A i \in Inverters : \A n \in DOMAIN cmds'[i] : ~IsJobKey(cmds'[i][n].key, e)
             /\ \A q \in Procs : call'[q].pc # "idle" => ~IsJobKey(call'[q].key, e)
             /\ \A q \in Procs : sweep'[q].on => ~IsJobKey(sweep'[q], e)
             /\ \A w \in Workers : work'[w].pc # "idle" => work'[w].job # e
  <2>1. CmdsStep(p) /\ KeysStep(p)
    BY <1>4, CmdsSteps, KeysSteps
  <2>2. /\ \A q \in Procs : q # p => call'[q] = call[q] /\ sweep'[q] = sweep[q]
        /\ \A w \in Workers : w # p => work'[w] = work[w]
    BY <1>4, ProcFrame
  <2>3. ASSUME NEW i \in Inverters, NEW n \in DOMAIN cmds'[i]
        PROVE  ~IsJobKey(cmds'[i][n].key, e)
    <3>1. CASE n \in DOMAIN cmds[i]
      BY <1>2, <2>1, <3>1 DEF CmdsStep
    <3>2. CASE call[p].pc = "phase1" /\ cmds'[i][n].key = call[p].key
      BY <1>2, <3>2
    <3>3. QED BY <2>1, <3>1, <3>2 DEF CmdsStep
  <2>4. sweep'[p].on => ~IsJobKey(sweep'[p], e)
    BY <1>2, <2>1 DEF KeysStep, IsJobKey
  <2>5. call'[p].pc # "idle" => ~IsJobKey(call'[p].key, e)
    BY <1>2, <2>1, <2>4 DEF KeysStep, IsJobKey
  <2>6. p \in Workers /\ work'[p].pc # "idle" => work'[p].job # e
    BY <1>1, <1>2, <2>1 DEF KeysStep
  <2>7. QED BY <1>2, <2>2, <2>3, <2>4, <2>5, <2>6
<1>5. QED BY <1>1, <1>2, <1>3, <1>4, WhoSteps

\* What WorkInv says of one worker, and what it comes to when nobody sweeps.
WorkOk(w) ==
  /\ call[w].pc # "idle" => sweep[w].on
  /\ sweep[w].on =>
       /\ work[w].pc = "sweeping"
       /\ call[w].pc # "idle"
       /\ IsJobKey(sweep[w], work[w].job)
       /\ IsJobKey(call[w].key, work[w].job)
       /\ call[w].inv = sweep[w].inv
       /\ ~sweep[w].failed => \A i \in 1..(sweep[w].inv - 1) : Acked(work[w].job, i)
  /\ work[w].pc = "confirmed" => \A i \in Inverters : Acked(work[w].job, i)

LEMMA IdleWorker ==
  ASSUME NEW w \in Workers, call'[w].pc = "idle", ~sweep'[w].on, work'[w].pc # "confirmed"
  PROVE  WorkOk(w)'
BY DEF WorkOk

\* A step of the call of a worker that sweeps.
LEMMA WorkerCall ==
  ASSUME TypeOK, CallInv, HeldInv, Mutex, WorkInv, NEW w \in Workers,
         IssueInverterCommand(w) \/ CommandFault(w)
  PROVE  WorkOk(w)'
<1>1. w \in Procs /\ ProcStep(w)
  BY DEF Procs, ProcStep
<1>2. CmdsStep(w)
  BY <1>1, CmdsSteps
<1>3. call[w].pc # "idle"
  BY DEF IssueInverterCommand, CommandFault, Precheck, Phase1, Phase2Begin, Vendor,
     Acknowledge, RecordUnknownOutcome, RecordExecutionFailure, Phase1Error,
     ConnectionUnusable, Phase2Error, OutcomeLost, Holding
<1>4. /\ sweep[w].on /\ work[w].pc = "sweeping" /\ IsJobKey(sweep[w], work[w].job)
      /\ IsJobKey(call[w].key, work[w].job) /\ call[w].inv = sweep[w].inv
      /\ ~sweep[w].failed => \A i \in 1..(sweep[w].inv - 1) : Acked(work[w].job, i)
  BY <1>3 DEF WorkInv
<1>5. Type(call[w].key) = "turnoff"
  BY <1>4 DEF IsJobKey, Type
<1>6. UNCHANGED work
  BY DEF IssueInverterCommand, CommandFault, Precheck, Phase1, Phase2Begin, Vendor,
     Acknowledge, RecordUnknownOutcome, RecordExecutionFailure, Phase1Error,
     ConnectionUnusable, Phase2Error, OutcomeLost
<1>7. ASSUME FailOrSweep(w) PROVE Done(w, "FAILED") /\ UNCHANGED sweep
  BY <1>5, <1>7 DEF FailOrSweep
<1>8. UNCHANGED sweep
  BY <1>7 DEF IssueInverterCommand, CommandFault, Precheck, Phase1, Phase2Begin, Vendor,
     Acknowledge, RecordUnknownOutcome, RecordExecutionFailure, Phase1Error,
     ConnectionUnusable, Phase2Error, OutcomeLost
<1> DEFINE Good == call'[w].pc # "idle" /\ call'[w].inv = call[w].inv /\ call'[w].key = call[w].key
<1>9. Good
  <2>1. ASSUME NEW c, Call(w, c), c.pc # "idle", c.inv = call[w].inv, c.key = call[w].key
        PROVE  Good
    BY <1>1, <2>1 DEF Call, TypeOK
  <2>2. ASSUME NEW res, Done(w, res) PROVE Good
    BY <2>1, <2>2 DEF Done
  <2>3. ASSUME NEW n, NEW rep, Execute(w, call[w].inv, call[w].key, n, rep) PROVE Good
    BY <2>1, <2>3 DEF Execute
  <2>4. ASSUME NEW n, FoundIntent(w, n) PROVE Good
    BY <2>2, <2>3, <2>4 DEF FoundIntent
  <2>5. ASSUME NEW pc \in {"phase1", "held", "applied", "unknown", "fail"},
               Call(w, [call[w] EXCEPT !.pc = pc]), call[w] \in Early \cup Executing
        PROVE  Good
    <3>1. /\ [call[w] EXCEPT !.pc = pc].pc # "idle" /\ [call[w] EXCEPT !.pc = pc].inv = call[w].inv
          /\ [call[w] EXCEPT !.pc = pc].key = call[w].key
      BY <2>5 DEF Early, Executing
    <3>2. QED BY <2>1, <2>5, <3>1
  <2>6. CASE Precheck(w)
    <3>1. call[w] \in Early
      BY <1>1, <2>6, CallShape DEF Precheck
    <3>2. QED BY <2>2, <2>4, <2>5, <2>6, <3>1 DEF Precheck
  <2>7. CASE Phase1(w)
    BY <2>2, <2>3, <2>4, <2>7 DEF Phase1, CreateIntent, RefuseIntent
  <2>8. CASE Phase2Begin(w) \/ ConnectionUnusable(w)
    <3>1. call[w] \in Executing
      BY <1>1, <2>8, CallShape DEF Phase2Begin, ConnectionUnusable
    <3>2. QED BY <1>7, <2>2, <2>5, <2>8, <3>1 DEF Phase2Begin, ConnectionUnusable
  <2>9. CASE Vendor(w) \/ Phase2Error(w) \/ OutcomeLost(w)
    <3>1. call[w] \in Executing
      BY <1>1, <2>9, CallShape DEF Vendor, Phase2Error, OutcomeLost, Holding
    <3>2. QED BY <2>5, <2>9, <3>1 DEF Vendor, Phase2Error, OutcomeLost
  <2>10. CASE Acknowledge(w) \/ RecordUnknownOutcome(w) \/ RecordExecutionFailure(w) \/ Phase1Error(w)
    BY <2>2, <2>10 DEF Acknowledge, RecordUnknownOutcome, RecordExecutionFailure, Phase1Error
  <2>11. QED BY <2>6, <2>7, <2>8, <2>9, <2>10 DEF IssueInverterCommand, CommandFault
<1>10. ~sweep[w].failed => \A i \in 1..(sweep[w].inv - 1) : AckedNext(work[w].job, i)
  <2>1. sweep[w].inv \in Inverters
    BY <1>1, <1>3, <1>4, CallShape
  <2>2. \A i \in 1..(sweep[w].inv - 1) : i \in Inverters
    BY <2>1, NAssumption DEF Inverters
  <2>3. QED BY <1>1, <1>2, <1>4, <2>2, AckedGrows
<1>11. QED BY <1>4, <1>6, <1>8, <1>9, <1>10 DEF WorkOk, IsJobKey, Acked, AckedNext

\* The steps of a sweep that a worker carries out.
LEMMA WorkerSweep ==
  ASSUME TypeOK, CallInv, WorkInv, NEW w \in Workers, Sweep(w)
  PROVE  WorkOk(w)'
<1> DEFINE s == sweep[w]
<1>1. w \in Procs /\ call[w].pc = "done" /\ UNCHANGED cmds
  BY DEF Procs, Sweep
<1>2. /\ s.on /\ work[w].pc = "sweeping" /\ IsJobKey(s, work[w].job)
      /\ IsJobKey(call[w].key, work[w].job) /\ call[w].inv = s.inv
      /\ ~s.failed => \A i \in 1..(s.inv - 1) : Acked(work[w].job, i)
  BY DEF WorkInv, Sweep
<1>3. s \in JobSweeps /\ s.inv \in Inverters
  <2>1. s \in JobSweeps
    BY <1>1, <1>2, SweepShape DEF TypeOK, IsJobKey
  <2>2. QED BY <2>1 DEF JobSweeps
<1>4. Converged(w) => Acked(work[w].job, s.inv)
  BY <1>1, <1>2 DEF Converged, CallInv, IsJobKey
<1>5. ~SweepFailed(w) => \A i \in 1..s.inv : Acked(work[w].job, i)
  <2>1. SUFFICES ASSUME ~s.failed, Converged(w), NEW i \in 1..s.inv PROVE Acked(work[w].job, i)
    BY DEF SweepFailed
  <2>2. i = s.inv \/ i \in 1..(s.inv - 1)
    BY <1>3, NAssumption DEF Inverters
  <2>3. QED BY <1>2, <1>4, <2>1, <2>2
<1>6. ASSUME NEW t, NEW nonce, sweep' = [sweep EXCEPT ![w] = t], t.on, t.kind = s.kind, t.ref = s.ref,
             Call(w, NewCall(t.inv, SweepKey(s, nonce))), UNCHANGED work,
             ~t.failed => \A i \in 1..(t.inv - 1) : Acked(work[w].job, i)
      PROVE  WorkOk(w)'
  <2>1. sweep'[w] = t
    BY <1>1, <1>6 DEF TypeOK
  <2>2. /\ call'[w].pc # "idle" /\ call'[w].inv = t.inv
        /\ call'[w].key.kind = s.kind /\ call'[w].key.ref = s.ref
    BY <1>1, <1>6 DEF Call, NewCall, SweepKey, TypeOK
  <2>3. QED BY <1>1, <1>2, <1>6, <2>1, <2>2 DEF WorkOk, IsJobKey, Acked
<1>7. CASE SweepAgain(w)
  <2> DEFINE t == [s EXCEPT !.try = s.try + 1]
  <2>1. t.on /\ t.kind = s.kind /\ t.ref = s.ref /\ t.inv = s.inv /\ t.failed = s.failed
    BY <1>3 DEF JobSweeps
  <2>2. /\ sweep' = [sweep EXCEPT ![w] = t] /\ Call(w, NewCall(s.inv, SweepKey(s, "random")))
        /\ UNCHANGED work
    BY <1>7 DEF SweepAgain
  <2> HIDE DEF t
  <2>3. QED BY <1>2, <1>6, <2>1, <2>2
<1>8. CASE SweepNext(w)
  <2> DEFINE t == [s EXCEPT !.inv = s.inv + 1, !.try = 1, !.failed = SweepFailed(w)]
  <2>1. t.on /\ t.kind = s.kind /\ t.ref = s.ref /\ t.inv = s.inv + 1 /\ t.failed = SweepFailed(w)
    BY <1>3 DEF JobSweeps
  <2>2. /\ sweep' = [sweep EXCEPT ![w] = t] /\ Call(w, NewCall(s.inv + 1, SweepKey(s, "stable")))
        /\ UNCHANGED work
    BY <1>8 DEF SweepNext
  <2> HIDE DEF t
  <2>3. (s.inv + 1) - 1 = s.inv
    BY <1>3, NAssumption DEF Inverters
  <2>4. QED BY <1>5, <1>6, <2>1, <2>2, <2>3
<1>9. CASE SweepEnd(w)
  <2>1. /\ sweep' = [sweep EXCEPT ![w] = NoSweep] /\ Call(w, IdleCall) /\ s.inv = N
        /\ work' = [work EXCEPT ![w].pc = IF SweepFailed(w) THEN "failed" ELSE "confirmed"]
    BY <1>2, <1>9 DEF SweepEnd, IsJobKey
  <2>2. ~sweep'[w].on /\ call'[w].pc = "idle"
    BY <1>1, <2>1 DEF TypeOK, Call, NoSweep, IdleCall
  <2>3. work'[w].pc = (IF SweepFailed(w) THEN "failed" ELSE "confirmed") /\ work'[w].job = work[w].job
    <3>1. work[w] \in Works /\ work[w] # IdleWork
      BY <1>2 DEF TypeOK, Works, IdleWork
    <3>2. QED BY <2>1, <3>1 DEF TypeOK, Works
  <2>4. ~SweepFailed(w) => \A i \in Inverters : Acked(work[w].job, i)
    BY <1>5, <2>1 DEF Inverters
  <2>5. QED BY <1>1, <2>2, <2>3, <2>4 DEF WorkOk, Acked
<1>10. CASE SweepClaimLost(w)
  <2>1. ~sweep'[w].on /\ call'[w].pc = "idle" /\ work'[w].pc = "idle"
    BY <1>1, <1>10 DEF SweepClaimLost, TypeOK, Call, NoSweep, IdleCall, IdleWork
  <2>2. QED BY <2>1, IdleWorker
<1>11. QED BY <1>7, <1>8, <1>9, <1>10 DEF Sweep

\* The steps of the job processor around the sweep.
LEMMA WorkerJob ==
  ASSUME TypeOK, WorkInv, NEW w \in Workers, Worker(w) \/ \E e \in Events : JobSelect(w, e)
  PROVE  WorkOk(w)'
<1>1. w \in Procs /\ UNCHANGED cmds
  BY DEF Procs, Worker, JobSelect, JobClaim, JobBegin, JobEnd
<1>2. work[w].pc # "sweeping"
  BY DEF Worker, JobSelect, JobClaim, JobBegin, JobEnd
<1>3. ~sweep[w].on /\ call[w].pc = "idle"
  BY <1>2 DEF WorkInv
<1>4. ASSUME NEW new, work' = [work EXCEPT ![w] = new], new.pc # "confirmed",
             UNCHANGED <<call, sweep>>
      PROVE  WorkOk(w)'
  <2>1. work'[w].pc # "confirmed"
    BY <1>4 DEF TypeOK
  <2>2. QED BY <1>3, <1>4, <2>1, IdleWorker
<1>5. ASSUME NEW pc, work' = [work EXCEPT ![w].pc = pc], pc # "confirmed", work[w].pc # "idle",
             UNCHANGED <<call, sweep>>
      PROVE  WorkOk(w)'
  <2>1. work'[w].pc = pc
    BY <1>5 DEF TypeOK, IdleWork
  <2>2. QED BY <1>3, <1>5, <2>1, IdleWorker
<1>6. CASE \E e \in Events : JobSelect(w, e)
  BY <1>4, <1>6 DEF JobSelect
<1>7. CASE JobClaim(w) \/ JobEnd(w)
  BY <1>4, <1>5, <1>7 DEF JobClaim, JobEnd, IdleWork
<1>8. CASE JobBegin(w)
  <2> DEFINE s == NewSweep("job", work[w].job, work[w].att)
  <2>1. CASE /\ work' = [work EXCEPT ![w].pc = "sweeping"] /\ sweep' = [sweep EXCEPT ![w] = s]
             /\ Call(w, NewCall(1, SweepKey(s, "stable")))
    <3>1. sweep'[w] = s /\ call'[w] = NewCall(1, SweepKey(s, "stable"))
      BY <1>1, <2>1 DEF TypeOK, Call
    <3>2. work[w] \in Works /\ work[w] # IdleWork
      BY <1>8 DEF TypeOK, Works, IdleWork, JobBegin
    <3>3. work'[w].pc = "sweeping" /\ work'[w].job = work[w].job
      BY <2>1, <3>2 DEF TypeOK, Works
    <3>4. s.on /\ s.kind = "job" /\ s.ref = work[w].job /\ s.inv = 1
      BY DEF NewSweep
    <3>5. /\ call'[w].pc = "precheck" /\ call'[w].inv = 1
          /\ call'[w].key.kind = s.kind /\ call'[w].key.ref = s.ref
      BY <3>1 DEF NewCall, SweepKey
    <3>6. 1..(1 - 1) = {}
      OBVIOUS
    <3>7. QED BY <3>1, <3>3, <3>4, <3>5, <3>6 DEF WorkOk, IsJobKey
  <2>2. CASE UNCHANGED <<call, sweep>>
    BY <1>4, <1>5, <1>8, <2>2 DEF JobBegin, IdleWork
  <2>3. QED BY <1>8, <2>1, <2>2 DEF JobBegin
<1>9. QED BY <1>6, <1>7, <1>8 DEF Worker

LEMMA WorkStep ==
  ASSUME TypeOK, CallInv, HeldInv, Mutex, WorkInv, Next
  PROVE  WorkInv'
<1> SUFFICES ASSUME NEW w \in Workers PROVE WorkOk(w)'
  BY DEF WorkInv, WorkOk
<1>1. w \in Procs /\ w \notin Users /\ w \notin Reconcilers /\ WorkOk(w)
  BY DisjointAssumption DEF Procs, WorkInv, WorkOk
<1>2. CASE OutsideStep
  BY <1>1, <1>2, OutsideFrame DEF WorkOk, Acked
<1>3. ASSUME NEW p \in Procs, ProcStep(p), p # w PROVE WorkOk(w)'
  <2>1. call'[w] = call[w] /\ sweep'[w] = sweep[w] /\ work'[w] = work[w]
    BY <1>1, <1>3, ProcFrame
  <2>2. \A i \in Inverters : Acked(work[w].job, i) => AckedNext(work[w].job, i)
    BY <1>3, CmdsSteps, AckedGrows
  <2>3. sweep[w].on => sweep[w].inv \in Inverters
    <3>1. sweep[w] \in Sweeps
      BY <1>1 DEF TypeOK
    <3>2. sweep[w].on => sweep[w] \in JobSweeps \cup UnresolvedSweeps
      BY <3>1, SweepShape
    <3>3. QED BY <3>2 DEF JobSweeps, UnresolvedSweeps
  <2>4. sweep[w].on => \A i \in 1..(sweep[w].inv - 1) : i \in Inverters
    BY <2>3, NAssumption DEF Inverters
  <2>5. QED BY <1>1, <2>1, <2>2, <2>4 DEF WorkOk, Acked, AckedNext
<1>4. CASE ProcStep(w)
  <2>1. CASE Crash(w)
    <3>1. call'[w].pc = "idle" /\ ~sweep'[w].on /\ work'[w].pc = "idle"
      BY <1>1, <2>1 DEF Crash, Call, TypeOK, IdleCall, NoSweep, IdleWork
    <3>2. QED BY <3>1, IdleWorker
  <2>2. QED BY <1>1, <1>4, <2>1, WorkerCall, WorkerSweep, WorkerJob DEF ProcStep
<1>5. QED BY <1>2, <1>3, <1>4, WhoSteps

-----------------------------------------------------------------------------
(* The cover: an inverter that may run is paid for or owed a switch-off *)

\* An inverter ceases to be Off only when phase 2 of a turnon finds the user
\* entitled, and that step changes nothing else that matters.
LEMMA OffStep ==
  ASSUME TypeOK, NEW p \in Procs, ProcStep(p), NEW i \in Inverters, Off(i), ~Off(i)'
  PROVE  Entitled /\ UNCHANGED <<subs, userActive, jobs, cmds, work>>
<1>1. PhysicalStep(p) /\ HoldStep(p)
  BY PhysicalSteps, HoldSteps
<1>2. \A q \in Procs : q # p => call'[q] = call[q]
  BY ProcFrame
<1>3. physical'[i] = physical[i]
  <2>1. SUFFICES ASSUME physical'[i] # physical[i] PROVE FALSE
    OBVIOUS
  <2>2. Holding(p) /\ call[p].inv = i /\ physical'[i] = (Type(call[p].key) = "turnon")
    BY <1>1, <2>1 DEF PhysicalStep, Holding
  <2>3. Type(call[p].key) # "turnon"
    BY <2>2 DEF Off, TurningOn
  <2>4. ~physical'[i] /\ ~physical[i]
    BY <2>2, <2>3 DEF Off
  <2>5. physical[i] \in BOOLEAN /\ physical'[i] \in BOOLEAN
    BY <2>2 DEF TypeOK
  <2>6. QED BY <2>1, <2>4, <2>5
<1>4. PICK q \in Procs : Holding(q)' /\ call'[q].inv = i /\ Type(call'[q].key) = "turnon"
  BY <1>3 DEF Off, TurningOn
<1>5. q = p /\ ~Holding(p)
  BY <1>1, <1>2, <1>4 DEF Off, TurningOn, Holding, HoldStep
<1>6. /\ ~Refused(p) /\ UNCHANGED <<cmds, physical, jobs, work>>
      /\ Type(call[p].key) = "turnon"
  BY <1>1, <1>4, <1>5 DEF HoldStep
<1>7. ~IsSafetyTurnoff(call[p].key)
  BY <1>6 DEF Type, IsSafetyTurnoff
<1>8. Entitled
  BY <1>6, <1>7 DEF Refused
<1>9. QED BY <1>6, <1>8, ProcFrame

\* The acknowledgement of a job's command finds its inverter off.
LEMMA AckedIsOff ==
  ASSUME TypeOK, CallInv, HeldInv, Mutex, NEW p \in Procs, ProcStep(p),
         NEW e \in Events, NEW i \in Inverters, ~Acked(e, i), AckedNext(e, i)
  PROVE  Off(i)'
<1>1. CmdsStep(p) /\ PhysicalStep(p) /\ HoldStep(p)
  BY CmdsSteps, PhysicalSteps, HoldSteps
<1>2. PICK n \in DOMAIN cmds'[i] :
        IsJobKey(cmds'[i][n].key, e) /\ cmds'[i][n].status = "ACKNOWLEDGED"
  BY DEF AckedNext
<1>3. n \in DOMAIN cmds[i] /\ cmds'[i][n].key = cmds[i][n].key
  BY <1>1, <1>2 DEF CmdsStep
<1>4. cmds'[i][n].status # cmds[i][n].status
  BY <1>2, <1>3 DEF Acked
<1>5. call[p].inv = i /\ call[p].pc = "applied" /\ n = call[p].n
  BY <1>1, <1>2, <1>3, <1>4 DEF CmdsStep
<1>6. call[p].key = cmds[i][n].key /\ physical[i] = (Type(call[p].key) = "turnon")
  BY <1>5 DEF CallInv
<1>7. Type(call[p].key) = "turnoff"
  BY <1>2, <1>3, <1>6 DEF IsJobKey, Type
<1>8. ~physical'[i]
  BY <1>1, <1>5, <1>6, <1>7 DEF PhysicalStep
<1>9. ASSUME NEW q \in Procs, Holding(q)', call'[q].inv = i, Type(call'[q].key) = "turnon"
      PROVE  FALSE
  <2>1. q # p
    BY <1>1, <1>7, <1>9 DEF HoldStep
  <2>2. Holding(q) /\ call[q].inv = i
    BY <1>9, <2>1, ProcFrame DEF Holding
  <2>3. QED BY <1>5, <2>1, <2>2 DEF Mutex, Holding
<1>10. QED BY <1>8, <1>9 DEF Off, TurningOn

\* A new loss event owes every inverter a switch-off.
LEMMA LossOwes ==
  ASSUME TypeOK, FreshInv, NEW e \in Events, jobs[e].status = "NONE", Enqueue(e),
         UNCHANGED <<cmds, work>>
  PROVE  \A i \in Inverters : Owed(i)'
<1>1. jobs[e] = NoJob /\ ~Obsolete(e) /\ \A i \in Inverters : ~Acked(e, i)
  BY DEF FreshInv, Obsolete, Acked
<1>2. jobs'[e].status = "PENDING"
  <2>1. jobs' = [jobs EXCEPT ![e].status = "PENDING"]
    BY <1>1 DEF Enqueue
  <2>2. jobs[e] \in Jobs
    BY DEF TypeOK
  <2>3. QED BY <2>1, <2>2 DEF TypeOK, Jobs
<1>3. ~Obsolete(e)' /\ \A i \in Inverters : ~Acked(e, i)'
  BY <1>1 DEF Obsolete, Acked
<1>4. QED BY <1>2, <1>3 DEF Owed, Live

\* A job whose command the inverter has not acknowledged is closed only when the user is entitled.
LEMMA ClosedStep ==
  ASSUME TypeOK, CallInv, HeldInv, Mutex, WorkInv, NEW p \in Procs, ProcStep(p),
         NEW e \in Events, NEW i \in Inverters, Live(e), ~Acked(e, i), ~Obsolete(e),
         ~Live(e)' \/ Obsolete(e)'
  PROVE  Entitled
<1>1. CASE Obsolete(e)'
  <2>1. PICK w \in Workers : work'[w].pc = "obsolete" /\ work'[w].job = e
    BY <1>1 DEF Obsolete
  <2>2. w = p /\ work'[p] # work[p]
    BY <2>1, ProcFrame DEF Obsolete
  <2>3. JobBegin(p) \/ work' = [work EXCEPT ![p].pc = "claimed"] \/ work' = [work EXCEPT ![p] = IdleWork]
          \/ (\E j, att : work' = [work EXCEPT ![p] = [pc |-> "selected", job |-> j, att |-> att]])
          \/ work' = [work EXCEPT ![p].pc = IF SweepFailed(p) THEN "failed" ELSE "confirmed"]
          \/ (Crash(p) /\ work'[p] = IdleWork)
    BY <2>1, <2>2 DEF ProcStep, IssueInverterCommand, CommandFault, Precheck, Phase1,
       Phase2Begin, Vendor, Acknowledge, RecordUnknownOutcome, RecordExecutionFailure,
       Phase1Error, ConnectionUnusable, Phase2Error, OutcomeLost, Sweep, SweepAgain, SweepNext,
       SweepEnd, SweepClaimLost, Crash, SiteCommand, SiteRequest, ReconcileDone, ReconcilePick,
       Worker, JobSelect, JobClaim, JobEnd
  <2>4. JobBegin(p) /\ ~(work' = [work EXCEPT ![p] = IdleWork])
    BY <2>1, <2>2, <2>3 DEF TypeOK, IdleWork
  <2>5. JobBegin(p) /\ work'[p].pc = "obsolete" /\ p \in Workers
    BY <2>1, <2>2, <2>4
  <2>6. work[p].pc = "claimed" /\ ~(work' = [work EXCEPT ![p].pc = "sweeping"])
    BY <2>5 DEF JobBegin, TypeOK, IdleWork
  <2>7. QED BY <2>4, <2>6 DEF JobBegin
<1>2. CASE ~Live(e)'
  <2>1. jobs'[e] # jobs[e]
    BY <1>2 DEF Live
  <2>2. p \in Workers /\ (JobClaim(p) \/ JobEnd(p))
    BY <2>1 DEF ProcStep, IssueInverterCommand, CommandFault, Precheck, Phase1, Phase2Begin,
       Vendor, Acknowledge, RecordUnknownOutcome, RecordExecutionFailure, Phase1Error,
       ConnectionUnusable, Phase2Error, OutcomeLost, Sweep, Crash, SiteCommand, SiteRequest,
       ReconcileDone, ReconcilePick, Worker, JobSelect, JobBegin, commerce
  <2>3. CASE JobClaim(p)
    <3>1. jobs'[e].status = "RUNNING" \/ jobs'[e] = jobs[e]
      BY <2>3 DEF JobClaim, TypeOK
    <3>2. QED BY <1>2, <2>1, <3>1 DEF Live
  <2>4. CASE JobEnd(p)
    <3>1. work[p].job = e /\ jobs[e] \in Jobs
      BY <2>1, <2>4 DEF JobEnd, TypeOK
    <3>2. work[p].pc = "failed" => jobs'[e].status = "PENDING"
      BY <2>1, <2>4, <3>1 DEF JobEnd, TypeOK, Jobs
    <3>3. work[p].pc # "failed"
      BY <1>2, <3>2 DEF Live
    <3>4. work[p].pc # "obsolete"
      BY <2>2, <3>1 DEF Obsolete
    <3>5. work[p].pc # "confirmed"
      BY <2>2, <3>1 DEF WorkInv
    <3>6. QED BY <2>4, <3>3, <3>4, <3>5 DEF JobEnd
  <2>5. QED BY <2>2, <2>3, <2>4
<1>3. QED BY <1>1, <1>2

\* A switch-off ceases to be owed only when it is done or need not be done.
LEMMA OwedStep ==
  ASSUME TypeOK, CallInv, HeldInv, Mutex, WorkInv, NEW p \in Procs, ProcStep(p),
         NEW i \in Inverters, Owed(i), ~Owed(i)'
  PROVE  Off(i)' \/ Entitled
<1>1. PICK e \in Events : Live(e) /\ ~Acked(e, i) /\ ~Obsolete(e)
  BY DEF Owed
<1>2. CASE Acked(e, i)'
  <2>1. AckedNext(e, i)
    BY <1>2 DEF Acked, AckedNext
  <2>2. QED BY <1>1, <2>1, AckedIsOff
<1>3. CASE ~Live(e)' \/ Obsolete(e)'
  BY <1>1, <1>3, ClosedStep
<1>4. QED BY <1>2, <1>3 DEF Owed

LEMMA CoverStep ==
  ASSUME IInv, Next
  PROVE  Cover'
<1> USE DEF IInv
<1> SUFFICES ASSUME NEW i \in Inverters PROVE (Off(i) \/ Subscribed \/ Owed(i))'
  BY DEF Cover
<1>1. Off(i) \/ Subscribed \/ Owed(i)
  BY DEF Cover
<1>2. ASSUME NEW p \in Procs, ProcStep(p) PROVE (Off(i) \/ Subscribed \/ Owed(i))'
  <2>1. Subscribed => Subscribed'
    BY <1>2, ProcFrame DEF Subscribed
  <2>2. Off(i) => Off(i)' \/ Entitled
    BY <1>2, OffStep
  <2>3. Owed(i) => Owed(i)' \/ Off(i)' \/ Entitled
    BY <1>2, OwedStep
  <2>4. Entitled => Subscribed
    BY DEF Entitled, Subscribed
  <2>5. QED BY <1>1, <2>1, <2>2, <2>3, <2>4
<1>3. ASSUME OutsideStep PROVE (Off(i) <=> Off(i)') /\ UNCHANGED <<cmds, work>>
  BY <1>3, OutsideFrame DEF Off, TurningOn, Holding
<1>4. ASSUME UNCHANGED <<cmds, work>>, \A e \in Events : Live(e) => Live(e)', Owed(i)
      PROVE  Owed(i)'
  BY <1>4 DEF Owed, Acked, Obsolete
<1>5. CASE \E e \in Events : JobRecover(e)
  <2>1. \A e \in Events : Live(e) => Live(e)'
    BY <1>5 DEF Live, JobRecover, TypeOK, Jobs
  <2>2. UNCHANGED <<subs, userActive>>
    BY <1>5 DEF JobRecover
  <2>3. QED BY <1>1, <1>3, <1>4, <1>5, <2>1, <2>2 DEF OutsideStep, Subscribed
<1>6. CASE FlagsOverwritten
  <2>1. UNCHANGED <<subs, userActive, jobs>>
    BY <1>6 DEF FlagsOverwritten, commerce
  <2>2. QED BY <1>1, <1>3, <1>4, <1>6, <2>1 DEF OutsideStep, Subscribed, Live
<1>7. CASE Commerce
  <2>1. ASSUME NEW e \in Events, jobs[e].status = "NONE", Enqueue(e) PROVE Owed(i)'
    BY <1>3, <1>7, <2>1, LossOwes DEF OutsideStep
  <2>2. ASSUME NEW s \in Subs, Subscribe(s) \/ Lapse(s) PROVE (Off(i) \/ Subscribed \/ Owed(i))'
    <3>1. Subscribed => Subscribed'
      BY <2>2 DEF Subscribed, Subscribe, Lapse, TypeOK
    <3>2. UNCHANGED jobs
      BY <2>2 DEF Subscribe, Lapse
    <3>3. QED BY <1>1, <1>3, <1>4, <1>7, <3>1, <3>2 DEF OutsideStep, Live
  <2>3. ASSUME NEW s \in Subs, Expire(s) \/ Cancel(s) PROVE Owed(i)'
    <3>1. jobs[s].status = "NONE" /\ s \in Events
      BY <2>3 DEF SubsInv, Events, Expire, Cancel
    <3>2. QED BY <2>1, <2>3, <3>1 DEF Expire, Cancel
  <2>4. ASSUME NEW s \in Subs, NEW e \in Refunds, Refund(s, e) PROVE Owed(i)'
    BY <2>1, <2>4 DEF Refund, NoJob, Events
  <2>5. ASSUME NEW e \in Disablings, Disable(e) PROVE Owed(i)'
    BY <2>1, <2>5 DEF Disable, NoJob, Events
  <2>6. CASE Enable
    <3>1. Subscribed => Subscribed'
      BY <2>6 DEF Subscribed, Enable
    <3>2. UNCHANGED jobs
      BY <2>6 DEF Enable
    <3>3. QED BY <1>1, <1>3, <1>4, <1>7, <3>1, <3>2 DEF OutsideStep, Live
  <2>7. QED BY <1>7, <2>2, <2>3, <2>4, <2>5, <2>6 DEF Commerce
<1>8. QED BY <1>2, <1>5, <1>6, <1>7, WhoSteps DEF OutsideStep

-----------------------------------------------------------------------------
(* The waiting turnons: each is paid for, or a job that is newer than the    *)
(* turnon still owes its inverter a switch-off, which will cancel it         *)

\* Every command of the job on the inverter is newer than the command n.
After(i, n, e) == \A m \in DOMAIN cmds[i] : IsJobKey(cmds[i][m].key, e) => n < m

Cancels(i, n, e) == Live(e) /\ ~Acked(e, i) /\ ~Obsolete(e) /\ After(i, n, e)

StaleCover ==
  \A i \in Inverters : \A n \in DOMAIN cmds[i] :
    Pending(i, n) /\ Type(cmds[i][n].key) = "turnon" => Subscribed \/ \E e \in Events : Cancels(i, n, e)

\* A new row comes last, and it is a turnon only if the user is entitled.
LEMMA NewRow ==
  ASSUME TypeOK, TypeOK', CallInv, HeldInv, Mutex, NEW p \in Procs, ProcStep(p),
         NEW i \in Inverters, NEW n \in DOMAIN cmds'[i], n \notin DOMAIN cmds[i]
  PROVE  /\ Type(cmds'[i][n].key) = "turnon" => Entitled
         /\ \A m \in DOMAIN cmds[i] : m < n
<1>1. call[p].pc = "phase1" /\ cmds'[i][n].key = call[p].key
  BY CmdsSteps DEF CmdsStep
<1>2. cmds' # cmds
  OBVIOUS
<1>3. CreateIntent(p)
  BY <1>1, <1>2 DEF ProcStep, IssueInverterCommand, CommandFault, Precheck, Phase1, Phase2Begin, Vendor,
     Acknowledge, RecordUnknownOutcome, RecordExecutionFailure, Phase1Error, ConnectionUnusable, Phase2Error,
     OutcomeLost, Holding, RefuseIntent, Sweep, Crash, SiteCommand, SiteRequest, ReconcileDone, ReconcilePick,
     Worker, JobSelect, JobClaim, JobBegin, JobEnd
<1>4. Type(cmds'[i][n].key) = "turnon" => Entitled
  BY <1>1, <1>3 DEF CreateIntent, Type, IsSafetyTurnoff
<1>5. \A m \in DOMAIN cmds[i] : m < n
  <2>1. /\ cmds[i] \in Seq(Command) /\ cmds'[i] \in Seq(Command)
    BY DEF TypeOK
  <2>2. /\ DOMAIN cmds[i] = 1 .. Len(cmds[i]) /\ Len(cmds[i]) \in Nat
        /\ DOMAIN cmds'[i] = 1 .. Len(cmds'[i]) /\ Len(cmds'[i]) \in Nat
    BY <2>1
  <2>3. n \in Nat /\ n > Len(cmds[i])
    BY <2>2
  <2>4. QED BY <2>2, <2>3
<1>6. QED BY <1>4, <1>5

\* The acknowledgement of a switch-off cancels the commands before it.
LEMMA AckCancels ==
  ASSUME TypeOK, CallInv, HeldInv, Mutex, NEW p \in Procs, ProcStep(p),
         NEW e \in Events, NEW i \in Inverters, ~Acked(e, i), AckedNext(e, i),
         NEW m \in DOMAIN cmds[i], After(i, m, e)
  PROVE  cmds'[i][m].status # "PENDING"
<1>1. CmdsStep(p)
  BY CmdsSteps
<1>2. PICK n \in DOMAIN cmds'[i] :
        IsJobKey(cmds'[i][n].key, e) /\ cmds'[i][n].status = "ACKNOWLEDGED"
  BY DEF AckedNext
<1>3. n \in DOMAIN cmds[i] /\ cmds'[i][n].key = cmds[i][n].key
  BY <1>1, <1>2 DEF CmdsStep
<1>4. cmds'[i][n].status # cmds[i][n].status /\ m < n
  BY <1>2, <1>3 DEF Acked, After
<1>5. call[p].inv = i /\ call[p].pc = "applied" /\ n = call[p].n
  BY <1>1, <1>2, <1>3, <1>4 DEF CmdsStep
<1>6. Type(call[p].key) = "turnoff"
  BY <1>2, <1>3, <1>5 DEF CallInv, IsJobKey, Type
<1>7. Acknowledge(p)
  BY <1>4, <1>5 DEF ProcStep, IssueInverterCommand, CommandFault, Precheck, Phase1, Phase2Begin, Vendor,
     RecordUnknownOutcome, RecordExecutionFailure, Phase1Error, ConnectionUnusable, Phase2Error,
     OutcomeLost, Sweep, Crash, SiteCommand, SiteRequest, ReconcileDone, ReconcilePick,
     Worker, JobSelect, JobClaim, JobBegin, JobEnd
<1>8. cmds'[i] = [x \in DOMAIN cmds[i] |->
           IF x = n THEN [cmds[i][x] EXCEPT !.status = "ACKNOWLEDGED"]
           ELSE IF Superseded(i, n, call[p].key, x) THEN [cmds[i][x] EXCEPT !.status = "CANCELED"]
           ELSE cmds[i][x]]
  BY <1>5, <1>7 DEF Acknowledge, TypeOK
<1>9. m # n
  <2>1. m \in Nat /\ n \in Nat
    BY <1>3 DEF TypeOK
  <2>2. QED BY <1>4, <2>1
<1>10. cmds[i][m] \in Command
  BY RowTypes
<1>11. QED BY <1>4, <1>6, <1>8, <1>9, <1>10 DEF Superseded, Pending, Command

LEMMA StaleProc ==
  ASSUME IInv, TypeOK', StaleCover, NEW p \in Procs, ProcStep(p)
  PROVE  StaleCover'
<1> SUFFICES ASSUME NEW i \in Inverters, NEW n \in DOMAIN cmds'[i],
                    cmds'[i][n].status = "PENDING", Type(cmds'[i][n].key) = "turnon", ~Subscribed'
             PROVE  \E e \in Events : Cancels(i, n, e)'
  BY DEF StaleCover, Pending
<1>1. CmdsStep(p) /\ ~Subscribed /\ ~Entitled
  BY CmdsSteps, ProcFrame DEF IInv, Subscribed, Entitled
<1>2. n \in DOMAIN cmds[i]
  BY <1>1, NewRow DEF IInv
<1>3. cmds'[i][n].key = cmds[i][n].key /\ Pending(i, n)
  BY <1>1, <1>2 DEF CmdsStep, Pending
<1>4. PICK e \in Events : Cancels(i, n, e)
  BY <1>1, <1>2, <1>3 DEF StaleCover
<1>5. Live(e)' /\ ~Obsolete(e)'
  BY <1>1, <1>4, ClosedStep DEF IInv, Cancels
<1>6. ~Acked(e, i)'
  <2>1. ~AckedNext(e, i)
    BY <1>2, <1>4, AckCancels DEF IInv, Cancels
  <2>2. QED BY <2>1 DEF AckedNext, Acked
<1>7. After(i, n, e)'
  <2> SUFFICES ASSUME NEW m \in DOMAIN cmds'[i], IsJobKey(cmds'[i][m].key, e) PROVE n < m
    BY DEF After
  <2>1. CASE m \in DOMAIN cmds[i]
    BY <1>1, <1>4, <2>1 DEF CmdsStep, Cancels, After
  <2>2. CASE m \notin DOMAIN cmds[i]
    BY <1>2, <2>2, NewRow DEF IInv
  <2>3. QED BY <2>1, <2>2
<1>8. QED BY <1>5, <1>6, <1>7 DEF Cancels

\* A new loss event cancels every turnon that waits.
LEMMA LossCancels ==
  ASSUME TypeOK, FreshInv, NEW e \in Events, jobs[e].status = "NONE", Enqueue(e),
         UNCHANGED <<cmds, work>>
  PROVE  \A i \in Inverters : \A n \in DOMAIN cmds[i] : Cancels(i, n, e)'
<1>1. jobs[e] = NoJob /\ ~Obsolete(e) /\ \A i \in Inverters : ~Acked(e, i)
  BY DEF FreshInv, Obsolete, Acked
<1>2. jobs'[e].status = "PENDING"
  <2>1. jobs' = [jobs EXCEPT ![e].status = "PENDING"]
    BY <1>1 DEF Enqueue
  <2>2. jobs[e] \in Jobs
    BY DEF TypeOK
  <2>3. QED BY <2>1, <2>2 DEF TypeOK, Jobs
<1>3. ~Obsolete(e)' /\ \A i \in Inverters : ~Acked(e, i)'
  BY <1>1 DEF Obsolete, Acked
<1>4. \A i \in Inverters : \A n \in DOMAIN cmds[i] : After(i, n, e)'
  BY DEF FreshInv, After
<1>5. QED BY <1>2, <1>3, <1>4 DEF Cancels, Live

\* The events outside: none of them touches a command.
LEMMA StaleOutside ==
  ASSUME IInv, StaleCover, OutsideStep \/ UNCHANGED vars
  PROVE  StaleCover'
<1> USE DEF IInv
<1>1. UNCHANGED <<cmds, work>>
  BY OutsideFrame DEF vars
<1>2. ASSUME Subscribed => Subscribed', \A e \in Events : Live(e) => Live(e)'
      PROVE  StaleCover'
  <2>1. ASSUME NEW i \in Inverters, NEW n \in DOMAIN cmds[i], NEW e \in Events, Cancels(i, n, e)
        PROVE  Cancels(i, n, e)'
    BY <1>1, <1>2, <2>1 DEF Cancels, Acked, Obsolete, After
  <2>2. QED BY <1>1, <1>2, <2>1 DEF StaleCover, Pending
<1>3. ASSUME NEW e \in Events, jobs[e].status = "NONE", Enqueue(e) PROVE StaleCover'
  <2>1. \A i \in Inverters : \A n \in DOMAIN cmds[i] : Cancels(i, n, e)'
    BY <1>1, <1>3, LossCancels
  <2>2. QED BY <1>1, <2>1 DEF StaleCover
<1>4. CASE \E e \in Events : JobRecover(e)
  <2>1. \A e \in Events : Live(e) => Live(e)'
    BY <1>4 DEF Live, JobRecover, TypeOK, Jobs
  <2>2. UNCHANGED <<subs, userActive>>
    BY <1>4 DEF JobRecover
  <2>3. QED BY <1>2, <2>1, <2>2 DEF Subscribed
<1>5. CASE FlagsOverwritten \/ UNCHANGED vars
  <2>1. UNCHANGED <<subs, userActive, jobs>>
    BY <1>5 DEF FlagsOverwritten, commerce, vars
  <2>2. QED BY <1>2, <2>1 DEF Subscribed, Live
<1>6. CASE Commerce
  <2>1. ASSUME NEW s \in Subs, Subscribe(s) \/ Lapse(s) PROVE StaleCover'
    <3>1. Subscribed => Subscribed'
      BY <2>1 DEF Subscribed, Subscribe, Lapse, TypeOK
    <3>2. UNCHANGED jobs
      BY <2>1 DEF Subscribe, Lapse
    <3>3. QED BY <1>2, <3>1, <3>2 DEF Live
  <2>2. ASSUME NEW s \in Subs, Expire(s) \/ Cancel(s) PROVE StaleCover'
    <3>1. jobs[s].status = "NONE" /\ s \in Events
      BY <2>2 DEF SubsInv, Events, Expire, Cancel
    <3>2. QED BY <1>3, <2>2, <3>1 DEF Expire, Cancel
  <2>3. ASSUME NEW s \in Subs, NEW e \in Refunds, Refund(s, e) PROVE StaleCover'
    BY <1>3, <2>3 DEF Refund, NoJob, Events
  <2>4. ASSUME NEW e \in Disablings, Disable(e) PROVE StaleCover'
    BY <1>3, <2>4 DEF Disable, NoJob, Events
  <2>5. CASE Enable
    <3>1. Subscribed => Subscribed'
      BY <2>5 DEF Subscribed, Enable
    <3>2. UNCHANGED jobs
      BY <2>5 DEF Enable
    <3>3. QED BY <1>2, <3>1, <3>2 DEF Live
  <2>6. QED BY <1>6, <2>1, <2>2, <2>3, <2>4, <2>5 DEF Commerce
<1>7. QED BY <1>4, <1>5, <1>6 DEF OutsideStep

-----------------------------------------------------------------------------
(* The theorems *)

LEMMA InitInv == Init => IInv
<1> SUFFICES ASSUME Init PROVE IInv
  OBVIOUS
<1>1. TypeOK
  BY TypeInit
<1>2. /\ \A p \in Procs : call[p].pc = "idle" /\ ~sweep[p].on
      /\ \A w \in Workers : work[w].pc = "idle" /\ w \in Procs
      /\ \A e \in Events : jobs[e] = NoJob
      /\ \A i \in Inverters : cmds[i] = <<>> /\ ~physical[i]
  BY DEF Init, IdleCall, NoSweep, IdleWork, Procs
<1>3. Cover
  BY <1>2 DEF Cover, Off, TurningOn, Holding
<1>4. Mutex /\ CallInv /\ HeldInv
  BY <1>2 DEF Mutex, CallInv, HeldInv, Holding
<1>5. \A i \in Inverters : DOMAIN cmds[i] = {}
  BY <1>2
<1>6. FreshInv
  BY <1>2, <1>5 DEF FreshInv
<1>7. SubsInv
  BY <1>2 DEF SubsInv, NoJob, Events
<1>8. WorkInv
  BY <1>2 DEF WorkInv
<1>9. QED BY <1>1, <1>3, <1>4, <1>6, <1>7, <1>8 DEF IInv

LEMMA StepInv == IInv /\ [Next]_vars => IInv'
<1> SUFFICES ASSUME IInv, [Next]_vars PROVE IInv'
  OBVIOUS
<1>1. CASE UNCHANGED vars
  <2>1. TypeOK'
    BY <1>1, TypeStep DEF IInv
  <2>2. Cover'
    BY <1>1 DEF IInv, vars, Cover, Off, TurningOn, Holding, Subscribed, Owed, Live, Acked, Obsolete
  <2>3. Mutex' /\ HeldInv' /\ CallInv'
    BY <1>1 DEF IInv, vars, Mutex, HeldInv, CallInv, Holding, Pending, Acked
  <2>4. FreshInv' /\ SubsInv' /\ WorkInv'
    BY <1>1 DEF IInv, vars, FreshInv, SubsInv, WorkInv, Acked
  <2>5. QED BY <2>1, <2>2, <2>3, <2>4 DEF IInv
<1>2. CASE Next
  <2>1. TypeOK'
    BY <1>2, TypeStep DEF IInv
  <2>2. Cover'
    BY <1>2, CoverStep
  <2>3. Mutex' /\ HeldInv' /\ CallInv'
    <3>1. ASSUME NEW p \in Procs, ProcStep(p) PROVE Mutex' /\ HeldInv' /\ CallInv'
      BY <3>1, MutexStep, HeldStep, CallInvStep DEF IInv
    <3>2. CASE OutsideStep
      BY <3>2, OutsideFrame DEF IInv, Mutex, HeldInv, CallInv, Holding, Pending, Acked
    <3>3. QED BY <1>2, <3>1, <3>2, WhoSteps
  <2>4. FreshInv' /\ SubsInv' /\ WorkInv'
    BY <1>2, FreshStep, SubsStep, WorkStep DEF IInv
  <2>5. QED BY <2>1, <2>2, <2>3, <2>4 DEF IInv
<1>3. QED BY <1>1, <1>2

\* The inductive invariant holds in every reachable state.
THEOREM Invariance == Spec => []IInv
<1>1. QED BY InitInv, StepInv, PTL DEF Spec

\* Every variable stays in its type, whatever calls, crashes and losses occur.
THEOREM TypeCorrect == Spec => []TypeOK
<1>1. IInv => TypeOK
  BY DEF IInv
<1>2. QED BY <1>1, Invariance, PTL

\* Once no subscription is left and no deactivation job is live, no inverter of
\* the user runs or is about to be started (deactivateInverterControl, the
\* deactivation jobs and the guards of phase 2 together).
THEOREM SafetyOff == Spec => []SafeOff
<1>1. IInv => SafeOff
  BY DEF IInv, Cover, SafeOff, Owed
<1>2. QED BY <1>1, Invariance, PTL

\* Once no subscription is left and no deactivation job is live, no turnon waits that the
\* reconciler could carry out when the user is entitled again (the supersession of PENDING rows by
\* the acknowledgement of a turnoff, service.ts).
THEOREM NothingStale == Spec => []NoStaleTurnon
<1>1. Init => StaleCover
  BY DEF Init, StaleCover
<1>2. IInv /\ StaleCover /\ [Next]_vars => StaleCover'
  <2> SUFFICES ASSUME IInv, StaleCover, [Next]_vars PROVE StaleCover'
    OBVIOUS
  <2>1. TypeOK'
    BY StepInv DEF IInv
  <2>2. QED BY <2>1, StaleProc, StaleOutside, WhoSteps
<1>3. IInv /\ StaleCover => NoStaleTurnon
  BY DEF StaleCover, NoStaleTurnon, Cancels, Type
<1>4. QED BY <1>1, <1>2, <1>3, Invariance, PTL DEF Spec

\* A settled command keeps its status for ever, whatever the retries, rollbacks,
\* the reconciler and failure handlers do (updateMany guards, phase 2).
THEOREM Finality == Spec => SettledIsFinal
<1>1. IInv /\ [Next]_vars => [\A i \in Inverters : \A n \in DOMAIN cmds[i] :
        ~Pending(i, n) => cmds'[i][n].status = cmds[i][n].status]_vars
  <2> SUFFICES ASSUME IInv, Next, NEW i \in Inverters, NEW n \in DOMAIN cmds[i], ~Pending(i, n)
               PROVE  cmds'[i][n].status = cmds[i][n].status
    OBVIOUS
  <2>1. CASE OutsideStep
    BY <2>1, OutsideFrame
  <2>2. ASSUME NEW p \in Procs, ProcStep(p) PROVE cmds'[i][n].status = cmds[i][n].status
    BY <2>2, CmdsSteps DEF CmdsStep, IInv
  <2>3. QED BY <2>1, <2>2, WhoSteps
<1>2. QED BY <1>1, Invariance, PTL DEF Spec, SettledIsFinal

\* A command is acknowledged only while its inverter is in the state it asked
\* for: nobody else reaches the inverter between the vendor's answer and the commit.
THEOREM Truth == Spec => AcknowledgedIsPhysical
<1>1. IInv /\ [Next]_vars => [\A i \in Inverters : \A n \in DOMAIN cmds[i] :
        Pending(i, n) /\ cmds'[i][n].status = "ACKNOWLEDGED" =>
          physical'[i] = (Type(cmds[i][n].key) = "turnon")]_vars
  <2> SUFFICES ASSUME IInv, Next, NEW i \in Inverters, NEW n \in DOMAIN cmds[i],
                      Pending(i, n), cmds'[i][n].status = "ACKNOWLEDGED"
               PROVE  physical'[i] = (Type(cmds[i][n].key) = "turnon")
    OBVIOUS
  <2>1. CASE OutsideStep
    BY <2>1, OutsideFrame DEF Pending
  <2>2. ASSUME NEW p \in Procs, ProcStep(p) PROVE physical'[i] = (Type(cmds[i][n].key) = "turnon")
    <3>1. call[p].pc = "applied" /\ n = call[p].n /\ call[p].inv = i
      BY <2>2, CmdsSteps DEF CmdsStep, IInv, Pending
    <3>2. call[p].key = cmds[i][n].key /\ physical[i] = (Type(call[p].key) = "turnon")
      BY <3>1 DEF IInv, CallInv
    <3>3. physical'[i] = physical[i]
      BY <2>2, <3>1, PhysicalSteps DEF PhysicalStep, IInv
    <3>4. QED BY <3>2, <3>3
  <2>3. QED BY <2>1, <2>2, WhoSteps
<1>2. QED BY <1>1, Invariance, PTL DEF Spec, AcknowledgedIsPhysical

-----------------------------------------------------------------------------
(* The abstract promise *)

Running == {i \in Inverters : ~Off(i)}
Owing == {i \in Inverters : Owed(i)}

LEMMA SameRunning == (\A i \in Inverters : Off(i)' <=> Off(i)) => Running' = Running
BY DEF Running

LEMMA SameOwing ==
  UNCHANGED <<cmds, work>> /\ (\A e \in Events : Live(e)' <=> Live(e)) => Owing' = Owing
BY DEF Owing, Owed, Acked, Obsolete

Stutters == Running' = Running /\ Owing' = Owing /\ (Subscribed' <=> Subscribed)
Grants == Running' = Running /\ Owing' = Owing /\ Subscribed'
Loses == Running' = Running /\ Owing' = Inverters /\ ~Subscribed'
Owes == Running' = Running /\ (Subscribed' <=> Subscribed) /\ Owing \subseteq Owing'
Discharges ==
  /\ Running' = Running /\ (Subscribed' <=> Subscribed) /\ Owing' \subseteq Owing
  /\ Subscribed \/ (Owing \ Owing') \cap Running = {}
Starts(i) ==
  Subscribed /\ Running' = Running \cup {i} /\ Owing' = Owing /\ (Subscribed' <=> Subscribed)
Stops(i) == Running' = Running \ {i} /\ Owing' = Owing /\ (Subscribed' <=> Subscribed)

LEMMA PromiseCases ==
  ASSUME \/ Stutters \/ Grants \/ Loses \/ Owes \/ Discharges
         \/ \E i \in Inverters : Starts(i) \/ Stops(i)
  PROVE  [Promise!Next]_(Promise!vars)
<1>1. CASE Stutters
  BY <1>1 DEF Promise!vars, Stutters, Running, Owing
<1>2. CASE Grants
  BY <1>2 DEF Promise!Next, Promise!Grant, Grants, Running, Owing
<1>3. CASE Loses
  BY <1>3 DEF Promise!Next, Promise!Lose, Loses, Running, Owing
<1>4. CASE Owes
  <2>1. Owing \subseteq Owing' /\ Owing' \subseteq Inverters
    BY <1>4 DEF Owes, Owing
  <2>2. Running' = Running
    BY <1>4 DEF Owes
  <2>3. Subscribed' = Subscribed
    BY <1>4 DEF Owes, Subscribed
  <2>4. Promise!Owe
    BY <2>1, <2>2, <2>3, Zenon DEF Promise!Owe, Running, Owing
  <2>5. QED BY <2>4 DEF Promise!Next
<1>5. CASE Discharges
  <2>1. Owing' \subseteq Owing /\ (Subscribed \/ (Owing \ Owing') \cap Running = {})
    BY <1>5 DEF Discharges
  <2>2. Running' = Running
    BY <1>5 DEF Discharges
  <2>3. Subscribed' = Subscribed
    BY <1>5 DEF Discharges, Subscribed
  <2>4. Promise!Discharge
    BY <2>1, <2>2, <2>3, Zenon DEF Promise!Discharge, Running, Owing
  <2>5. QED BY <2>4 DEF Promise!Next
<1>6. ASSUME NEW i \in Inverters, Starts(i) PROVE [Promise!Next]_(Promise!vars)
  <2>1. Promise!Start(i)
    <3>1. UNCHANGED <<Subscribed, Owing>>
      BY <1>6 DEF Starts
    <3>2. QED BY <1>6, <3>1 DEF Promise!Start, Starts, Running, Owing
  <2>2. QED BY <2>1 DEF Promise!Next
<1>7. ASSUME NEW i \in Inverters, Stops(i) PROVE [Promise!Next]_(Promise!vars)
  <2>1. Promise!Stop(i)
    <3>1. UNCHANGED <<Subscribed, Owing>>
      BY <1>7 DEF Stops
    <3>2. QED BY <1>7, <3>1 DEF Promise!Stop, Stops, Running, Owing
  <2>2. QED BY <2>1 DEF Promise!Next
<1>8. QED BY <1>1, <1>2, <1>3, <1>4, <1>5, <1>6, <1>7

\* Running changes only at the inverter of the call that takes the step.
LEMMA RunningElsewhere ==
  ASSUME TypeOK, NEW p \in Procs, ProcStep(p), NEW i \in Inverters, i # call[p].inv
  PROVE  Off(i)' <=> Off(i)
<1>1. PhysicalStep(p) /\ HoldStep(p)
  BY PhysicalSteps, HoldSteps
<1>2. physical'[i] = physical[i]
  BY <1>1 DEF PhysicalStep
<1>3. \A q \in Procs : q # p => call'[q] = call[q]
  BY ProcFrame
<1>4. Holding(p)' => call'[p].inv # i
  BY <1>1 DEF HoldStep
<1>5. TurningOn(i)' <=> TurningOn(i)
  BY <1>3, <1>4 DEF TurningOn, Holding
<1>6. QED BY <1>2, <1>5 DEF Off

\* A step that switches an inverter off leaves what is owed alone.
LEMMA StopStep ==
  ASSUME IInv, NEW p \in Procs, ProcStep(p), NEW i \in Inverters, ~Off(i), Off(i)'
  PROVE  Owing' = Owing
<1> USE DEF IInv
<1>1. PhysicalStep(p) /\ HoldStep(p) /\ \A q \in Procs : q # p => call'[q] = call[q]
  BY PhysicalSteps, HoldSteps, ProcFrame
<1>2. Holding(p) /\ call[p].inv = i
  <2>1. CASE physical'[i] # physical[i]
    BY <1>1, <2>1 DEF PhysicalStep, Holding
  <2>2. CASE physical'[i] = physical[i]
    BY <1>1, <2>2 DEF Off, TurningOn, Holding
  <2>3. QED BY <2>1, <2>2
<1>3. ~Acknowledge(p)
  <2> SUFFICES ASSUME Acknowledge(p) PROVE FALSE
    OBVIOUS
  <2>1. call[p].pc = "applied" /\ physical' = physical
    BY DEF Acknowledge
  <2>2. physical[i] = (Type(call[p].key) = "turnon")
    BY <1>2, <2>1 DEF CallInv
  <2>3. ~physical[i] /\ Type(call[p].key) # "turnon"
    BY <2>1, <2>2 DEF Off
  <2>4. PICK q \in Procs : Holding(q) /\ call[q].inv = i /\ Type(call[q].key) = "turnon"
    BY <2>3 DEF Off, TurningOn
  <2>5. Holding(q)' /\ call'[q].inv = i /\ Type(call'[q].key) = "turnon"
    BY <1>1, <2>3, <2>4 DEF Holding
  <2>6. QED BY <2>5 DEF Off, TurningOn
<1>4. p \in Workers => work[p].pc = "sweeping"
  BY <1>2 DEF WorkInv, Holding
<1>5. \/ Vendor(p) \/ OutcomeLost(p) \/ Phase2Error(p) \/ Crash(p)
      \/ p \in Users /\ \E r \in Requests : SiteRequest(p, r)
  <2>1. CASE IssueInverterCommand(p) \/ CommandFault(p)
    BY <1>2, <1>3, <2>1 DEF Holding, IssueInverterCommand, CommandFault, Precheck, Phase1,
       Phase2Begin, RecordUnknownOutcome, RecordExecutionFailure, Phase1Error, ConnectionUnusable
  <2>2. CASE Sweep(p)
    BY <1>2, <2>2 DEF Holding, Sweep
  <2>3. CASE p \in Users /\ (SiteCommand(p) \/ \E r \in Requests : SiteRequest(p, r))
    BY <1>2, <2>3 DEF Holding, SiteCommand
  <2>4. CASE ReconcileDone(p) \/ \E j \in Inverters : \E n \in DOMAIN cmds[j] : ReconcilePick(p, j, n)
    BY <1>2, <2>4 DEF Holding, ReconcileDone, ReconcilePick
  <2>5. CASE p \in Workers /\ (Worker(p) \/ \E e \in Events : JobSelect(p, e))
    BY <1>4, <2>5 DEF Worker, JobSelect, JobClaim, JobBegin, JobEnd
  <2>6. QED BY <2>1, <2>2, <2>3, <2>4, <2>5 DEF ProcStep
<1>6. UNCHANGED <<cmds, jobs>>
  BY <1>5 DEF Vendor, OutcomeLost, Phase2Error, Crash, SiteRequest, commerce
<1>7. \A e \in Events : Obsolete(e)' <=> Obsolete(e)
  <2>1. CASE Crash(p)
    BY <1>4, <2>1 DEF Crash, Obsolete, IdleWork
  <2>2. CASE ~Crash(p)
    BY <1>5, <2>2 DEF Vendor, OutcomeLost, Phase2Error, SiteRequest, Obsolete
  <2>3. QED BY <2>1, <2>2
<1>8. QED BY <1>6, <1>7 DEF Owing, Owed, Acked, Live

\* Only the end of a job, and the death of a worker, can take a worker out of
\* the jobs it held for obsolete.
LEMMA ObsoleteStep ==
  ASSUME IInv, NEW p \in Procs, ProcStep(p), ~(p \in Workers /\ JobEnd(p)), ~Crash(p),
         NEW e \in Events, Obsolete(e)
  PROVE  Obsolete(e)'
<1> USE DEF IInv
<1>1. PICK w \in Workers : work[w].pc = "obsolete" /\ work[w].job = e
  BY DEF Obsolete
<1>2. CASE w # p
  BY <1>1, <1>2, ProcFrame DEF Obsolete
<1>3. CASE w = p
  <2>1. ~sweep[p].on /\ call[p].pc = "idle"
    BY <1>1, <1>3 DEF WorkInv
  <2>2. p \notin Users /\ p \notin Reconcilers
    BY <1>3, DisjointAssumption
  <2>3. UNCHANGED work
    BY <1>1, <1>3, <2>1, <2>2 DEF ProcStep, IssueInverterCommand, CommandFault, Precheck, Phase1,
       Phase2Begin, Vendor, Acknowledge, RecordUnknownOutcome, RecordExecutionFailure,
       Phase1Error, ConnectionUnusable, Phase2Error, OutcomeLost, Holding, Sweep, Worker,
       JobSelect, JobClaim, JobBegin
  <2>4. QED BY <1>1, <2>3 DEF Obsolete
<1>4. QED BY <1>2, <1>3

\* A step of a process moves what is owed in one direction.
LEMMA OwingSteps ==
  ASSUME IInv, NEW p \in Procs, ProcStep(p)
  PROVE  Owing \subseteq Owing' \/ Owing' \subseteq Owing
<1> USE DEF IInv
<1>1. ASSUME UNCHANGED <<cmds, jobs>>, \A e \in Events : Obsolete(e)' => Obsolete(e)
      PROVE  Owing \subseteq Owing'
  BY <1>1 DEF Owing, Owed, Acked, Live
<1>2. ASSUME NEW w \in Workers, work' = [work EXCEPT ![w] = IdleWork], NEW e \in Events, Obsolete(e)'
      PROVE  Obsolete(e)
  BY <1>2 DEF Obsolete, IdleWork, TypeOK
<1>3. CASE Crash(p)
  <2>1. UNCHANGED <<cmds, jobs>> /\ \A e \in Events : Obsolete(e)' => Obsolete(e)
    BY <1>3 DEF Crash, commerce, Obsolete, IdleWork
  <2>2. QED BY <1>1, <2>1
<1>4. CASE p \in Workers /\ JobEnd(p) /\ ~Owns(p)
  <2>1. UNCHANGED <<cmds, jobs>> /\ \A e \in Events : Obsolete(e)' => Obsolete(e)
    BY <1>2, <1>4 DEF JobEnd
  <2>2. QED BY <1>1, <2>1
<1>5. CASE p \in Workers /\ JobEnd(p) /\ Owns(p) /\ work[p].pc = "failed"
  <2>1. UNCHANGED cmds /\ \A e \in Events : Obsolete(e)' => Obsolete(e)
    BY <1>2, <1>5 DEF JobEnd
  <2>2. \A e \in Events : Live(e) => Live(e)'
    BY <1>5 DEF JobEnd, Live, TypeOK, Jobs
  <2>3. QED BY <2>1, <2>2 DEF Owing, Owed, Acked
<1>6. CASE p \in Workers /\ JobEnd(p) /\ Owns(p) /\ work[p].pc # "failed"
  <2>1. SUFFICES ASSUME NEW i \in Inverters, NEW e \in Events, Live(e)', ~Acked(e, i)', ~Obsolete(e)'
                 PROVE  Live(e) /\ ~Acked(e, i) /\ ~Obsolete(e)
    BY DEF Owing, Owed
  <2>2. work[p].job \in Events
    BY <1>6 DEF JobEnd, TypeOK, IdleWork
  <2>3. jobs'[work[p].job].status = "SUCCEEDED"
    BY <1>6, <2>2 DEF JobEnd, TypeOK, Jobs
  <2>4. e # work[p].job
    BY <2>1, <2>3 DEF Live
  <2>5. Live(e)
    BY <1>6, <2>1, <2>4 DEF JobEnd, Live, TypeOK
  <2>6. ~Acked(e, i)
    BY <1>6, <2>1 DEF JobEnd, Acked
  <2>7. ~Obsolete(e)
    BY <1>6, <2>1, <2>4 DEF JobEnd, Obsolete, TypeOK
  <2>8. QED BY <2>5, <2>6, <2>7
<1>7. CASE ~Crash(p) /\ ~(p \in Workers /\ JobEnd(p))
  <2>1. SUFFICES ASSUME NEW i \in Inverters, NEW e \in Events, Live(e)', ~Acked(e, i)', ~Obsolete(e)'
                 PROVE  Live(e) /\ ~Acked(e, i) /\ ~Obsolete(e)
    BY DEF Owing, Owed
  <2>2. Live(e)
    <3>1. CASE p \in Workers /\ JobClaim(p)
      <4>1. work[p].job \in Events
        BY <3>1 DEF JobClaim, TypeOK, IdleWork
      <4>2. QED BY <2>1, <3>1, <4>1 DEF JobClaim, Live, TypeOK
    <3>2. CASE ~(p \in Workers /\ JobClaim(p))
      <4>1. UNCHANGED jobs
        BY <1>7, <3>2 DEF ProcStep, IssueInverterCommand, CommandFault, Precheck, Phase1,
           Phase2Begin, Vendor, Acknowledge, RecordUnknownOutcome, RecordExecutionFailure,
           Phase1Error, ConnectionUnusable, Phase2Error, OutcomeLost, Sweep, SiteCommand,
           SiteRequest, ReconcileDone, ReconcilePick, Worker, JobSelect, JobBegin, commerce
      <4>2. QED BY <2>1, <4>1 DEF Live
    <3>3. QED BY <3>1, <3>2
  <2>3. ~Acked(e, i)
    <3>1. ~AckedNext(e, i)
      BY <2>1 DEF Acked, AckedNext
    <3>2. QED BY <3>1, CmdsSteps, AckedGrows
  <2>4. ~Obsolete(e)
    BY <1>7, <2>1, ObsoleteStep
  <2>5. QED BY <2>2, <2>3, <2>4
<1>8. QED BY <1>3, <1>4, <1>5, <1>6, <1>7

LEMMA ProcPromise ==
  ASSUME IInv, NEW p \in Procs, ProcStep(p)
  PROVE  [Promise!Next]_(Promise!vars)
<1> USE DEF IInv
<1>1. Subscribed' <=> Subscribed
  BY ProcFrame DEF Subscribed
<1>2. CASE Running' = Running
  <2>1. ASSUME Owing' \subseteq Owing PROVE Discharges
    <3>1. ASSUME NEW i \in Inverters, Owed(i), ~Owed(i)', ~Off(i), ~Subscribed PROVE FALSE
      <4>1. Off(i)' \/ Entitled
        BY <3>1, OwedStep
      <4>2. ~Entitled
        BY <3>1 DEF Entitled, Subscribed
      <4>3. ~Off(i)'
        BY <1>2, <3>1 DEF Running
      <4>4. QED BY <4>1, <4>2, <4>3
    <3>2. Subscribed \/ (Owing \ Owing') \cap Running = {}
      BY <3>1 DEF Owing, Running
    <3>3. QED BY <1>1, <1>2, <2>1, <3>2 DEF Discharges
  <2>2. QED BY <1>1, <1>2, <2>1, OwingSteps, PromiseCases DEF Owes
<1>3. CASE Running' # Running
  <2>1. PICK i \in Inverters : ~(Off(i)' <=> Off(i))
    BY <1>3, SameRunning
  <2>2. i = call[p].inv /\ \A j \in Inverters : j # i => (Off(j)' <=> Off(j))
    BY <2>1, RunningElsewhere
  <2>3. CASE Off(i)
    <3>1. Entitled /\ UNCHANGED <<subs, userActive, jobs, cmds, work>>
      BY <2>1, <2>3, OffStep
    <3>2. Owing' = Owing
      BY <3>1, SameOwing DEF Live
    <3>3. Running' = Running \cup {i}
      BY <2>1, <2>2, <2>3 DEF Running
    <3>4. Starts(i)
      BY <1>1, <3>1, <3>2, <3>3 DEF Starts, Entitled, Subscribed
    <3>5. QED BY <3>4, PromiseCases
  <2>4. CASE ~Off(i)
    <3>1. Owing' = Owing
      BY <2>1, <2>4, StopStep
    <3>2. Running' = Running \ {i}
      BY <2>1, <2>2, <2>4 DEF Running
    <3>3. Stops(i)
      BY <1>1, <3>1, <3>2 DEF Stops
    <3>4. QED BY <3>3, PromiseCases
  <2>5. QED BY <2>3, <2>4
<1>4. QED BY <1>2, <1>3

LEMMA OutsidePromise ==
  ASSUME IInv, Next, OutsideStep
  PROVE  [Promise!Next]_(Promise!vars)
<1> USE DEF IInv
<1>1. Running' = Running /\ UNCHANGED <<cmds, work>>
  BY OutsideFrame, SameRunning DEF Off, TurningOn, Holding
<1>2. ASSUME \A e \in Events : Live(e)' <=> Live(e), Subscribed => Subscribed'
      PROVE  [Promise!Next]_(Promise!vars)
  BY <1>1, <1>2, SameOwing, PromiseCases DEF Stutters, Grants
<1>3. ASSUME NEW e \in Events, jobs[e].status = "NONE", Enqueue(e), Subscribed' => Subscribed
      PROVE  [Promise!Next]_(Promise!vars)
  <2>1. Owing' = Inverters
    BY <1>1, <1>3, LossOwes DEF Owing
  <2>2. Owing \subseteq Inverters
    BY DEF Owing
  <2>3. Loses \/ Owes
    BY <1>1, <1>3, <2>1, <2>2 DEF Loses, Owes
  <2>4. QED BY <2>3, PromiseCases
<1>4. CASE \E e \in Events : JobRecover(e)
  <2>1. \A e \in Events : Live(e)' <=> Live(e)
    BY <1>4 DEF Live, JobRecover, TypeOK, Jobs
  <2>2. Subscribed' <=> Subscribed
    BY <1>4 DEF JobRecover, Subscribed
  <2>3. QED BY <1>2, <2>1, <2>2
<1>5. CASE FlagsOverwritten
  <2>1. UNCHANGED <<subs, userActive, jobs>>
    BY <1>5 DEF FlagsOverwritten, commerce
  <2>2. QED BY <1>2, <2>1 DEF Subscribed, Live
<1>6. ASSUME NEW s \in Subs, Subscribe(s) \/ Lapse(s) PROVE [Promise!Next]_(Promise!vars)
  <2>1. Subscribed => Subscribed'
    BY <1>6 DEF Subscribed, Subscribe, Lapse, TypeOK
  <2>2. UNCHANGED jobs
    BY <1>6 DEF Subscribe, Lapse
  <2>3. QED BY <1>2, <2>1, <2>2 DEF Live
<1>7. CASE Enable
  <2>1. (Subscribed => Subscribed') /\ UNCHANGED jobs
    BY <1>7 DEF Subscribed, Enable
  <2>2. QED BY <1>2, <2>1 DEF Live
<1>8. ASSUME NEW s \in Subs, Expire(s) \/ Cancel(s) PROVE [Promise!Next]_(Promise!vars)
  <2>1. jobs[s].status = "NONE" /\ s \in Events
    BY <1>8 DEF SubsInv, Events, Expire, Cancel
  <2>2. Subscribed' => Subscribed
    BY <1>8 DEF Subscribed, Expire, Cancel, TypeOK
  <2>3. QED BY <1>3, <1>8, <2>1, <2>2 DEF Expire, Cancel
<1>9. ASSUME NEW s \in Subs, NEW e \in Refunds, Refund(s, e) PROVE [Promise!Next]_(Promise!vars)
  <2>1. jobs[e].status = "NONE" /\ e \in Events
    BY <1>9 DEF Refund, NoJob, Events
  <2>2. Subscribed' => Subscribed
    BY <1>9 DEF Subscribed, Refund, TypeOK
  <2>3. QED BY <1>3, <1>9, <2>1, <2>2 DEF Refund
<1>10. ASSUME NEW e \in Disablings, Disable(e) PROVE [Promise!Next]_(Promise!vars)
  <2>1. jobs[e].status = "NONE" /\ e \in Events
    BY <1>10 DEF Disable, NoJob, Events
  <2>2. Subscribed' => Subscribed
    BY <1>10 DEF Subscribed, Disable
  <2>3. QED BY <1>3, <1>10, <2>1, <2>2 DEF Disable
<1>11. QED BY <1>4, <1>5, <1>6, <1>7, <1>8, <1>9, <1>10 DEF OutsideStep, Commerce

LEMMA PromiseInit == Init => Promise!Init
<1> SUFFICES ASSUME Init PROVE Promise!Init
  OBVIOUS
<1>1. \A i \in Inverters : Off(i) /\ ~Owed(i)
  BY DEF Init, Off, TurningOn, Holding, IdleCall, Owed, Live, NoJob
<1>2. Subscribed \in BOOLEAN
  BY DEF Subscribed, Init
<1>3. {i \in Inverters : ~Off(i)} = {} /\ {i \in Inverters : Owed(i)} = {}
  BY <1>1
<1>4. QED BY <1>2, <1>3, Zenon DEF Promise!Init

LEMMA PromiseStep == IInv /\ [Next]_vars => [Promise!Next]_(Promise!vars)
<1> SUFFICES ASSUME IInv, [Next]_vars PROVE [Promise!Next]_(Promise!vars)
  OBVIOUS
<1>1. CASE UNCHANGED vars
  <2>1. Running' = Running
    BY <1>1, SameRunning DEF vars, Off, TurningOn, Holding
  <2>2. Owing' = Owing
    BY <1>1, SameOwing DEF vars, Live
  <2>3. Subscribed' <=> Subscribed
    BY <1>1 DEF vars, Subscribed
  <2>4. QED BY <2>1, <2>2, <2>3, PromiseCases DEF Stutters
<1>2. CASE Next
  BY <1>2, WhoSteps, OutsidePromise, ProcPromise
<1>3. QED BY <1>1, <1>2

\* The commands, locks, jobs and retries implement the abstract promise: an
\* inverter starts only while its owner is subscribed, and a switch-off that is
\* owed is discharged only by an inverter that is off or by a new entitlement.
THEOREM Refinement == Spec => PromiseSpec
<1>1. Spec => Promise!Spec
  BY PromiseInit, PromiseStep, Invariance, PTL DEF Spec, Promise!Spec
<1>2. QED BY <1>1 DEF PromiseSpec
===============================================================================
