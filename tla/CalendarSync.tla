---------------------------- MODULE CalendarSync ----------------------------
(***************************************************************************)
(* The jobs that create and delete Google Calendar events                  *)
(* (src/src/lib/consultation/calendar-sync.ts, google-calendar.ts) and the *)
(* host's connection to Google (calendar-state.ts, oauth-state.ts and the  *)
(* routes under src/src/app/api/admin/google-calendar).                    *)
(*                                                                         *)
(* A job runs in a transaction that holds the row of its booking, so its   *)
(* body is one step; the claim before it and the mark after it are steps   *)
(* of their own, and the mark only looks whether the job is RUNNING.       *)
(***************************************************************************)
EXTENDS ConsultationData

(***************************************************************************)
(* processConsultationCalendarJobs                                         *)
(***************************************************************************)
Working(k) == \E w \in CalendarWorkers : workers[w].pc \in {"run", "done", "failed"} /\ workers[w].key = k

Requeued(job) == [job EXCEPT !.status = IF job.attempts < MaxAttempts THEN "PENDING" ELSE "FAILED"]

\* Claims older than ten minutes are taken back: their workers have died or (a fault) stall.
RecoverCalendarJob(k) ==
  /\ calJobs[k].status = "RUNNING"
  /\ IF Working(k)
     THEN faults < CalendarFaults /\ faults' = faults + 1
     ELSE UNCHANGED faults
  /\ calJobs' = [calJobs EXCEPT ![k] = Requeued(@)]
  /\ UNCHANGED <<slots, phase, bookings, removing, workers, events, connectionVars, mailVars>>

SelectCalendarJob(w, k) ==
  /\ workers[w].pc = "idle"
  /\ calJobs[k].status = "PENDING"
  /\ workers' = [workers EXCEPT ![w] = [pc |-> "claim", key |-> k, attempts |-> calJobs[k].attempts]]
  /\ UNCHANGED <<slots, phase, bookings, removing, calJobs, events, faults, connectionVars, mailVars>>

ClaimCalendarJob(w) ==
  /\ workers[w].pc = "claim"
  /\ LET k == workers[w].key IN
       IF calJobs[k].status = "PENDING"
       THEN /\ calJobs' = [calJobs EXCEPT ![k].status = "RUNNING", ![k].attempts = @ + 1]
            /\ workers' = [workers EXCEPT ![w].pc = "run"]
       ELSE /\ workers' = [workers EXCEPT ![w] = Idle]
            /\ UNCHANGED calJobs
  /\ UNCHANGED <<slots, phase, bookings, removing, events, faults, connectionVars, mailVars>>

(***************************************************************************)
(* executeCreateJob and executeDeleteJob                                   *)
(***************************************************************************)
\* Mutant: a creation only looks whether the booking stands.
ObsoleteByStatus(b, r) == bookings[b].status # "CONFIRMED"

\* The booking is no longer what the job was made for.
Obsolete(b, r) ==
  \/ bookings[b].status # "CONFIRMED"
  \/ bookings[b].slot # calJobs[<<"create", <<b, r>>>>].slot
  \/ bookings[b].revision # r

NothingToCreate(b, r) == Obsolete(b, r) \/ ~calJobs[<<"create", <<b, r>>>>].targeted

Reports(w, outcome) == workers' = [workers EXCEPT ![w].pc = outcome]

\* Google refuses an identifier it has seen unless the event still is the same one.
GoogleAccepts(e) == events[e] # "deleted"

CreateEvent(w, b, r) ==
  LET s == bookings[b].slot IN
  /\ TokenUsable /\ GoogleAccepts(<<b, r>>)
  /\ events' = [events EXCEPT ![<<b, r>>] = "live"]
  /\ \/ /\ slots[s].status = "BOOKED"
        /\ slots' = [slots EXCEPT ![s].event = <<b, r>>]
        /\ Reports(w, "done")
        /\ UNCHANGED faults
     \/ \* the slot has changed: the transaction is rolled back, the event stays
        /\ slots[s].status # "BOOKED"
        /\ Reports(w, "failed")
        /\ UNCHANGED <<slots, faults>>
     \/ \* the answer is lost
        /\ faults < CalendarFaults
        /\ faults' = faults + 1
        /\ Reports(w, "failed")
        /\ UNCHANGED slots

ExecuteCreate(w) ==
  /\ workers[w].pc = "run" /\ workers[w].key[1] = "create"
  /\ LET b == workers[w].key[2][1]
         r == workers[w].key[2][2]
     IN \/ /\ NothingToCreate(b, r)
           /\ Reports(w, "done")
           /\ UNCHANGED <<slots, events, faults>>
        \/ ~NothingToCreate(b, r) /\ CreateEvent(w, b, r)
        \/ \* no token, an event that was deleted, or any other refusal
           /\ ~NothingToCreate(b, r)
           /\ Reports(w, "failed")
           /\ UNCHANGED <<slots, events, faults>>
  /\ UNCHANGED <<phase, bookings, removing, calJobs, connectionVars, mailVars>>

\* An event that does not exist counts as deleted.
DeleteEvent(e) == events' = [events EXCEPT ![e] = IF @ = "live" THEN "deleted" ELSE @]

ExecuteDelete(w) ==
  /\ workers[w].pc = "run" /\ workers[w].key[1] = "delete"
  /\ \/ /\ TokenUsable
        /\ DeleteEvent(workers[w].key[2])
        /\ \/ Reports(w, "done") /\ UNCHANGED faults
           \/ Reports(w, "failed") /\ faults < CalendarFaults /\ faults' = faults + 1
     \/ /\ Reports(w, "failed")
        /\ UNCHANGED <<events, faults>>
  /\ UNCHANGED <<slots, phase, bookings, removing, calJobs, connectionVars, mailVars>>

MarkIfRunning(k, status) ==
  calJobs' = [calJobs EXCEPT ![k].status = IF @ = "RUNNING" THEN status ELSE @]

CompleteCalendarJob(w) ==
  /\ workers[w].pc = "done"
  /\ MarkIfRunning(workers[w].key, "SUCCEEDED")
  /\ workers' = [workers EXCEPT ![w] = Idle]
  /\ UNCHANGED <<slots, phase, bookings, removing, events, faults, connectionVars, mailVars>>

\* The attempt is counted from the row the worker has read before its claim.
FailCalendarJob(w) ==
  /\ workers[w].pc = "failed"
  /\ MarkIfRunning(workers[w].key, IF workers[w].attempts + 1 >= MaxAttempts THEN "FAILED" ELSE "PENDING")
  /\ workers' = [workers EXCEPT ![w] = Idle]
  /\ UNCHANGED <<slots, phase, bookings, removing, events, faults, connectionVars, mailVars>>

CalendarCrash(w) ==
  /\ workers[w].pc # "idle"
  /\ faults < CalendarFaults
  /\ faults' = faults + 1
  /\ workers' = [workers EXCEPT ![w] = Idle]
  /\ UNCHANGED <<slots, phase, bookings, removing, calJobs, events, connectionVars, mailVars>>

CalendarRun(w) ==
  \/ \E k \in JobKeys : SelectCalendarJob(w, k)
  \/ ClaimCalendarJob(w)
  \/ ExecuteCreate(w)
  \/ ExecuteDelete(w)
  \/ CompleteCalendarJob(w)
  \/ FailCalendarJob(w)

(***************************************************************************)
(* The connection: OAuth and disconnecting.  Every transaction takes the   *)
(* host's advisory lock.                                                   *)
(***************************************************************************)
UnchangedButConnection == UNCHANGED <<slots, phase, bookings, removing, calendarVars, mailVars>>

ChangeSettings ==
  /\ host.op = 0
  /\ host' = [host EXCEPT !.targeted = ~@]
  /\ UNCHANGED <<valid, oauth, ending>>
  /\ UnchangedButConnection

\* The state sent to Google carries the epoch; a disconnect makes it worthless.
ConnectStart ==
  /\ host.op = 0
  /\ oauth' = oauth \cup {host.epoch}
  /\ UNCHANGED <<host, valid, ending>>
  /\ UnchangedButConnection

CurrentOAuthState(e) == host.op = 0 /\ host.epoch = e

\* The code is exchanged under the lock; the new grant replaces the stored one.
ConnectCallback(e) ==
  /\ e \in oauth
  /\ CurrentOAuthState(e)
  /\ host.issued < MaxGrants
  /\ oauth' = oauth \ {e}
  /\ host' = [host EXCEPT !.grant = host.issued + 1, !.issued = @ + 1]
  /\ valid' = valid \cup {host.issued + 1}
  /\ UNCHANGED ending
  /\ UnchangedButConnection

\* A future slot somebody holds or has booked.
ActiveSlot(s) ==
  /\ Future(s)
  /\ \/ /\ slots[s].status = "BOOKED"
        /\ \/ slots[s].event # NoEvent
           \/ \E b \in Bookings : bookings[b].slot = s /\ bookings[b].status = "CONFIRMED"
     \/ /\ slots[s].status = "HELD"
        /\ \E b \in Bookings : bookings[b].slot = s /\ bookings[b].status = "PENDING"

\* Mutant: a job that was given up is done with.
StillQueued(k) == calJobs[k].status \in {"PENDING", "RUNNING"}

Unfinished(k) == calJobs[k].status \in {"PENDING", "RUNNING", "FAILED"}
PendingDeletes == {k \in JobKeys : k[1] = "delete" /\ Unfinished(k)}

\* A request that finds another one under way joins its operation.
DisconnectStage(d) ==
  /\ ending[d].pc = "idle"
  /\ ~\E s \in Slots : ActiveSlot(s)
  /\ PendingDeletes = {}
  /\ LET epoch == IF host.op # 0 THEN host.epoch ELSE host.epoch + 1 IN
       /\ epoch <= MaxGrants
       /\ host' = [host EXCEPT !.op = epoch, !.epoch = epoch]
       /\ ending' = [ending EXCEPT ![d] = [pc |-> "revoke", op |-> epoch, grant |-> host.grant]]
  /\ UNCHANGED <<valid, oauth>>
  /\ UnchangedButConnection

\* Without a stored grant there is nothing to revoke; a refused revocation of a dead grant counts.
Revoke(d) ==
  /\ ending[d].pc = "revoke"
  /\ \/ /\ valid' = valid \ {ending[d].grant}
        /\ ending' = [ending EXCEPT ![d].pc = "finalize"]
     \/ /\ ending[d].grant # 0
        /\ ending' = [ending EXCEPT ![d].pc = "release"]
        /\ UNCHANGED valid
  /\ UNCHANGED <<host, oauth>>
  /\ UnchangedButConnection

OwnsOperation(d) == host.op = ending[d].op

ReleaseStage(d) ==
  /\ ending[d].pc = "release"
  /\ host' = IF OwnsOperation(d) THEN [host EXCEPT !.op = 0] ELSE host
  /\ ending' = [ending EXCEPT ![d] = Idle]
  /\ UNCHANGED <<valid, oauth>>
  /\ UnchangedButConnection

Finalize(d) ==
  /\ ending[d].pc = "finalize"
  /\ host' = IF OwnsOperation(d) THEN [host EXCEPT !.op = 0, !.grant = 0] ELSE host
  /\ ending' = [ending EXCEPT ![d] = Idle]
  /\ UNCHANGED <<valid, oauth>>
  /\ UnchangedButConnection

\* The process dies after it staged: another request joins the operation.
DisconnectCrash(d) ==
  /\ ending[d].pc # "idle"
  /\ faults < CalendarFaults
  /\ faults' = faults + 1
  /\ ending' = [ending EXCEPT ![d] = Idle]
  /\ UNCHANGED <<slots, phase, bookings, removing, calJobs, workers, events, host, valid, oauth, mailVars>>

Connection ==
  \/ ChangeSettings
  \/ ConnectStart
  \/ \E e \in 0..MaxGrants : ConnectCallback(e)
  \/ \E d \in Disconnects :
       DisconnectStage(d) \/ Revoke(d) \/ ReleaseStage(d) \/ Finalize(d) \/ DisconnectCrash(d)

=============================================================================
