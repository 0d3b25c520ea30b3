-------------------------- MODULE ConsultationData --------------------------
(***************************************************************************)
(* The state of consultation booking: the slots a host offers, the         *)
(* bookings guests make, the jobs that mirror them into Google Calendar,   *)
(* the host's connection to Google, and the reminders, which are rows of   *)
(* the email outbox (the other mails are queued once and never withdrawn,  *)
(* and are left out).                                                      *)
(***************************************************************************)
EXTENDS EmailOutbox

CONSTANTS
  Slots, Bookings, \* one host; slots do not overlap (exclusion constraint)
  MaxRevision,     \* bound: revisions of a booking's calendar event
  MaxAttempts,     \* attempts after which a calendar job is given up (16 in the code)
  CalendarWorkers, \* processes inside processConsultationCalendarJobs
  CalendarFaults,  \* bound: workers that die or stall, answers that are lost
  Disconnects,     \* requests to disconnect Google Calendar
  MaxGrants        \* bound: authorizations the host gives, and operations that end one

ASSUME ConsultationAssumption ==
  /\ IsFiniteSet(Slots) /\ IsFiniteSet(Bookings)
  /\ MaxRevision \in Nat \ {0} /\ MaxAttempts \in Nat \ {0}
  /\ CalendarFaults \in Nat /\ MaxGrants \in Nat
  /\ Messages = Bookings \X Slots

VARIABLES
  slots,    \* ConsultationSlot rows
  phase,    \* how far away a slot is: more than two hours, less, or over
  bookings, \* ConsultationBooking rows
  calJobs,  \* ScheduledJob rows of the calendar, by kind, booking and revision
  workers,  \* what each processConsultationCalendarJobs holds
  events,   \* the events in Google Calendar, by booking and revision
  host,     \* ConsultationHostCalendar of the host
  valid,    \* the grants that Google still honours
  oauth,    \* the disconnect epochs signed into issued OAuth states
  ending,   \* what each disconnect request holds
  removing, \* what the administrator's removal of a slot has read
  faults    \* calendar faults so far

calendarVars == <<calJobs, workers, events, faults>>
connectionVars == <<host, valid, oauth, ending>>
vars == <<slots, phase, bookings, removing, calendarVars, connectionVars, mailVars>>

Revisions == 1..MaxRevision
EventKeys == Bookings \X Revisions
JobKeys == {"create", "delete"} \X EventKeys

NoEvent == <<>>
Nothing == "nothing"

SlotStatus == {"ABSENT", "OPEN", "HELD", "BOOKED", "BLOCKED", "CANCELED"}
NoSlot == [status |-> "ABSENT", hold |-> "none", event |-> NoEvent]
OpenSlot == [NoSlot EXCEPT !.status = "OPEN"]

BookingStatus == {"NONE", "PENDING", "CONFIRMED", "CANCELED", "EXPIRED", "COMPLETED", "NO_SHOW"}
NoBooking == [status |-> "NONE", slot |-> Nothing, revision |-> 0]

JobStatus == {"ABSENT", "PENDING", "RUNNING", "SUCCEEDED", "FAILED"}
NoJob == [status |-> "ABSENT", attempts |-> 0, slot |-> Nothing, targeted |-> FALSE]

NoHost == [grant |-> 0, op |-> 0, epoch |-> 0, targeted |-> FALSE, issued |-> 0]
Idle == [pc |-> "idle"]

SlotOf(b) == slots[bookings[b].slot]
RevisionKey(b) == <<b, bookings[b].revision>>
Future(s) == phase[s] # "over"

\* getGoogleAccessToken: there is a grant, it is not being disconnected, and Google honours it.
TokenUsable == host.grant \in valid /\ host.op = 0

Init ==
  /\ slots = [s \in Slots |-> NoSlot]
  /\ phase = [s \in Slots |-> "far"]
  /\ bookings = [b \in Bookings |-> NoBooking]
  /\ calJobs = [k \in JobKeys |-> NoJob]
  /\ workers = [w \in CalendarWorkers |-> Idle]
  /\ events = [e \in EventKeys |-> "none"]
  /\ host = NoHost
  /\ valid = {}
  /\ oauth = {}
  /\ ending = [d \in Disconnects |-> Idle]
  /\ removing = Idle
  /\ faults = 0
  /\ MailInit

(***************************************************************************)
(* Rows of jobs, as the routes write them.  Both upserts leave an existing *)
(* row alone.                                                              *)
(***************************************************************************)
WithJob(jobs, k, slot, targeted) ==
  IF jobs[k].status = "ABSENT"
  THEN [jobs EXCEPT ![k] = [NoJob EXCEPT !.status = "PENDING", !.slot = slot, !.targeted = targeted]]
  ELSE jobs

\* The destination of the event is part of the job: later settings do not change it.
EnqueueCreate(jobs, b, r, s) == WithJob(jobs, <<"create", <<b, r>>>>, s, host.targeted)

\* Mutant: only an event the slot shows is deleted.
ShowsEvent(b) == SlotOf(b).event # NoEvent

\* resolveCalendarDeleteCalendarId: the calendar of the slot's event, or the one the creation
\* was given; there is nothing to delete when the revision never had a calendar.
HadCalendar(b) ==
  SlotOf(b).event # NoEvent \/ calJobs[<<"create", RevisionKey(b)>>].targeted

EnqueueDelete(b) ==
  IF HadCalendar(b)
  THEN WithJob(calJobs, <<"delete", RevisionKey(b)>>, Nothing, TRUE)
  ELSE calJobs

=============================================================================
