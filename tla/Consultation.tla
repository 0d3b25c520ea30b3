---------------------------- MODULE Consultation ----------------------------
(***************************************************************************)
(* Consultation booking: the routes of guests                              *)
(* (src/src/app/api/consultations) and of the host                         *)
(* (src/src/app/api/admin/consultations), together with the calendar jobs, *)
(* the connection to Google and the mailer that sends the reminders.       *)
(*                                                                         *)
(* A route decides in a transaction that checks again what was read before *)
(* it, so a route is one step; the exception is the removal of a slot.     *)
(***************************************************************************)
EXTENDS CalendarSync

UnchangedCalendar == UNCHANGED <<workers, events, faults, connectionVars>>
UnchangedMail == UNCHANGED mailVars

Remind(b, s) == outbox' = WithQueued(outbox, {<<b, s>>})
RemindersOf(b) == {b} \X Slots
UnchangedMailers == UNCHANGED <<mailer, deliveries, blank, mailFaults>>

\* hostCalendarHasConflict: what Google says of the slot.  With a target calendar and no
\* usable token there is no answer, and the request is refused.
Answers == (IF TokenUsable THEN {"busy"} ELSE {}) \cup (IF host.targeted /\ ~TokenUsable THEN {} ELSE {"free"})

(***************************************************************************)
(* Guests                                                                  *)
(***************************************************************************)
LapsedHold(s) == slots[s].status = "HELD" /\ slots[s].hold = "lapsed"

\* Mutant: the holds are released without expiring the bookings behind them.
BookingsKept == bookings

\* releaseExpiredConsultationHolds
BookingsReleased ==
  [b \in Bookings |->
     IF bookings[b].status = "PENDING" /\ LapsedHold(bookings[b].slot)
     THEN [bookings[b] EXCEPT !.status = "EXPIRED"] ELSE bookings[b]]
SlotsReleased ==
  [s \in Slots |->
     IF LapsedHold(s) THEN [slots[s] EXCEPT !.status = "OPEN", !.hold = "none"] ELSE slots[s]]

ReleaseExpiredHolds ==
  /\ \E s \in Slots : LapsedHold(s)
  /\ bookings' = BookingsReleased
  /\ slots' = SlotsReleased
  /\ UNCHANGED <<phase, removing, calJobs>>
  /\ UnchangedCalendar /\ UnchangedMail

Book(b, s) ==
  /\ bookings[b].status = "NONE"
  /\ SlotsReleased[s].status = "OPEN" /\ Future(s)
  /\ \/ /\ "busy" \in Answers
        /\ slots' = [SlotsReleased EXCEPT ![s].status = "BLOCKED"]
        /\ bookings' = BookingsReleased
     \/ /\ "free" \in Answers
        /\ host.op = 0
        /\ slots' = [SlotsReleased EXCEPT ![s].status = "HELD", ![s].hold = "live"]
        /\ bookings' = [BookingsReleased EXCEPT ![b].status = "PENDING", ![b].slot = s]
  /\ UNCHANGED <<phase, removing, calJobs>>
  /\ UnchangedCalendar /\ UnchangedMail

Verifiable(b) ==
  bookings[b].status = "PENDING" /\ SlotOf(b).status = "HELD" /\ SlotOf(b).hold = "live"

Verify(b) ==
  LET s == bookings[b].slot IN
  /\ Verifiable(b)
  /\ \/ /\ "busy" \in Answers
        /\ slots' = [slots EXCEPT ![s].status = "BLOCKED", ![s].hold = "none"]
        /\ bookings' = [bookings EXCEPT ![b].status = "EXPIRED"]
        /\ UNCHANGED calJobs
        /\ UnchangedMail
     \/ /\ "free" \in Answers
        /\ host.op = 0
        /\ slots' = [slots EXCEPT ![s].status = "BOOKED", ![s].hold = "none"]
        /\ bookings' = [bookings EXCEPT ![b].status = "CONFIRMED", ![b].revision = @ + 1]
        /\ calJobs' = EnqueueCreate(calJobs, b, bookings[b].revision + 1, s)
        /\ Remind(b, s)
        /\ UnchangedMailers
  /\ UNCHANGED <<phase, removing>>
  /\ UnchangedCalendar

\* The guest may change what is confirmed, more than two hours ahead, while the slot is booked.
Changeable(b) ==
  bookings[b].status = "CONFIRMED" /\ phase[bookings[b].slot] = "far" /\ SlotOf(b).status = "BOOKED"

Cancel(b) ==
  /\ Changeable(b)
  /\ bookings[b].revision < MaxRevision
  /\ bookings' = [bookings EXCEPT ![b].status = "CANCELED", ![b].revision = @ + 1]
  /\ slots' = [slots EXCEPT ![bookings[b].slot] = OpenSlot]
  /\ calJobs' = EnqueueDelete(b)
  /\ outbox' = WithCanceled(outbox, RemindersOf(b))
  /\ UnchangedMailers
  /\ UNCHANGED <<phase, removing>>
  /\ UnchangedCalendar

\* The reminder is queued again after the pending ones were canceled.
Moved(b, s) == WithQueued(WithCanceled(outbox, RemindersOf(b)), {<<b, s>>})

Reschedule(b, s) ==
  /\ bookings[b].status = "CONFIRMED" /\ phase[bookings[b].slot] = "far"
  /\ bookings[b].slot # s
  /\ slots[s].status = "OPEN" /\ phase[s] = "far"
  /\ \/ /\ "busy" \in Answers
        /\ slots' = [slots EXCEPT ![s].status = "BLOCKED"]
        /\ UNCHANGED <<bookings, calJobs>>
        /\ UnchangedMail
     \/ /\ "free" \in Answers
        /\ host.op = 0
        /\ Changeable(b)
        /\ bookings[b].revision < MaxRevision
        /\ slots' = [slots EXCEPT ![bookings[b].slot] = OpenSlot, ![s].status = "BOOKED"]
        /\ bookings' = [bookings EXCEPT ![b].slot = s, ![b].revision = @ + 1]
        /\ calJobs' = EnqueueCreate(EnqueueDelete(b), b, bookings[b].revision + 1, s)
        /\ outbox' = Moved(b, s)
        /\ UnchangedMailers
  /\ UNCHANGED <<phase, removing>>
  /\ UnchangedCalendar

(***************************************************************************)
(* The host                                                                *)
(***************************************************************************)
ChangeSlots(new) ==
  /\ slots' = new
  /\ UNCHANGED <<phase, bookings, removing, calJobs>>
  /\ UnchangedCalendar /\ UnchangedMail

\* One slot by hand, or the slots of a week: always in the future, where none exists.
CreateSlots(S) ==
  /\ \A s \in S : slots[s].status = "ABSENT" /\ Future(s)
  /\ ChangeSlots([s \in Slots |-> IF s \in S THEN OpenSlot ELSE slots[s]])

\* Mutant: the administrator may set the status of any slot but a booked one.
SetAnyStatus(s, status) ==
  /\ slots[s].status \in {"OPEN", "BLOCKED", "HELD"} \ {status}
  /\ ChangeSlots([slots EXCEPT ![s].status = status])

SetSlotStatus(s, status) ==
  /\ slots[s].status \in {"OPEN", "BLOCKED"} \ {status}
  /\ ChangeSlots([slots EXCEPT ![s].status = status])

EverBooked(s) == \E b \in Bookings : bookings[b].slot = s

RemoveRead(s) ==
  /\ removing.pc = "idle"
  /\ slots[s].status \in {"OPEN", "BLOCKED", "CANCELED"}
  /\ removing' = [pc |-> "remove", slot |-> s, booked |-> EverBooked(s)]
  /\ UNCHANGED <<slots, phase, bookings, calJobs>>
  /\ UnchangedCalendar /\ UnchangedMail

\* Neither write looks at the slot again; the foreign key refuses to delete one that has been
\* booked in the meantime.
RemoveSlot ==
  /\ removing.pc = "remove"
  /\ LET s == removing.slot IN
       slots' = IF removing.booked THEN [slots EXCEPT ![s].status = "CANCELED"]
                ELSE IF EverBooked(s) THEN slots
                ELSE [slots EXCEPT ![s] = NoSlot]
  /\ removing' = Idle
  /\ UNCHANGED <<phase, bookings, calJobs>>
  /\ UnchangedCalendar /\ UnchangedMail

CloseBooking(b, status) ==
  /\ bookings[b].status = "CONFIRMED" /\ phase[bookings[b].slot] = "over"
  /\ bookings' = [bookings EXCEPT ![b].status = status]
  /\ UNCHANGED <<slots, phase, removing, calJobs>>
  /\ UnchangedCalendar /\ UnchangedMail

(***************************************************************************)
(* Time                                                                    *)
(***************************************************************************)
Approach(s) ==
  /\ phase[s] # "over"
  /\ phase' = [phase EXCEPT ![s] = IF @ = "far" THEN "near" ELSE "over"]
  /\ UNCHANGED <<slots, bookings, removing, calJobs>>
  /\ UnchangedCalendar /\ UnchangedMail

HoldLapses(s) ==
  /\ slots[s].hold = "live"
  /\ ChangeSlots([slots EXCEPT ![s].hold = "lapsed"])

(***************************************************************************)
(* The specification                                                       *)
(***************************************************************************)
Guest ==
  \E b \in Bookings :
    Verify(b) \/ Cancel(b) \/ \E s \in Slots : Book(b, s) \/ Reschedule(b, s)

Admin ==
  \/ \E S \in (SUBSET Slots) \ {{}} : CreateSlots(S)
  \/ \E s \in Slots : SetSlotStatus(s, "OPEN") \/ SetSlotStatus(s, "BLOCKED") \/ RemoveRead(s)
  \/ RemoveSlot
  \/ \E b \in Bookings : CloseBooking(b, "COMPLETED") \/ CloseBooking(b, "NO_SHOW")

Calendar ==
  \/ \E k \in JobKeys : RecoverCalendarJob(k)
  \/ \E w \in CalendarWorkers : CalendarRun(w) \/ CalendarCrash(w)

Reminders ==
  /\ \E m \in Mailers : MailRun(m)
  /\ UNCHANGED <<slots, phase, bookings, removing, calendarVars, connectionVars>>

Next ==
  \/ Guest
  \/ ReleaseExpiredHolds
  \/ Admin
  \/ Calendar
  \/ Connection
  \/ Reminders
  \/ \E s \in Slots : Approach(s) \/ HoldLapses(s)

Spec == Init /\ [][Next]_vars

(***************************************************************************)
(* Properties                                                              *)
(***************************************************************************)

\* Every row has its type.
TypeOK ==
  /\ slots \in [Slots -> [status : SlotStatus, hold : {"none", "live", "lapsed"}, event : EventKeys \cup {NoEvent}]]
  /\ phase \in [Slots -> {"far", "near", "over"}]
  /\ bookings \in [Bookings -> [status : BookingStatus, slot : Slots \cup {Nothing}, revision : 0..MaxRevision]]
  /\ calJobs \in [JobKeys -> [status : JobStatus, attempts : Nat,
                              slot : Slots \cup {Nothing}, targeted : BOOLEAN]]
  /\ events \in [EventKeys -> {"none", "live", "deleted"}]
  /\ host \in [grant : 0..MaxGrants, op : 0..MaxGrants, epoch : 0..MaxGrants, targeted : BOOLEAN, issued : 0..MaxGrants]
  /\ valid \subseteq 1..MaxGrants /\ oauth \subseteq 0..MaxGrants
  /\ faults \in 0..CalendarFaults

\* A deletion somebody still has to make: queued, under way or given up.
LeftToDelete(e) == calJobs[<<"delete", e>>].status \in {"PENDING", "RUNNING", "FAILED"}

Took == {"CONFIRMED", "COMPLETED", "NO_SHOW"}

\* No two guests have the same slot, whether they wait for the verification of their address,
\* are confirmed or have come: holds lapse, are released and are taken again at the same time.
NoDoubleBooking ==
  \A b, c \in Bookings :
    /\ b # c
    /\ bookings[b].status \in Took \cup {"PENDING"}
    /\ bookings[c].status \in Took \cup {"PENDING"}
    => bookings[b].slot # bookings[c].slot

\* The meeting a slot shows is the one of the guest who has the slot now: no late job of an
\* earlier revision or of an earlier guest overwrites it.
MeetingIsOwn ==
  \A s \in Slots : \A e \in EventKeys :
    slots[s].event = e =>
      /\ bookings[e[1]].status \in Took
      /\ bookings[e[1]].slot = s
      /\ bookings[e[1]].revision = e[2]

\* A booking and its slot agree: what waits holds its slot, what is confirmed has it booked, and
\* no slot stays held or booked with nobody behind it.  The one exception the code allows is a
\* slot canceled by an administrator who had read it before it was taken.
SlotsAccounted ==
  /\ TypeOK
  /\ \A b \in Bookings :
       /\ bookings[b].status = "PENDING" => SlotOf(b).status \in {"HELD", "CANCELED"}
       /\ bookings[b].status \in Took => SlotOf(b).status \in {"BOOKED", "CANCELED"}
  /\ \A s \in Slots :
       /\ slots[s].status = "HELD" =>
            \E b \in Bookings : bookings[b].slot = s /\ bookings[b].status = "PENDING"
       /\ slots[s].status = "BOOKED" =>
            \E b \in Bookings : bookings[b].slot = s /\ bookings[b].status \in Took
  /\ MeetingIsOwn

\* An event that is in the host's calendar belongs to the present revision of a booking that
\* stands, or a job is left to delete it (or has given up and is counted as unfinished), even
\* when the answer to its creation was lost and the booking was moved or canceled since.
EventsAccounted ==
  \A e \in EventKeys :
    events[e] = "live" =>
      \/ bookings[e[1]].status \in Took /\ bookings[e[1]].revision = e[2]
      \/ LeftToDelete(e)

\* Google is forgotten only when no deletion is left to be made there.
DisconnectLosesNoDelete ==
  [][host.grant # 0 /\ host'.grant = 0 => ~\E e \in EventKeys : LeftToDelete(e)]_vars

\* A reminder nobody has tried to send yet announces a booking that stands, at its slot.
PendingReminderIsTrue ==
  \A b \in Bookings, s \in Slots :
    LET row == outbox[<<b, s>>] IN
      row.status = "PENDING" /\ row.attempts = 0 => bookings[b].status \in Took /\ bookings[b].slot = s

=============================================================================
