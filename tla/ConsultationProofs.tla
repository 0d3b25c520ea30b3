------------------------- MODULE ConsultationProofs -------------------------
(***************************************************************************)
(* Consultation booking, for every number of guests, slots, revisions,     *)
(* calendar workers, mailers and requests to disconnect.  The invariant    *)
(* has four parts: bookings and slots agree (Sound), the calendar jobs     *)
(* account for the events (Mirror), an operation that ends the connection  *)
(* finds nothing to be made and nothing arrives (Quiet), and what waits to *)
(* be reminded of stands (Reminded).                                       *)
(***************************************************************************)
EXTENDS Consultation, TLAPS

SlotRow == [status : SlotStatus, hold : {"none", "live", "lapsed"}, event : EventKeys \cup {NoEvent}]
BookingRow == [status : BookingStatus, slot : Slots \cup {Nothing}, revision : 0 .. MaxRevision]
JobRow == [status : JobStatus, attempts : Nat, slot : Slots \cup {Nothing}, targeted : BOOLEAN]
Work == [pc : {"claim", "run", "done", "failed"}, key : JobKeys, attempts : Nat]
HostRow == [grant : 0 .. MaxGrants, op : 0 .. MaxGrants, epoch : 0 .. MaxGrants, targeted : BOOLEAN,
            issued : 0 .. MaxGrants]
Ending == [pc : {"revoke", "finalize", "release"}, op : 1 .. MaxGrants, grant : 0 .. MaxGrants]
Removal == [pc : {"remove"}, slot : Slots, booked : BOOLEAN]
MailRow == [status : MailStatus \cup {"ABSENT"}, attempts : Nat, redacted : BOOLEAN]
Sending == [pc : {"claim", "send", "sent", "failed"}, key : Messages, attempts : Nat, redacted : BOOLEAN]

(***************************************************************************)
(* The invariant                                                           *)
(***************************************************************************)

Stands(row) == row.status \in Took \cup {"PENDING"}

\* What a row of a booking says of its slot.
Placed(sl, row) ==
  /\ Stands(row) => row.slot \in Slots
  /\ row.status = "PENDING" => sl[row.slot].status \in {"HELD", "CANCELED"}
  /\ row.status \in Took => sl[row.slot].status \in {"BOOKED", "CANCELED"}
  /\ row.status \in Took => row.revision >= 1
  /\ row.status \in {"NONE", "PENDING"} => row.revision = 0

\* What a row of a slot says of its booking.
Backed(sl, bk, s) ==
  /\ sl[s].status = "HELD" => \E b \in Bookings : bk[b].slot = s /\ bk[b].status = "PENDING"
  /\ sl[s].status = "BOOKED" => \E b \in Bookings : bk[b].slot = s /\ bk[b].status \in Took

Own(sl, bk, s) ==
  \A e \in EventKeys :
    sl[s].event = e => bk[e[1]].status \in Took /\ bk[e[1]].slot = s /\ bk[e[1]].revision = e[2]

Apart(bk) ==
  \A b, c \in Bookings : b # c /\ Stands(bk[b]) /\ Stands(bk[c]) => bk[b].slot # bk[c].slot

\* A table of slots and one of bookings agree.
Sound(sl, bk) ==
  /\ sl \in [Slots -> SlotRow] /\ bk \in [Bookings -> BookingRow]
  /\ \A b \in Bookings : Placed(sl, bk[b])
  /\ \A s \in Slots : Backed(sl, bk, s) /\ Own(sl, bk, s)
  /\ Apart(bk)

Current(e) == bookings[e[1]].status \in Took /\ bookings[e[1]].revision = e[2]

\* What a worker holds.
Honest(x) ==
  x.pc # "idle" =>
    /\ calJobs[x.key].status # "ABSENT"
    /\ x.pc = "done" /\ x.key[1] = "delete" => events[x.key[2]] # "live"

\* A deletion is queued for a revision that is past, and only a deletion that has been made is
\* marked as made; an event has a creation that knew the calendar.
Mirror ==
  /\ calJobs \in [JobKeys -> JobRow]
  /\ workers \in [CalendarWorkers -> {Idle} \cup Work]
  /\ events \in [EventKeys -> {"none", "live", "deleted"}]
  /\ \A k \in JobKeys : calJobs[k].status = "ABSENT" => calJobs[k].targeted = FALSE
  /\ \A e \in EventKeys :
       /\ calJobs[<<"delete", e>>].status # "ABSENT" => e[2] < bookings[e[1]].revision
       /\ events[e] = "live" => calJobs[<<"create", e>>].targeted = TRUE
       /\ events[e] = "live" => Current(e) \/ LeftToDelete(e)
  /\ \A w \in CalendarWorkers : Honest(workers[w])

\* Nobody has a meeting to come, and nothing is left to delete.
Unused ==
  /\ \A b \in Bookings :
       bookings[b].status = "CONFIRMED" /\ SlotOf(b).status = "BOOKED" => phase[bookings[b].slot] = "over"
  /\ \A e \in EventKeys : ~LeftToDelete(e)

\* An operation under way keeps the connection unused.
Quiet ==
  /\ host \in HostRow /\ valid \subseteq 1 .. MaxGrants /\ oauth \subseteq 0 .. MaxGrants
  /\ ending \in [Disconnects -> {Idle} \cup Ending]
  /\ phase \in [Slots -> {"far", "near", "over"}] /\ faults \in 0 .. CalendarFaults
  /\ host.op \in {0, host.epoch}
  /\ host.op # 0 => Unused

\* A reminder that somebody has tried to send has been counted.
Reminded ==
  /\ outbox \in [Messages -> MailRow]
  /\ mailer \in [Mailers -> {Resting} \cup Sending]
  /\ \A k \in Messages : /\ outbox[k].status = "ABSENT" => outbox[k].attempts = 0
                         /\ outbox[k].status = "RUNNING" => outbox[k].attempts >= 1
  /\ \A m \in Mailers : mailer[m].pc \in {"send", "sent", "failed"} => outbox[mailer[m].key].attempts >= 1
  /\ PendingReminderIsTrue

ConsultationInv ==
  /\ Sound(slots, bookings) /\ removing \in {Idle} \cup Removal
  /\ Mirror /\ Quiet /\ Reminded

(***************************************************************************)
(* Slots and bookings                                                      *)
(***************************************************************************)

LEMMA RowValues ==
  /\ NoEvent \notin EventKeys
  /\ NoSlot \in SlotRow /\ NoSlot.status = "ABSENT" /\ NoSlot.event = NoEvent
  /\ OpenSlot \in SlotRow /\ OpenSlot.status = "OPEN" /\ OpenSlot.event = NoEvent
  /\ NoBooking \in BookingRow /\ NoBooking.status = "NONE" /\ NoBooking.revision = 0
  /\ NoJob \in JobRow /\ NoJob.status = "ABSENT" /\ NoJob.targeted = FALSE
  /\ Idle.pc = "idle" /\ Idle \notin Work /\ Idle \notin Ending /\ Idle \notin Removal
  /\ Resting.pc = "idle" /\ Resting \notin Sending
<1>1. NoEvent \notin EventKeys
  BY DEF NoEvent, EventKeys
<1>2. NoSlot \in SlotRow /\ NoSlot.status = "ABSENT" /\ NoSlot.event = NoEvent
  BY DEF NoSlot, SlotRow, SlotStatus
<1>3. OpenSlot \in SlotRow /\ OpenSlot.status = "OPEN" /\ OpenSlot.event = NoEvent
  BY <1>2 DEF OpenSlot, SlotRow, SlotStatus
<1>4. NoBooking \in BookingRow /\ NoBooking.status = "NONE" /\ NoBooking.revision = 0
  BY ConsultationAssumption DEF NoBooking, BookingRow, BookingStatus
<1>5. NoJob \in JobRow /\ NoJob.status = "ABSENT" /\ NoJob.targeted = FALSE
  BY DEF NoJob, JobRow, JobStatus
<1>6. Idle.pc = "idle" /\ Resting.pc = "idle"
  BY DEF Idle, Resting
<1>7. (\A x \in Work : x.pc # "idle") /\ (\A x \in Ending : x.pc # "idle")
  BY DEF Work, Ending
<1>8. (\A x \in Removal : x.pc # "idle") /\ (\A x \in Sending : x.pc # "idle")
  BY DEF Removal, Sending
<1>9. QED BY <1>1, <1>2, <1>3, <1>4, <1>5, <1>6, <1>7, <1>8

\* A slot that is neither held nor booked nor canceled is nobody's, and shows no meeting.
LEMMA NobodyHas ==
  ASSUME NEW sl, NEW bk, Sound(sl, bk), NEW s \in Slots, sl[s].status \notin {"HELD", "BOOKED", "CANCELED"}
  PROVE  /\ \A b \in Bookings : Stands(bk[b]) => bk[b].slot # s
         /\ sl[s].event = NoEvent
<1>1. ASSUME NEW b \in Bookings, Stands(bk[b]), bk[b].slot = s PROVE FALSE
  BY <1>1 DEF Sound, Placed, Stands, Took
<1>2. sl[s] \in SlotRow
  BY DEF Sound
<1>3. ASSUME sl[s].event \in EventKeys PROVE FALSE
  <2>1. PICK e \in EventKeys : sl[s].event = e
    BY <1>3
  <2>2. bk[e[1]].status \in Took /\ bk[e[1]].slot = s /\ e[1] \in Bookings
    BY <2>1 DEF Sound, Own, EventKeys
  <2>3. QED BY <1>1, <2>2 DEF Stands
<1>4. QED BY <1>1, <1>2, <1>3 DEF SlotRow

\* Slots move and the bookings stay: a slot is canceled, changes in nothing that is looked at, or is
\* nobody's and becomes neither held nor booked.
LEMMA SlotsMove ==
  ASSUME NEW sl, NEW bk, Sound(sl, bk), NEW new \in [Slots -> SlotRow],
         \A s \in Slots :
           /\ \/ new[s].status \in {sl[s].status, "CANCELED"}
              \/ /\ sl[s].status \notin {"HELD", "BOOKED", "CANCELED"} \/ ~\E b \in Bookings : bk[b].slot = s
                 /\ new[s].status \notin {"HELD", "BOOKED"}
           /\ new[s].event \in {sl[s].event, NoEvent}
  PROVE  Sound(new, bk)
<1>1. ASSUME NEW b \in Bookings PROVE Placed(new, bk[b])
  <2>1. Placed(sl, bk[b])
    BY DEF Sound
  <2>2. CASE Stands(bk[b])
    <3> DEFINE s == bk[b].slot
    <3>1. s \in Slots
      BY <2>1, <2>2 DEF Placed
    <3>2. sl[s].status \in {"HELD", "BOOKED", "CANCELED"}
      BY <2>1, <2>2 DEF Placed, Stands
    <3>3. new[s].status \in {sl[s].status, "CANCELED"}
      BY <3>1, <3>2
    <3>4. QED BY <2>1, <3>1, <3>3 DEF Placed, Took
  <2>3. CASE ~Stands(bk[b])
    BY <2>1, <2>3 DEF Placed, Stands
  <2>4. QED BY <2>2, <2>3
<1>2. ASSUME NEW s \in Slots PROVE Backed(new, bk, s) /\ Own(new, bk, s)
  <2>1. Backed(sl, bk, s) /\ Own(sl, bk, s)
    BY DEF Sound
  <2>2. Backed(new, bk, s)
    BY <2>1 DEF Backed
  <2>3. Own(new, bk, s)
    BY <2>1, RowValues DEF Own
  <2>4. QED BY <2>2, <2>3
<1>3. QED BY <1>1, <1>2 DEF Sound

\* A booking and its slot move together: nobody else has the slot, and the booking has no other.
LEMMA BothMove ==
  ASSUME NEW sl, NEW bk, Sound(sl, bk), NEW s \in Slots, NEW b \in Bookings,
         NEW x \in SlotRow, NEW y \in BookingRow,
         \A c \in Bookings \ {b} : Stands(bk[c]) => bk[c].slot # s,
         Stands(bk[b]) => bk[b].slot = s,
         Stands(y) => y.slot = s,
         y.status = "PENDING" => x.status \in {"HELD", "CANCELED"},
         y.status \in Took => x.status \in {"BOOKED", "CANCELED"},
         y.status \in Took => y.revision >= 1,
         y.status \in {"NONE", "PENDING"} => y.revision = 0,
         x.status = "HELD" => y.status = "PENDING",
         x.status = "BOOKED" => y.status \in Took,
         x.event = NoEvent \/ (y.status \in Took /\ x.event = <<b, y.revision>>)
  PROVE  Sound([sl EXCEPT ![s] = x], [bk EXCEPT ![b] = y])
<1> DEFINE sl2 == [sl EXCEPT ![s] = x]
           bk2 == [bk EXCEPT ![b] = y]
<1>1. /\ sl2 \in [Slots -> SlotRow] /\ bk2 \in [Bookings -> BookingRow]
      /\ sl2[s] = x /\ bk2[b] = y
      /\ \A t \in Slots \ {s} : sl2[t] = sl[t]
      /\ \A c \in Bookings \ {b} : bk2[c] = bk[c]
  BY DEF Sound
<1> HIDE DEF sl2, bk2
<1>2. ASSUME NEW c \in Bookings PROVE Placed(sl2, bk2[c])
  <2>1. CASE c = b
    BY <1>1, <2>1 DEF Placed, Stands
  <2>2. CASE c # b
    <3>1. Placed(sl, bk[c]) /\ bk2[c] = bk[c]
      BY <1>1, <2>2 DEF Sound
    <3>2. Stands(bk[c]) => bk[c].slot \in Slots \ {s}
      BY <2>2, <3>1 DEF Placed
    <3>3. QED BY <1>1, <3>1, <3>2 DEF Placed, Stands
  <2>3. QED BY <2>1, <2>2
<1>3. ASSUME NEW t \in Slots PROVE Backed(sl2, bk2, t)
  <2>1. CASE t = s
    BY <1>1, <2>1 DEF Backed, Stands
  <2>2. CASE t # s
    <3>1. Backed(sl, bk, t) /\ sl2[t] = sl[t]
      BY <1>1, <2>2 DEF Sound
    <3>2. ASSUME NEW c \in Bookings, bk[c].slot = t, Stands(bk[c]) PROVE c # b /\ bk2[c] = bk[c]
      BY <1>1, <2>2, <3>2
    <3>3. QED BY <3>1, <3>2 DEF Backed, Stands
  <2>3. QED BY <2>1, <2>2
<1>4. ASSUME NEW t \in Slots, NEW e \in EventKeys, sl2[t].event = e
      PROVE  bk2[e[1]].status \in Took /\ bk2[e[1]].slot = t /\ bk2[e[1]].revision = e[2]
  <2>1. CASE t = s
    <3>1. y.status \in Took /\ e = <<b, y.revision>>
      BY <1>1, <1>4, <2>1, RowValues
    <3>2. QED BY <1>1, <2>1, <3>1 DEF Stands
  <2>2. CASE t # s
    <3>1. bk[e[1]].status \in Took /\ bk[e[1]].slot = t /\ bk[e[1]].revision = e[2] /\ e[1] \in Bookings
      BY <1>1, <1>4, <2>2 DEF Sound, Own, EventKeys
    <3>2. e[1] # b
      BY <2>2, <3>1 DEF Stands
    <3>3. QED BY <1>1, <3>1, <3>2
  <2>3. QED BY <2>1, <2>2
<1>5. ASSUME NEW c \in Bookings, NEW d \in Bookings, c # d, Stands(bk2[c]), Stands(bk2[d])
      PROVE  bk2[c].slot # bk2[d].slot
  <2>1. CASE c # b /\ d # b
    BY <1>1, <1>5, <2>1 DEF Sound, Apart
  <2>2. CASE c = b
    BY <1>1, <1>5, <2>2
  <2>3. CASE d = b
    BY <1>1, <1>5, <2>3
  <2>4. QED BY <2>1, <2>2, <2>3
<1>6. Sound(sl2, bk2)
  BY <1>1, <1>2, <1>3, <1>4, <1>5 DEF Sound, Own, Apart
<1>7. QED BY <1>6 DEF sl2, bk2

\* The release of the lapsed holds.
LEMMA Released ==
  ASSUME Sound(slots, bookings)
  PROVE  /\ Sound(SlotsReleased, BookingsReleased)
         /\ \A b \in Bookings : /\ BookingsReleased[b].status \in {bookings[b].status, "EXPIRED"}
                                /\ bookings[b].status # "PENDING" => BookingsReleased[b] = bookings[b]
                                /\ BookingsReleased[b].slot = bookings[b].slot
                                /\ BookingsReleased[b].revision = bookings[b].revision
         /\ \A s \in Slots : SlotsReleased[s].status = "BOOKED" => slots[s].status = "BOOKED"
<1> DEFINE sl == SlotsReleased
           bk == BookingsReleased
<1>1. ASSUME NEW b \in Bookings
      PROVE  /\ bk[b] \in BookingRow /\ bk[b].slot = bookings[b].slot /\ bk[b].revision = bookings[b].revision
             /\ bk[b].status = IF bookings[b].status = "PENDING" /\ LapsedHold(bookings[b].slot)
                               THEN "EXPIRED" ELSE bookings[b].status
             /\ bookings[b].status # "PENDING" => bk[b] = bookings[b]
  BY DEF BookingsReleased, Sound, BookingRow, BookingStatus
<1>2. ASSUME NEW s \in Slots
      PROVE  /\ sl[s] \in SlotRow /\ sl[s].event = slots[s].event
             /\ LapsedHold(s) => sl[s].status = "OPEN"
             /\ ~LapsedHold(s) => sl[s] = slots[s]
  <2>1. slots[s] \in SlotRow
    BY DEF Sound
  <2>2. CASE LapsedHold(s)
    <3> DEFINE a == [slots[s] EXCEPT !.status = "OPEN"]
    <3>1. a \in SlotRow /\ a.status = "OPEN" /\ a.event = slots[s].event
      BY <2>1 DEF SlotRow, SlotStatus
    <3>2. sl[s] = [a EXCEPT !.hold = "none"]
      BY <2>2 DEF SlotsReleased
    <3> HIDE DEF a
    <3>3. sl[s] \in SlotRow /\ sl[s].status = "OPEN" /\ sl[s].event = slots[s].event
      BY <3>1, <3>2 DEF SlotRow
    <3>4. QED BY <2>2, <3>3
  <2>3. CASE ~LapsedHold(s)
    BY <2>1, <2>3 DEF SlotsReleased
  <2>4. QED BY <2>2, <2>3
<1>3. sl \in [Slots -> SlotRow] /\ bk \in [Bookings -> BookingRow]
  BY <1>1, <1>2 DEF SlotsReleased, BookingsReleased
<1> HIDE DEF sl, bk
<1>4. ASSUME NEW b \in Bookings PROVE Placed(sl, bk[b])
  <2>1. Placed(slots, bookings[b])
    BY DEF Sound
  <2>2. CASE bookings[b].status = "PENDING"
    <3>1. bookings[b].slot \in Slots
      BY <2>1, <2>2 DEF Placed, Stands
    <3>2. CASE LapsedHold(bookings[b].slot)
      BY <1>1, <2>2, <3>2 DEF Placed, Stands, Took
    <3>3. CASE ~LapsedHold(bookings[b].slot)
      BY <1>1, <1>2, <2>1, <2>2, <3>1, <3>3 DEF Placed, Stands, Took
    <3>4. QED BY <3>2, <3>3
  <2>3. CASE bookings[b].status # "PENDING"
    <3>1. bk[b] = bookings[b]
      BY <1>1, <2>3
    <3>2. CASE bookings[b].status \in Took
      <4>1. bookings[b].slot \in Slots /\ slots[bookings[b].slot].status # "HELD"
        BY <2>1, <3>2 DEF Placed, Stands
      <4>2. ~LapsedHold(bookings[b].slot)
        BY <4>1 DEF LapsedHold
      <4>3. QED BY <1>2, <2>1, <2>3, <3>1, <4>1, <4>2 DEF Placed, Stands
    <3>3. CASE bookings[b].status \notin Took
      BY <2>1, <2>3, <3>1, <3>3 DEF Placed, Stands
    <3>4. QED BY <3>2, <3>3
  <2>4. QED BY <2>2, <2>3
<1>5. ASSUME NEW s \in Slots PROVE Backed(sl, bk, s) /\ Own(sl, bk, s)
  <2>1. Backed(slots, bookings, s) /\ Own(slots, bookings, s)
    BY DEF Sound
  <2>2. Own(sl, bk, s)
    <3>1. ASSUME NEW e \in EventKeys, slots[s].event = e
          PROVE  bookings[e[1]].status \in Took /\ bk[e[1]] = bookings[e[1]]
      BY <1>1, <2>1, <3>1 DEF Own, EventKeys, Took
    <3>2. QED BY <1>2, <2>1, <3>1 DEF Own
  <2>3. CASE LapsedHold(s)
    BY <1>2, <2>2, <2>3 DEF Backed
  <2>4. CASE ~LapsedHold(s)
    <3>1. ASSUME NEW b \in Bookings, bookings[b].slot = s PROVE bk[b].status = bookings[b].status /\ bk[b].slot = s
      BY <1>1, <2>4, <3>1
    <3>2. QED BY <1>2, <2>1, <2>2, <2>4, <3>1 DEF Backed
  <2>5. QED BY <2>3, <2>4
<1>6. Apart(bk)
  <2>1. \A b \in Bookings : Stands(bk[b]) => Stands(bookings[b]) /\ bk[b].slot = bookings[b].slot
    BY <1>1 DEF Stands, Took
  <2>2. QED BY <2>1 DEF Sound, Apart
<1>7. Sound(sl, bk)
  BY <1>3, <1>4, <1>5, <1>6 DEF Sound
<1>8. QED BY <1>1, <1>2, <1>7 DEF sl, bk

\* The updates of one field of a slot or a booking.
LEMMA SlotStatusUpdate ==
  ASSUME NEW row \in SlotRow, NEW s \in SlotStatus
  PROVE  /\ [row EXCEPT !.status = s] \in SlotRow /\ [row EXCEPT !.status = s].status = s
         /\ [row EXCEPT !.status = s].event = row.event
BY DEF SlotRow

LEMMA SlotHoldUpdate ==
  ASSUME NEW row \in SlotRow, NEW h \in {"none", "live", "lapsed"}
  PROVE  /\ [row EXCEPT !.hold = h] \in SlotRow /\ [row EXCEPT !.hold = h].status = row.status
         /\ [row EXCEPT !.hold = h].event = row.event
BY DEF SlotRow

LEMMA SlotEventUpdate ==
  ASSUME NEW row \in SlotRow, NEW e \in EventKeys
  PROVE  /\ [row EXCEPT !.event = e] \in SlotRow /\ [row EXCEPT !.event = e].status = row.status
         /\ [row EXCEPT !.event = e].event = e
BY DEF SlotRow

LEMMA BookingStatusUpdate ==
  ASSUME NEW row \in BookingRow, NEW st \in BookingStatus
  PROVE  /\ [row EXCEPT !.status = st] \in BookingRow /\ [row EXCEPT !.status = st].status = st
         /\ [row EXCEPT !.status = st].slot = row.slot /\ [row EXCEPT !.status = st].revision = row.revision
BY DEF BookingRow

LEMMA BookingSlotUpdate ==
  ASSUME NEW row \in BookingRow, NEW s \in Slots
  PROVE  /\ [row EXCEPT !.slot = s] \in BookingRow /\ [row EXCEPT !.slot = s].status = row.status
         /\ [row EXCEPT !.slot = s].slot = s /\ [row EXCEPT !.slot = s].revision = row.revision
BY DEF BookingRow

LEMMA BookingRevisionUpdate ==
  ASSUME NEW row \in BookingRow, NEW r \in 0 .. MaxRevision
  PROVE  /\ [row EXCEPT !.revision = r] \in BookingRow /\ [row EXCEPT !.revision = r].status = row.status
         /\ [row EXCEPT !.revision = r].slot = row.slot /\ [row EXCEPT !.revision = r].revision = r
BY DEF BookingRow

\* The slot of a booking that stands is nobody else's.
LEMMA HasItAlone ==
  ASSUME NEW sl, NEW bk, Sound(sl, bk), NEW b \in Bookings, Stands(bk[b])
  PROVE  /\ bk[b].slot \in Slots
         /\ \A c \in Bookings \ {b} : Stands(bk[c]) => bk[c].slot # bk[b].slot
         /\ sl[bk[b].slot].event \in {NoEvent, <<b, bk[b].revision>>}
         /\ bk[b].status = "PENDING" => sl[bk[b].slot].event = NoEvent
<1> DEFINE s == bk[b].slot
<1>1. s \in Slots /\ sl[s] \in SlotRow
  BY DEF Sound, Placed
<1>2. \A c \in Bookings \ {b} : Stands(bk[c]) => bk[c].slot # s
  BY DEF Sound, Apart
<1>3. ASSUME sl[s].event # NoEvent
      PROVE  sl[s].event = <<b, bk[b].revision>> /\ bk[b].status \in Took
  <2>1. PICK e \in EventKeys : sl[s].event = e
    BY <1>1, <1>3 DEF SlotRow
  <2>2. bk[e[1]].status \in Took /\ bk[e[1]].slot = s /\ bk[e[1]].revision = e[2]
    BY <1>1, <2>1 DEF Sound, Own
  <2>3. e[1] \in Bookings /\ e = <<e[1], e[2]>>
    BY DEF EventKeys
  <2>4. e[1] = b
    BY <1>2, <2>2, <2>3 DEF Stands
  <2>5. QED BY <2>1, <2>2, <2>3, <2>4
<1>4. QED BY <1>1, <1>2, <1>3 DEF Took

\* A booking that does not stand takes an open slot.
LEMMA Taking ==
  ASSUME NEW sl, NEW bk, Sound(sl, bk), NEW s \in Slots, NEW b \in Bookings, ~Stands(bk[b]),
         sl[s].status = "OPEN", NEW x \in SlotRow, NEW y \in BookingRow, y.slot = s, x.event = NoEvent,
         \/ y.status = "PENDING" /\ y.revision = 0 /\ x.status = "HELD"
         \/ y.status \in Took /\ y.revision >= 1 /\ x.status = "BOOKED"
  PROVE  Sound([sl EXCEPT ![s] = x], [bk EXCEPT ![b] = y])
<1>1. \A c \in Bookings : Stands(bk[c]) => bk[c].slot # s
  BY NobodyHas
<1>2. QED BY <1>1, BothMove DEF Took

\* A slot that is found to be taken elsewhere.
LEMMA Blocking ==
  ASSUME NEW sl, NEW bk, Sound(sl, bk), NEW s \in Slots, sl[s].status \in {"OPEN", "BLOCKED"},
         NEW st \in {"OPEN", "BLOCKED"}
  PROVE  Sound([sl EXCEPT ![s].status = st], bk)
<1> DEFINE x == [sl[s] EXCEPT !.status = st]
<1>1. sl \in [Slots -> SlotRow] /\ sl[s] \in SlotRow /\ st \in SlotStatus
  BY DEF Sound, SlotStatus
<1>2. x \in SlotRow /\ x.status = st /\ x.event = sl[s].event
  BY <1>1, SlotStatusUpdate
<1>3. [sl EXCEPT ![s].status = st] = [sl EXCEPT ![s] = x]
  BY <1>1
<1> HIDE DEF x
<1> DEFINE new == [sl EXCEPT ![s] = x]
<1>4. /\ new \in [Slots -> SlotRow] /\ new[s] = x
      /\ \A t \in Slots \ {s} : new[t] = sl[t]
  BY <1>1, <1>2
<1> HIDE DEF new
<1>5. Sound(new, bk)
  BY <1>2, <1>4, SlotsMove
<1>6. QED BY <1>3, <1>5 DEF new

LEMMA BookSound ==
  ASSUME Sound(slots, bookings), NEW b \in Bookings, NEW s \in Slots, Book(b, s)
  PROVE  Sound(slots, bookings)'
<1>1. bookings[b].status = "NONE" /\ SlotsReleased[s].status = "OPEN"
  BY DEF Book
<1>2. Sound(SlotsReleased, BookingsReleased) /\ BookingsReleased[b] = bookings[b]
  BY <1>1, Released
<1>3. CASE slots' = [SlotsReleased EXCEPT ![s].status = "BLOCKED"] /\ bookings' = BookingsReleased
  BY <1>1, <1>2, <1>3, Blocking
<1>4. CASE /\ slots' = [SlotsReleased EXCEPT ![s].status = "HELD", ![s].hold = "live"]
           /\ bookings' = [BookingsReleased EXCEPT ![b].status = "PENDING", ![b].slot = s]
  <2> DEFINE sl == SlotsReleased
             bk == BookingsReleased
             a == [sl[s] EXCEPT !.status = "HELD"]
             x == [a EXCEPT !.hold = "live"]
             c == [bk[b] EXCEPT !.status = "PENDING"]
             y == [c EXCEPT !.slot = s]
  <2>1. sl \in [Slots -> SlotRow] /\ bk \in [Bookings -> BookingRow] /\ sl[s] \in SlotRow /\ bk[b] \in BookingRow
    BY <1>2 DEF Sound
  <2>2. slots' = [sl EXCEPT ![s] = x]
    BY <1>4, <2>1
  <2>3. bookings' = [bk EXCEPT ![b] = y]
    BY <1>4, <2>1
  <2>4. bk[b].revision = 0 /\ bk[b].status = "NONE" /\ sl[s].event = NoEvent
    BY <1>1, <1>2, NobodyHas DEF Sound, Placed
  <2>a. Sound(sl, bk) /\ sl[s].status = "OPEN"
    BY <1>1, <1>2
  <2> HIDE DEF sl, bk
  <2>5. a \in SlotRow /\ a.status = "HELD" /\ a.event = NoEvent
    BY <2>1, <2>4, SlotStatusUpdate DEF SlotStatus
  <2> HIDE DEF a
  <2>6. x \in SlotRow /\ x.status = "HELD" /\ x.event = NoEvent
    BY <2>5, SlotHoldUpdate
  <2>7. c \in BookingRow /\ c.status = "PENDING" /\ c.revision = 0
    BY <2>1, <2>4, BookingStatusUpdate DEF BookingStatus
  <2> HIDE DEF c
  <2>8. y \in BookingRow /\ y.status = "PENDING" /\ y.revision = 0 /\ y.slot = s
    BY <2>7, BookingSlotUpdate
  <2> HIDE DEF x, y
  <2>9. ~Stands(bk[b])
    BY <2>4 DEF Stands, Took
  <2>10. QED BY <2>2, <2>3, <2>a, <2>6, <2>8, <2>9, Taking
<1>5. QED BY <1>3, <1>4 DEF Book

\* What Verify, Cancel and Reschedule make of the row of a booking, and where it was.
LEMMA VerifySound ==
  ASSUME Sound(slots, bookings), NEW b \in Bookings, Verify(b)
  PROVE  /\ Sound(slots, bookings)'
         /\ bookings[b].status = "PENDING" /\ bookings[b].revision = 0 /\ bookings[b].slot \in Slots
<1> DEFINE s == bookings[b].slot
<1>1. bookings[b].status = "PENDING" /\ slots[s].status = "HELD"
  BY DEF Verify, Verifiable, SlotOf
<1>2. /\ s \in Slots /\ slots[s].event = NoEvent /\ bookings[b].revision = 0
      /\ \A c \in Bookings \ {b} : Stands(bookings[c]) => bookings[c].slot # s
  BY <1>1, HasItAlone DEF Stands, Sound, Placed
<1>3. /\ slots \in [Slots -> SlotRow] /\ bookings \in [Bookings -> BookingRow]
      /\ slots[s] \in SlotRow /\ bookings[b] \in BookingRow
  BY <1>2 DEF Sound
<1>4. ASSUME NEW st \in {"BLOCKED", "BOOKED"}
      PROVE  \E x \in SlotRow : /\ [slots EXCEPT ![s].status = st, ![s].hold = "none"] = [slots EXCEPT ![s] = x]
                                /\ x.status = st /\ x.event = NoEvent
  <2> DEFINE a == [slots[s] EXCEPT !.status = st]
             x == [a EXCEPT !.hold = "none"]
  <2>1. [slots EXCEPT ![s].status = st, ![s].hold = "none"] = [slots EXCEPT ![s] = x]
    BY <1>2, <1>3
  <2>a. st \in SlotStatus
    BY DEF SlotStatus
  <2>2. a \in SlotRow /\ a.status = st /\ a.event = NoEvent
    BY <1>2, <1>3, <2>a, SlotStatusUpdate
  <2> HIDE DEF a
  <2>3. x \in SlotRow /\ x.status = st /\ x.event = NoEvent
    BY <2>2, SlotHoldUpdate
  <2>4. QED BY <2>1, <2>3
<1>5. CASE /\ slots' = [slots EXCEPT ![s].status = "BLOCKED", ![s].hold = "none"]
           /\ bookings' = [bookings EXCEPT ![b].status = "EXPIRED"]
  <2> DEFINE y == [bookings[b] EXCEPT !.status = "EXPIRED"]
  <2>1. PICK x \in SlotRow : slots' = [slots EXCEPT ![s] = x] /\ x.status = "BLOCKED" /\ x.event = NoEvent
    BY <1>4, <1>5
  <2>2. bookings' = [bookings EXCEPT ![b] = y]
    BY <1>3, <1>5
  <2>3. y \in BookingRow /\ y.status = "EXPIRED"
    BY <1>3, BookingStatusUpdate DEF BookingStatus
  <2>4. ~Stands(y) /\ y.status \notin Took
    BY <2>3 DEF Stands, Took
  <2> HIDE DEF y
  <2>5. Sound([slots EXCEPT ![s] = x], [bookings EXCEPT ![b] = y])
    BY <1>1, <1>2, <2>1, <2>3, <2>4, BothMove DEF Stands
  <2>6. QED BY <1>1, <1>2, <2>1, <2>2, <2>5
<1>6. CASE /\ slots' = [slots EXCEPT ![s].status = "BOOKED", ![s].hold = "none"]
           /\ bookings' = [bookings EXCEPT ![b].status = "CONFIRMED", ![b].revision = @ + 1]
  <2> DEFINE a == [bookings[b] EXCEPT !.status = "CONFIRMED"]
             y == [a EXCEPT !.revision = bookings[b].revision + 1]
  <2>1. PICK x \in SlotRow : slots' = [slots EXCEPT ![s] = x] /\ x.status = "BOOKED" /\ x.event = NoEvent
    BY <1>4, <1>6
  <2>2. bookings' = [bookings EXCEPT ![b] = y]
    BY <1>3, <1>6
  <2>3. a \in BookingRow /\ a.status = "CONFIRMED" /\ a.slot = s
    BY <1>3, BookingStatusUpdate DEF BookingStatus
  <2>4. bookings[b].revision + 1 = 1 /\ bookings[b].revision + 1 \in 0 .. MaxRevision
    BY <1>2, ConsultationAssumption
  <2> HIDE DEF a
  <2>5. y \in BookingRow /\ y.status = "CONFIRMED" /\ y.slot = s /\ y.revision = 1
    BY <1>2, <2>3, <2>4, BookingRevisionUpdate
  <2> HIDE DEF y
  <2>a. y.status \in Took /\ y.status \notin {"NONE", "PENDING"} /\ y.revision >= 1
    BY <2>5 DEF Took
  <2>6. Sound([slots EXCEPT ![s] = x], [bookings EXCEPT ![b] = y])
    BY <1>1, <1>2, <2>1, <2>5, <2>a, BothMove
  <2>7. QED BY <1>1, <1>2, <2>1, <2>2, <2>6
<1>7. QED BY <1>1, <1>2, <1>5, <1>6 DEF Verify

\* A confirmed booking that is moved or canceled: first it leaves its slot.
LEMMA Leaving ==
  ASSUME Sound(slots, bookings), NEW b \in Bookings, Changeable(b), bookings[b].revision < MaxRevision
  PROVE  /\ bookings[b].slot \in Slots /\ bookings[b].status = "CONFIRMED"
         /\ bookings[b].revision >= 1 /\ bookings[b].revision + 1 \in 1 .. MaxRevision
         /\ \E y \in BookingRow :
              /\ [bookings EXCEPT ![b].status = "CANCELED", ![b].revision = @ + 1] = [bookings EXCEPT ![b] = y]
              /\ y.status = "CANCELED" /\ y.revision = bookings[b].revision + 1
              /\ Sound([slots EXCEPT ![bookings[b].slot] = OpenSlot], [bookings EXCEPT ![b] = y])
<1> DEFINE s == bookings[b].slot
           a == [bookings[b] EXCEPT !.status = "CANCELED"]
           n == bookings[b].revision + 1
           y == [a EXCEPT !.revision = n]
<1>1. bookings[b].status = "CONFIRMED" /\ Stands(bookings[b])
  BY DEF Changeable, Stands, Took
<1>2. s \in Slots /\ \A c \in Bookings \ {b} : Stands(bookings[c]) => bookings[c].slot # s
  BY <1>1, HasItAlone
<1>3. bookings \in [Bookings -> BookingRow] /\ bookings[b] \in BookingRow /\ bookings[b].revision >= 1
  BY <1>1 DEF Sound, Placed, Took
<1>4. n \in 1 .. MaxRevision /\ n \in 0 .. MaxRevision
  BY <1>3, ConsultationAssumption DEF BookingRow
<1>5. [bookings EXCEPT ![b].status = "CANCELED", ![b].revision = @ + 1] = [bookings EXCEPT ![b] = y]
  BY <1>3
<1> HIDE DEF n
<1>6. a \in BookingRow /\ a.status = "CANCELED"
  BY <1>3, BookingStatusUpdate DEF BookingStatus
<1> HIDE DEF a
<1>7. y \in BookingRow /\ y.status = "CANCELED" /\ y.revision = n
  BY <1>4, <1>6, BookingRevisionUpdate
<1>8. ~Stands(y) /\ y.status \notin Took
  BY <1>7 DEF Stands, Took
<1> HIDE DEF y
<1>9. Sound([slots EXCEPT ![s] = OpenSlot], [bookings EXCEPT ![b] = y])
  BY <1>1, <1>2, <1>7, <1>8, RowValues, BothMove
<1>10. QED BY <1>1, <1>2, <1>3, <1>4, <1>5, <1>7, <1>9 DEF n

LEMMA CancelSound ==
  ASSUME Sound(slots, bookings), NEW b \in Bookings, Cancel(b)
  PROVE  Sound(slots, bookings)'
BY Leaving DEF Cancel

LEMMA RescheduleSound ==
  ASSUME Sound(slots, bookings), NEW b \in Bookings, NEW s \in Slots, Reschedule(b, s)
  PROVE  Sound(slots, bookings)'
<1>1. slots[s].status = "OPEN" /\ bookings[b].slot # s
  BY DEF Reschedule
<1>2. CASE slots' = [slots EXCEPT ![s].status = "BLOCKED"] /\ UNCHANGED bookings
  BY <1>1, <1>2, Blocking
<1>3. CASE /\ Changeable(b) /\ bookings[b].revision < MaxRevision
           /\ slots' = [slots EXCEPT ![bookings[b].slot] = OpenSlot, ![s].status = "BOOKED"]
           /\ bookings' = [bookings EXCEPT ![b].slot = s, ![b].revision = @ + 1]
  <2> DEFINE n == bookings[b].revision + 1
             sl == [slots EXCEPT ![bookings[b].slot] = OpenSlot]
             x == [slots[s] EXCEPT !.status = "BOOKED"]
             a == [bookings[b] EXCEPT !.slot = s]
             y == [a EXCEPT !.revision = n]
  <2>1. /\ bookings[b].slot \in Slots /\ bookings[b].status = "CONFIRMED" /\ n \in 0 .. MaxRevision /\ n >= 1
    <3>1. bookings[b].revision >= 1 /\ bookings[b].revision + 1 \in 1 .. MaxRevision
      BY <1>3, Leaving
    <3>2. bookings[b].slot \in Slots /\ bookings[b].status = "CONFIRMED"
      BY <1>3, Leaving
    <3>3. QED BY <3>1, <3>2, ConsultationAssumption
  <2>2. PICK z \in BookingRow : z.status = "CANCELED" /\ Sound(sl, [bookings EXCEPT ![b] = z])
    BY <1>3, Leaving
  <2> DEFINE bk == [bookings EXCEPT ![b] = z]
  <2>3. /\ slots \in [Slots -> SlotRow] /\ bookings \in [Bookings -> BookingRow]
        /\ slots[s] \in SlotRow /\ bookings[b] \in BookingRow
    BY DEF Sound
  <2>4. sl[s] = slots[s] /\ bk[b] = z
    BY <1>1, <2>1, <2>3
  <2>5. slots' = [sl EXCEPT ![s] = x]
    BY <1>1, <1>3, <2>1, <2>3
  <2>6. bookings' = [bk EXCEPT ![b] = y]
    BY <1>3, <2>3
  <2>7. x \in SlotRow /\ x.status = "BOOKED" /\ x.event = slots[s].event
    BY <2>3, SlotStatusUpdate DEF SlotStatus
  <2>8. x.event = NoEvent
    BY <1>1, <2>7, NobodyHas
  <2> HIDE DEF x, n
  <2>9. a \in BookingRow /\ a.status = "CONFIRMED" /\ a.slot = s
    BY <2>1, <2>3, BookingSlotUpdate
  <2> HIDE DEF a
  <2>10. y \in BookingRow /\ y.status = "CONFIRMED" /\ y.slot = s /\ y.revision = n
    BY <2>1, <2>9, BookingRevisionUpdate
  <2>11. ~Stands(z) /\ y.status \in Took
    BY <2>2, <2>10 DEF Stands, Took
  <2>12. Sound(sl, bk)
    BY <2>2
  <2> HIDE DEF sl, bk, y
  <2>13. sl[s].status = "OPEN" /\ ~Stands(bk[b])
    BY <1>1, <2>4, <2>11
  <2>14. QED BY <2>1, <2>5, <2>6, <2>7, <2>8, <2>10, <2>11, <2>12, <2>13, Taking
<1>4. QED BY <1>2, <1>3 DEF Reschedule

LEMMA ReleaseSound ==
  ASSUME Sound(slots, bookings), ReleaseExpiredHolds
  PROVE  Sound(slots, bookings)'
BY Released DEF ReleaseExpiredHolds

\* The administrator and the time change only slots, or only the end of a booking.
LEMMA SlotsSound ==
  ASSUME Sound(slots, bookings),
         \/ \E S \in SUBSET Slots : CreateSlots(S)
         \/ \E s \in Slots : SetSlotStatus(s, "OPEN") \/ SetSlotStatus(s, "BLOCKED") \/ HoldLapses(s)
  PROVE  Sound(slots, bookings)'
<1>1. UNCHANGED bookings
  BY DEF CreateSlots, SetSlotStatus, HoldLapses, ChangeSlots
<1>2. slots \in [Slots -> SlotRow]
  BY DEF Sound
<1>3. ASSUME NEW S \in SUBSET Slots, CreateSlots(S) PROVE Sound(slots, bookings)'
  <2>1. \A s \in S : slots[s].status = "ABSENT"
    BY <1>3 DEF CreateSlots
  <2>2. slots' = [s \in Slots |-> IF s \in S THEN OpenSlot ELSE slots[s]]
    BY <1>3 DEF CreateSlots, ChangeSlots
  <2>3. slots' \in [Slots -> SlotRow]
    BY <1>2, <2>2, RowValues
  <2>4. \A s \in Slots : slots'[s] = IF s \in S THEN OpenSlot ELSE slots[s]
    BY <2>2
  <2>5. QED BY <1>1, <2>1, <2>3, <2>4, RowValues, SlotsMove
<1>4. ASSUME NEW s \in Slots, NEW st \in {"OPEN", "BLOCKED"}, SetSlotStatus(s, st) PROVE Sound(slots, bookings)'
  BY <1>1, <1>4, Blocking DEF SetSlotStatus, ChangeSlots
<1>5. ASSUME NEW s \in Slots, HoldLapses(s) PROVE Sound(slots, bookings)'
  <2> DEFINE x == [slots[s] EXCEPT !.hold = "lapsed"]
  <2>1. slots' = [slots EXCEPT ![s] = x]
    BY <1>2, <1>5 DEF HoldLapses, ChangeSlots
  <2>2. x \in SlotRow /\ x.status = slots[s].status /\ x.event = slots[s].event
    BY <1>2, SlotHoldUpdate
  <2> HIDE DEF x
  <2>3. slots' \in [Slots -> SlotRow] /\ \A t \in Slots : slots'[t].status = slots[t].status /\ slots'[t].event = slots[t].event
    BY <1>2, <2>1, <2>2
  <2>4. QED BY <1>1, <2>3, SlotsMove
<1>6. QED BY <1>3, <1>4, <1>5

LEMMA RemoveSound ==
  ASSUME Sound(slots, bookings), removing \in {Idle} \cup Removal, RemoveSlot
  PROVE  Sound(slots, bookings)'
<1> DEFINE s == removing.slot
<1>1. s \in Slots /\ UNCHANGED bookings
  BY RowValues DEF RemoveSlot, Removal
<1>2. slots \in [Slots -> SlotRow] /\ slots[s] \in SlotRow
  BY <1>1 DEF Sound
<1>3. CASE slots' = [slots EXCEPT ![s].status = "CANCELED"]
  <2> DEFINE x == [slots[s] EXCEPT !.status = "CANCELED"]
  <2>1. slots' = [slots EXCEPT ![s] = x]
    BY <1>2, <1>3
  <2>2. x \in SlotRow /\ x.status = "CANCELED" /\ x.event = slots[s].event
    BY <1>2, SlotStatusUpdate DEF SlotStatus
  <2> HIDE DEF x
  <2>3. /\ slots' \in [Slots -> SlotRow] /\ slots'[s].status = "CANCELED" /\ slots'[s].event = slots[s].event
        /\ \A t \in Slots \ {s} : slots'[t] = slots[t]
    BY <1>1, <1>2, <2>1, <2>2
  <2>4. QED BY <1>1, <2>3, SlotsMove
<1>4. CASE slots' = slots
  BY <1>1, <1>4
<1>5. CASE ~EverBooked(s) /\ slots' = [slots EXCEPT ![s] = NoSlot]
  <2>1. ~\E b \in Bookings : bookings[b].slot = s
    BY <1>5 DEF EverBooked
  <2>2. slots' \in [Slots -> SlotRow] /\ slots'[s] = NoSlot /\ \A t \in Slots \ {s} : slots'[t] = slots[t]
    BY <1>1, <1>2, <1>5, RowValues
  <2>3. QED BY <1>1, <2>1, <2>2, RowValues, SlotsMove
<1>6. QED BY <1>3, <1>4, <1>5 DEF RemoveSlot

LEMMA CloseSound ==
  ASSUME Sound(slots, bookings), NEW b \in Bookings, NEW st \in {"COMPLETED", "NO_SHOW"}, CloseBooking(b, st)
  PROVE  Sound(slots, bookings)'
<1> DEFINE s == bookings[b].slot
           y == [bookings[b] EXCEPT !.status = st]
<1>1. bookings[b].status = "CONFIRMED" /\ Stands(bookings[b]) /\ bookings[b].status \in Took /\ UNCHANGED slots
  BY DEF CloseBooking, Stands, Took
<1>2. /\ s \in Slots /\ slots[s].event \in {NoEvent, <<b, bookings[b].revision>>}
      /\ \A c \in Bookings \ {b} : Stands(bookings[c]) => bookings[c].slot # s
  BY <1>1, HasItAlone
<1>3. /\ slots \in [Slots -> SlotRow] /\ bookings \in [Bookings -> BookingRow]
      /\ slots[s] \in SlotRow /\ bookings[b] \in BookingRow
  BY <1>2 DEF Sound
<1>4. bookings[b].revision >= 1 /\ slots[s].status \in {"BOOKED", "CANCELED"}
  BY <1>1 DEF Sound, Placed
<1>5. bookings' = [bookings EXCEPT ![b] = y] /\ slots' = [slots EXCEPT ![s] = slots[s]]
  BY <1>1, <1>2, <1>3 DEF CloseBooking
<1>a. st \in BookingStatus
  BY DEF BookingStatus
<1>6. y \in BookingRow /\ y.status = st /\ y.slot = s /\ y.revision = bookings[b].revision
  BY <1>3, <1>a, BookingStatusUpdate
<1>7. st \in Took
  BY DEF Took
<1> HIDE DEF y
<1>8. Sound([slots EXCEPT ![s] = slots[s]], [bookings EXCEPT ![b] = y])
  BY <1>1, <1>2, <1>3, <1>4, <1>6, <1>7, BothMove
<1>9. QED BY <1>5, <1>8

\* The event that is created is shown by the slot of its booking.
LEMMA CreateSound ==
  ASSUME Sound(slots, bookings), NEW w, NEW b \in Bookings, NEW r \in Revisions,
         ~NothingToCreate(b, r), CreateEvent(w, b, r), UNCHANGED bookings
  PROVE  Sound(slots, bookings)'
<1> DEFINE s == bookings[b].slot
           e == <<b, r>>
           x == [slots[s] EXCEPT !.event = e]
<1>1. bookings[b].status = "CONFIRMED" /\ bookings[b].revision = r /\ Stands(bookings[b])
  BY DEF NothingToCreate, Obsolete, Stands, Took
<1>2. CASE slots' = slots
  BY <1>2
<1>3. CASE slots[s].status = "BOOKED" /\ slots' = [slots EXCEPT ![s].event = e]
  <2>1. s \in Slots /\ \A c \in Bookings \ {b} : Stands(bookings[c]) => bookings[c].slot # s
    BY <1>1, HasItAlone
  <2>2. /\ slots \in [Slots -> SlotRow] /\ bookings \in [Bookings -> BookingRow]
        /\ slots[s] \in SlotRow /\ bookings[b] \in BookingRow /\ bookings[b].revision >= 1
    BY <1>1, <2>1 DEF Sound, Placed, Took
  <2>3. slots' = [slots EXCEPT ![s] = x] /\ bookings' = [bookings EXCEPT ![b] = bookings[b]]
    BY <1>3, <2>2
  <2>4. e \in EventKeys
    BY DEF EventKeys
  <2> HIDE DEF e
  <2>5. x \in SlotRow /\ x.status = "BOOKED" /\ x.event = e
    BY <1>3, <2>2, <2>4, SlotEventUpdate
  <2>6. x.event = <<b, bookings[b].revision>>
    BY <1>1, <2>5 DEF e
  <2> HIDE DEF x
  <2>7. Sound([slots EXCEPT ![s] = x], [bookings EXCEPT ![b] = bookings[b]])
    BY <1>1, <2>1, <2>2, <2>5, <2>6, BothMove DEF Took
  <2>8. QED BY <2>3, <2>7
<1>4. QED BY <1>2, <1>3 DEF CreateEvent

(***************************************************************************)
(* The calendar                                                            *)
(***************************************************************************)

LEMMA KeysOfEvents ==
  ASSUME NEW e \in EventKeys
  PROVE  <<"delete", e>> \in JobKeys /\ <<"create", e>> \in JobKeys
BY DEF JobKeys

\* An upsert that leaves an existing row alone.
LEMMA JobAdded ==
  ASSUME NEW jobs \in [JobKeys -> JobRow], NEW k \in JobKeys, NEW s \in Slots \cup {Nothing}, NEW t \in BOOLEAN
  PROVE  /\ WithJob(jobs, k, s, t) \in [JobKeys -> JobRow]
         /\ \A j \in JobKeys : j # k \/ jobs[j].status # "ABSENT" => WithJob(jobs, k, s, t)[j] = jobs[j]
         /\ jobs[k].status = "ABSENT" => WithJob(jobs, k, s, t)[k].status = "PENDING"
<1> DEFINE a == [NoJob EXCEPT !.status = "PENDING"]
           b == [a EXCEPT !.slot = s]
           c == [b EXCEPT !.targeted = t]
<1>1. a \in JobRow /\ a.status = "PENDING"
  BY RowValues DEF JobRow, JobStatus
<1>2. [NoJob EXCEPT !.status = "PENDING", !.slot = s, !.targeted = t] = c
  OBVIOUS
<1> HIDE DEF a
<1>3. b \in JobRow /\ b.status = "PENDING"
  BY <1>1 DEF JobRow
<1> HIDE DEF b
<1>4. c \in JobRow /\ c.status = "PENDING"
  BY <1>3 DEF JobRow
<1> HIDE DEF c
<1>5. WithJob(jobs, k, s, t) = IF jobs[k].status = "ABSENT" THEN [jobs EXCEPT ![k] = c] ELSE jobs
  BY <1>2 DEF WithJob
<1>6. QED BY <1>4, <1>5

\* The bookings move and jobs are added.
LEMMA MirrorKeeps ==
  ASSUME Mirror, UNCHANGED <<workers, events>>, calJobs' \in [JobKeys -> JobRow],
         \A k \in JobKeys : calJobs[k].status # "ABSENT" => calJobs'[k] = calJobs[k],
         \A k \in JobKeys : calJobs'[k].status = "ABSENT" => calJobs'[k] = calJobs[k],
         \A e \in EventKeys : calJobs'[<<"delete", e>>].status # "ABSENT" => e[2] < bookings'[e[1]].revision,
         \A e \in EventKeys : events[e] = "live" /\ Current(e) => Current(e)' \/ LeftToDelete(e)'
  PROVE  Mirror'
<1>1. ASSUME NEW e \in EventKeys, events[e] = "live"
      PROVE  calJobs'[<<"create", e>>].targeted = TRUE /\ (Current(e)' \/ LeftToDelete(e)')
  <2>1. calJobs[<<"create", e>>].targeted = TRUE /\ (Current(e) \/ LeftToDelete(e))
    BY <1>1 DEF Mirror
  <2>2. calJobs'[<<"create", e>>] = calJobs[<<"create", e>>]
    BY <2>1, KeysOfEvents DEF Mirror
  <2>3. CASE LeftToDelete(e)
    BY <2>1, <2>2, <2>3, KeysOfEvents DEF LeftToDelete
  <2>4. QED BY <1>1, <2>1, <2>2, <2>3
<1>2. ASSUME NEW w \in CalendarWorkers PROVE Honest(workers[w])'
  <2>1. Honest(workers[w]) /\ workers[w] \in {Idle} \cup Work
    BY DEF Mirror
  <2>2. workers[w].pc # "idle" => workers[w].key \in JobKeys
    BY <2>1, RowValues DEF Work
  <2>3. QED BY <2>1, <2>2 DEF Honest
<1>3. QED BY <1>1, <1>2 DEF Mirror

\* The bookings move, and none ends or is revised.
LEMMA MirrorStays ==
  ASSUME Mirror, UNCHANGED <<calJobs, workers, events>>,
         \A b \in Bookings : /\ bookings'[b].revision = bookings[b].revision
                             /\ bookings[b].status \in Took => bookings'[b].status \in Took
  PROVE  Mirror'
<1>1. \A e \in EventKeys : e[1] \in Bookings
  BY DEF EventKeys
<1>2. QED BY <1>1, MirrorKeeps DEF Mirror, Current

\* A revision of a booking.
LEMMA RevisionMoves ==
  ASSUME Mirror, Sound(slots, bookings), NEW b \in Bookings,
         bookings'[b].revision = bookings[b].revision + 1,
         \A c \in Bookings \ {b} : bookings'[c] = bookings[c],
         UNCHANGED <<workers, events>>, calJobs' \in [JobKeys -> JobRow],
         \A k \in JobKeys : calJobs[k].status # "ABSENT" => calJobs'[k] = calJobs[k],
         \A k \in JobKeys : calJobs'[k].status = "ABSENT" => calJobs'[k] = calJobs[k],
         \A e \in EventKeys : calJobs'[<<"delete", e>>].status # "ABSENT"
                                => calJobs[<<"delete", e>>].status # "ABSENT" \/ e = RevisionKey(b),
         bookings[b].status \in Took /\ events[RevisionKey(b)] = "live"
           => calJobs'[<<"delete", RevisionKey(b)>>].status = "PENDING"
  PROVE  Mirror'
<1>1. \A c \in Bookings : bookings[c].revision \in Nat
  BY ConsultationAssumption DEF Sound, BookingRow
<1>2. \A e \in EventKeys : e = <<e[1], e[2]>> /\ e[1] \in Bookings /\ e[2] \in Nat
  BY ConsultationAssumption DEF EventKeys, Revisions
<1>3. ASSUME NEW e \in EventKeys, calJobs'[<<"delete", e>>].status # "ABSENT"
      PROVE  e[2] < bookings'[e[1]].revision
  <2>1. CASE calJobs[<<"delete", e>>].status # "ABSENT"
    <3>1. e[2] < bookings[e[1]].revision
      BY <2>1 DEF Mirror
    <3>2. CASE e[1] = b
      BY <1>1, <1>2, <3>1, <3>2
    <3>3. CASE e[1] # b
      BY <1>2, <3>1, <3>3
    <3>4. QED BY <3>2, <3>3
  <2>2. CASE e = RevisionKey(b)
    <3>1. e[1] = b /\ e[2] = bookings[b].revision
      BY <2>2 DEF RevisionKey
    <3>2. QED BY <1>1, <3>1
  <2>3. QED BY <1>3, <2>1, <2>2
<1>4. ASSUME NEW e \in EventKeys, events[e] = "live", Current(e) PROVE Current(e)' \/ LeftToDelete(e)'
  <2>1. CASE e[1] = b
    <3>1. e = RevisionKey(b)
      BY <1>2, <1>4, <2>1 DEF Current, RevisionKey
    <3>2. calJobs'[<<"delete", e>>].status = "PENDING"
      BY <1>4, <2>1, <3>1 DEF Current
    <3>3. QED BY <3>2 DEF LeftToDelete
  <2>2. CASE e[1] # b
    BY <1>2, <1>4, <2>2 DEF Current
  <2>3. QED BY <2>1, <2>2
<1>5. QED BY <1>3, <1>4, MirrorKeeps

LEMMA Deleting ==
  ASSUME Mirror, Sound(slots, bookings), NEW b \in Bookings, bookings[b].status \in Took
  PROVE  /\ RevisionKey(b) \in EventKeys
         /\ EnqueueDelete(b) \in [JobKeys -> JobRow]
         /\ \A k \in JobKeys : k # <<"delete", RevisionKey(b)>> \/ calJobs[k].status # "ABSENT"
                                 => EnqueueDelete(b)[k] = calJobs[k]
         /\ EnqueueDelete(b)[<<"delete", RevisionKey(b)>>].status = "ABSENT"
              => EnqueueDelete(b)[<<"delete", RevisionKey(b)>>] = calJobs[<<"delete", RevisionKey(b)>>]
         /\ events[RevisionKey(b)] = "live" => EnqueueDelete(b)[<<"delete", RevisionKey(b)>>].status = "PENDING"
<1> DEFINE e == RevisionKey(b)
           k == <<"delete", e>>
<1>1. bookings[b].revision \in 1 .. MaxRevision
  BY ConsultationAssumption DEF Sound, BookingRow, Placed
<1>2. e \in EventKeys /\ e[1] = b /\ e[2] = bookings[b].revision
  BY <1>1 DEF RevisionKey, EventKeys, Revisions
<1>3. k \in JobKeys
  BY <1>2, KeysOfEvents
<1>4. calJobs[k].status = "ABSENT"
  <2>1. calJobs[k].status # "ABSENT" => e[2] < bookings[e[1]].revision
    BY <1>2 DEF Mirror
  <2>2. ~(bookings[b].revision < bookings[b].revision)
    BY <1>1, ConsultationAssumption
  <2>3. QED BY <1>2, <2>1, <2>2
<1>5. events[e] = "live" => HadCalendar(b)
  BY <1>2 DEF Mirror, HadCalendar
<1>6. calJobs \in [JobKeys -> JobRow]
  BY DEF Mirror
<1> DEFINE j == WithJob(calJobs, k, Nothing, TRUE)
<1>7. /\ j \in [JobKeys -> JobRow] /\ j[k].status = "PENDING"
      /\ \A i \in JobKeys : i # k \/ calJobs[i].status # "ABSENT" => j[i] = calJobs[i]
  <2>1. Nothing \in Slots \cup {Nothing} /\ TRUE \in BOOLEAN
    OBVIOUS
  <2> HIDE DEF k
  <2>2. QED BY <1>3, <1>4, <1>6, <2>1, JobAdded
<1>8. EnqueueDelete(b) = IF HadCalendar(b) THEN j ELSE calJobs
  BY DEF EnqueueDelete
<1> HIDE DEF j
<1>9. QED BY <1>2, <1>4, <1>5, <1>6, <1>7, <1>8

LEMMA VerifyMirror ==
  ASSUME Mirror, Sound(slots, bookings), host.targeted \in BOOLEAN, NEW b \in Bookings, Verify(b)
  PROVE  Mirror'
<1>1. /\ bookings[b].status = "PENDING" /\ bookings[b].revision = 0 /\ bookings[b].slot \in Slots
      /\ UNCHANGED <<workers, events>>
  BY VerifySound DEF Verify, UnchangedCalendar
<1>2. /\ bookings \in [Bookings -> BookingRow] /\ calJobs \in [JobKeys -> JobRow]
      /\ bookings[b] \in BookingRow /\ bookings[b].status \notin Took
  BY <1>1 DEF Sound, Mirror, Took
<1>3. CASE bookings' = [bookings EXCEPT ![b].status = "EXPIRED"] /\ UNCHANGED calJobs
  <2> DEFINE y == [bookings[b] EXCEPT !.status = "EXPIRED"]
  <2>1. bookings' = [bookings EXCEPT ![b] = y]
    BY <1>2, <1>3
  <2>2. y.revision = bookings[b].revision
    BY <1>2, BookingStatusUpdate DEF BookingStatus
  <2> HIDE DEF y
  <2>3. QED BY <1>1, <1>2, <1>3, <2>1, <2>2, MirrorStays
<1>4. CASE /\ bookings' = [bookings EXCEPT ![b].status = "CONFIRMED", ![b].revision = @ + 1]
           /\ calJobs' = EnqueueCreate(calJobs, b, bookings[b].revision + 1, bookings[b].slot)
  <2> DEFINE k == <<"create", <<b, 1>>>>
             a == [bookings[b] EXCEPT !.status = "CONFIRMED"]
             n == bookings[b].revision + 1
             y == [a EXCEPT !.revision = n]
  <2>1. k \in JobKeys /\ \A e \in EventKeys : <<"delete", e>> # k
    BY ConsultationAssumption DEF JobKeys, EventKeys, Revisions
  <2>2. calJobs' = WithJob(calJobs, k, bookings[b].slot, host.targeted)
    BY <1>1, <1>4 DEF EnqueueCreate
  <2>3. bookings' = [bookings EXCEPT ![b] = y]
    BY <1>2, <1>4
  <2>4. n \in 0 .. MaxRevision
    BY <1>1, ConsultationAssumption
  <2> HIDE DEF k, n
  <2>5. a \in BookingRow
    BY <1>2, BookingStatusUpdate DEF BookingStatus
  <2> HIDE DEF a
  <2>6. y.revision = n
    BY <2>4, <2>5, BookingRevisionUpdate
  <2> HIDE DEF y
  <2>7. bookings'[b].revision = bookings[b].revision + 1 /\ \A c \in Bookings \ {b} : bookings'[c] = bookings[c]
    BY <1>2, <2>3, <2>6 DEF n
  <2>8. /\ calJobs' \in [JobKeys -> JobRow]
        /\ \A j \in JobKeys : j # k \/ calJobs[j].status # "ABSENT" => calJobs'[j] = calJobs[j]
        /\ calJobs'[k].status # "ABSENT"
    BY <1>1, <1>2, <2>1, <2>2, JobAdded
  <2>9. \A e \in EventKeys : calJobs'[<<"delete", e>>] = calJobs[<<"delete", e>>]
    BY <2>1, <2>8, KeysOfEvents
  <2>10. QED BY <1>1, <1>2, <2>7, <2>8, <2>9, RevisionMoves
<1>5. QED BY <1>3, <1>4 DEF Verify

LEMMA CancelMirror ==
  ASSUME Mirror, Sound(slots, bookings), NEW b \in Bookings, Cancel(b)
  PROVE  Mirror'
<1>1. /\ Changeable(b) /\ bookings[b].revision < MaxRevision /\ UNCHANGED <<workers, events>>
      /\ calJobs' = EnqueueDelete(b)
      /\ bookings' = [bookings EXCEPT ![b].status = "CANCELED", ![b].revision = @ + 1]
  BY DEF Cancel, UnchangedCalendar
<1>2. bookings[b].status \in Took
  BY <1>1 DEF Changeable, Took
<1>3. PICK y \in BookingRow : bookings' = [bookings EXCEPT ![b] = y] /\ y.revision = bookings[b].revision + 1
  BY <1>1, Leaving
<1>4. bookings'[b].revision = bookings[b].revision + 1 /\ \A c \in Bookings \ {b} : bookings'[c] = bookings[c]
  BY <1>3 DEF Sound
<1> DEFINE k == <<"delete", RevisionKey(b)>>
<1>5. /\ RevisionKey(b) \in EventKeys /\ calJobs' \in [JobKeys -> JobRow]
      /\ \A j \in JobKeys : j # k \/ calJobs[j].status # "ABSENT" => calJobs'[j] = calJobs[j]
      /\ calJobs'[k].status = "ABSENT" => calJobs'[k] = calJobs[k]
      /\ events[RevisionKey(b)] = "live" => calJobs'[k].status = "PENDING"
  BY <1>1, <1>2, Deleting
<1>6. \A e \in EventKeys : <<"delete", e>> = k => e = RevisionKey(b)
  OBVIOUS
<1>7. \A e \in EventKeys : calJobs'[<<"delete", e>>].status # "ABSENT"
                             => calJobs[<<"delete", e>>].status # "ABSENT" \/ e = RevisionKey(b)
  BY <1>5, <1>6, KeysOfEvents
<1>8. QED BY <1>1, <1>4, <1>5, <1>7, RevisionMoves

LEMMA RescheduleMirror ==
  ASSUME Mirror, Sound(slots, bookings), host.targeted \in BOOLEAN, NEW b \in Bookings, NEW s \in Slots,
         Reschedule(b, s)
  PROVE  Mirror'
<1>1. UNCHANGED <<workers, events>>
  BY DEF Reschedule, UnchangedCalendar
<1>2. CASE UNCHANGED <<bookings, calJobs>>
  BY <1>1, <1>2, MirrorStays
<1>3. CASE /\ Changeable(b) /\ bookings[b].revision < MaxRevision
           /\ bookings' = [bookings EXCEPT ![b].slot = s, ![b].revision = @ + 1]
           /\ calJobs' = EnqueueCreate(EnqueueDelete(b), b, bookings[b].revision + 1, s)
  <2> DEFINE n == bookings[b].revision + 1
             c == <<"create", <<b, n>>>>
             k == <<"delete", RevisionKey(b)>>
             jobs == EnqueueDelete(b)
             a == [bookings[b] EXCEPT !.slot = s]
             y == [a EXCEPT !.revision = n]
  <2>1. bookings[b].status \in Took /\ n \in 1 .. MaxRevision /\ n \in 0 .. MaxRevision
    <3>1. bookings[b].revision + 1 \in 1 .. MaxRevision
      BY <1>3, Leaving
    <3>2. bookings[b].status = "CONFIRMED"
      BY <1>3 DEF Changeable
    <3>3. QED BY <3>1, <3>2, ConsultationAssumption DEF Took
  <2>2. bookings \in [Bookings -> BookingRow] /\ bookings[b] \in BookingRow
    BY DEF Sound
  <2>3. bookings' = [bookings EXCEPT ![b] = y]
    BY <1>3, <2>2
  <2>4. c \in JobKeys /\ \A e \in EventKeys : <<"delete", e>> # c
    BY <2>1 DEF JobKeys, EventKeys, Revisions
  <2>5. /\ RevisionKey(b) \in EventKeys /\ jobs \in [JobKeys -> JobRow]
        /\ \A j \in JobKeys : j # k \/ calJobs[j].status # "ABSENT" => jobs[j] = calJobs[j]
        /\ jobs[k].status = "ABSENT" => jobs[k] = calJobs[k]
        /\ events[RevisionKey(b)] = "live" => jobs[k].status = "PENDING"
    BY <2>1, Deleting
  <2>6. calJobs' = WithJob(jobs, c, s, host.targeted)
    BY <1>3 DEF EnqueueCreate
  <2>a. k \in JobKeys /\ k # c /\ \A e \in EventKeys : <<"delete", e>> = k => e = RevisionKey(b)
    BY <2>4, <2>5, KeysOfEvents
  <2> HIDE DEF n
  <2>7. a \in BookingRow
    BY <2>2, BookingSlotUpdate
  <2> HIDE DEF a
  <2>8. y.revision = n
    BY <2>1, <2>7, BookingRevisionUpdate
  <2> HIDE DEF y
  <2>9. bookings'[b].revision = bookings[b].revision + 1 /\ \A d \in Bookings \ {b} : bookings'[d] = bookings[d]
    BY <2>2, <2>3, <2>8 DEF n
  <2> HIDE DEF c, jobs
  <2>10. /\ calJobs' \in [JobKeys -> JobRow]
         /\ \A j \in JobKeys : j # c \/ jobs[j].status # "ABSENT" => calJobs'[j] = jobs[j]
         /\ jobs[c].status = "ABSENT" => calJobs'[c].status = "PENDING"
    BY <2>4, <2>5, <2>6, JobAdded
  <2>b. calJobs'[c].status # "ABSENT"
    BY <2>4, <2>10
  <2> HIDE DEF k
  <2>11. \A j \in JobKeys : calJobs[j].status # "ABSENT" => calJobs'[j] = calJobs[j]
    BY <2>5, <2>10
  <2>12. \A j \in JobKeys : calJobs'[j].status = "ABSENT" => calJobs'[j] = calJobs[j]
    BY <2>5, <2>10, <2>a, <2>b
  <2>13. \A e \in EventKeys : calJobs'[<<"delete", e>>].status # "ABSENT"
                                => calJobs[<<"delete", e>>].status # "ABSENT" \/ e = RevisionKey(b)
    BY <2>4, <2>5, <2>10, <2>a, KeysOfEvents
  <2>14. events[RevisionKey(b)] = "live" => calJobs'[<<"delete", RevisionKey(b)>>].status = "PENDING"
    BY <2>5, <2>10, <2>a DEF k
  <2>15. QED BY <1>1, <2>9, <2>10, <2>11, <2>12, <2>13, <2>14, RevisionMoves
<1>4. QED BY <1>2, <1>3 DEF Reschedule

\* The bookings whose end is no end of a meeting.
LEMMA OthersMirror ==
  ASSUME Mirror, Sound(slots, bookings),
         \/ ReleaseExpiredHolds
         \/ \E b \in Bookings, s \in Slots : Book(b, s)
         \/ \E b \in Bookings, st \in {"COMPLETED", "NO_SHOW"} : CloseBooking(b, st)
  PROVE  Mirror'
<1>1. UNCHANGED <<calJobs, workers, events>>
  BY DEF ReleaseExpiredHolds, Book, CloseBooking, UnchangedCalendar
<1>2. \A b \in Bookings : /\ BookingsReleased[b].revision = bookings[b].revision
                          /\ bookings[b].status \in Took => BookingsReleased[b].status \in Took
  BY Released DEF Took
<1>3. CASE bookings' = BookingsReleased
  BY <1>1, <1>2, <1>3, MirrorStays
<1>4. ASSUME NEW b \in Bookings, NEW s \in Slots, bookings[b].status = "NONE",
             bookings' = [BookingsReleased EXCEPT ![b].status = "PENDING", ![b].slot = s]
      PROVE  Mirror'
  <2> DEFINE bk == BookingsReleased
             a == [bk[b] EXCEPT !.status = "PENDING"]
             y == [a EXCEPT !.slot = s]
  <2>1. bk \in [Bookings -> BookingRow] /\ bk[b] \in BookingRow
    BY Released DEF Sound
  <2>2. bookings' = [bk EXCEPT ![b] = y]
    BY <1>4, <2>1
  <2>3. \A c \in Bookings : /\ bk[c].revision = bookings[c].revision
                            /\ bookings[c].status \in Took => bk[c].status \in Took
    BY <1>2
  <2> HIDE DEF bk
  <2>4. a \in BookingRow /\ a.revision = bk[b].revision
    BY <2>1, BookingStatusUpdate DEF BookingStatus
  <2> HIDE DEF a
  <2>5. y.revision = bk[b].revision
    BY <2>4, BookingSlotUpdate
  <2> HIDE DEF y
  <2>6. bookings[b].status \notin Took
    BY <1>4 DEF Took
  <2>7. bookings'[b].revision = bk[b].revision /\ \A c \in Bookings \ {b} : bookings'[c] = bk[c]
    BY <2>1, <2>2, <2>5
  <2>8. \A c \in Bookings : /\ bookings'[c].revision = bookings[c].revision
                            /\ bookings[c].status \in Took => bookings'[c].status \in Took
    BY <2>3, <2>6, <2>7
  <2>9. QED BY <1>1, <2>8, MirrorStays
<1>5. ASSUME NEW b \in Bookings, NEW st \in {"COMPLETED", "NO_SHOW"}, CloseBooking(b, st)
      PROVE  Mirror'
  <2> DEFINE y == [bookings[b] EXCEPT !.status = st]
  <2>1. bookings \in [Bookings -> BookingRow] /\ bookings[b] \in BookingRow /\ st \in BookingStatus /\ st \in Took
    BY DEF Sound, BookingStatus, Took
  <2>2. bookings' = [bookings EXCEPT ![b] = y]
    BY <1>5, <2>1 DEF CloseBooking
  <2>3. y.status = st /\ y.revision = bookings[b].revision
    BY <2>1, BookingStatusUpdate
  <2> HIDE DEF y
  <2>4. bookings'[b].status = st /\ bookings'[b].revision = bookings[b].revision
        /\ \A c \in Bookings \ {b} : bookings'[c] = bookings[c]
    BY <2>1, <2>2, <2>3
  <2>5. QED BY <1>1, <2>1, <2>4, MirrorStays
<1>6. QED BY <1>3, <1>4, <1>5 DEF ReleaseExpiredHolds, Book

\* The workers.
LEMMA WorkerType ==
  ASSUME Mirror, NEW w \in CalendarWorkers, workers[w].pc # "idle"
  PROVE  /\ workers[w] \in Work /\ workers[w].key \in JobKeys
         /\ calJobs[workers[w].key].status # "ABSENT" /\ calJobs[workers[w].key] \in JobRow
<1>1. workers[w] \in Work
  BY RowValues DEF Mirror
<1>2. workers[w].key \in JobKeys
  BY <1>1 DEF Work
<1>3. QED BY <1>1, <1>2 DEF Mirror, Honest

LEMMA PcOfWork ==
  ASSUME NEW x \in Work, NEW p \in {"claim", "run", "done", "failed"}
  PROVE  /\ [x EXCEPT !.pc = p] \in Work /\ [x EXCEPT !.pc = p].pc = p
         /\ [x EXCEPT !.pc = p].key = x.key
BY DEF Work

\* A worker moves, and the rest stays.
LEMMA WorkerMoves ==
  ASSUME Mirror, NEW w \in CalendarWorkers, NEW x \in {Idle} \cup Work, Honest(x),
         workers' = [workers EXCEPT ![w] = x], UNCHANGED <<bookings, calJobs, events>>
  PROVE  Mirror'
<1>1. /\ workers' \in [CalendarWorkers -> {Idle} \cup Work] /\ workers'[w] = x
      /\ \A v \in CalendarWorkers \ {w} : workers'[v] = workers[v]
  BY DEF Mirror
<1>2. ASSUME NEW v \in CalendarWorkers PROVE Honest(workers[v])'
  <2>1. Honest(workers'[v])
    BY <1>1 DEF Mirror
  <2>2. QED BY <2>1 DEF Honest
<1>3. QED BY <1>1, <1>2 DEF Mirror, Current, LeftToDelete

\* A job moves to another status, and with it a worker.
LEMMA JobMoves ==
  ASSUME Mirror, NEW k \in JobKeys, NEW row \in JobRow, calJobs' = [calJobs EXCEPT ![k] = row],
         calJobs[k].status # "ABSENT", row.status # "ABSENT", row.targeted = calJobs[k].targeted,
         row.status = "SUCCEEDED" /\ k[1] = "delete" => calJobs[k].status = "SUCCEEDED" \/ events[k[2]] # "live",
         NEW w \in CalendarWorkers, NEW x \in {Idle} \cup Work, Honest(x),
         workers' = [workers EXCEPT ![w] = x] \/ workers' = workers,
         UNCHANGED <<bookings, events>>
  PROVE  Mirror'
<1>1. /\ calJobs' \in [JobKeys -> JobRow] /\ calJobs'[k] = row
      /\ \A j \in JobKeys \ {k} : calJobs'[j] = calJobs[j]
      /\ workers' \in [CalendarWorkers -> {Idle} \cup Work]
      /\ \A v \in CalendarWorkers : workers'[v] \in {workers[v], x}
  BY DEF Mirror
<1>2. ASSUME NEW v \in CalendarWorkers PROVE Honest(workers[v])'
  <2>1. Honest(workers'[v]) /\ workers'[v] \in {Idle} \cup Work
    BY <1>1 DEF Mirror
  <2>2. workers'[v].pc # "idle" => workers'[v].key \in JobKeys
    BY <2>1, RowValues DEF Work
  <2>3. QED BY <1>1, <2>1, <2>2 DEF Honest
<1>3. ASSUME NEW e \in EventKeys
      PROVE  /\ calJobs'[<<"delete", e>>].status # "ABSENT" => e[2] < bookings'[e[1]].revision
             /\ events'[e] = "live" => calJobs'[<<"create", e>>].targeted = TRUE
             /\ events'[e] = "live" => Current(e)' \/ LeftToDelete(e)'
  <2>1. /\ calJobs[<<"delete", e>>].status # "ABSENT" => e[2] < bookings[e[1]].revision
        /\ events[e] = "live" => calJobs[<<"create", e>>].targeted = TRUE
        /\ events[e] = "live" => Current(e) \/ LeftToDelete(e)
    BY DEF Mirror
  <2>2. <<"delete", e>> \in JobKeys /\ <<"create", e>> \in JobKeys
    BY KeysOfEvents
  <2>3. calJobs'[<<"delete", e>>].status # "ABSENT" => e[2] < bookings'[e[1]].revision
    BY <1>1, <2>1, <2>2
  <2>4. events'[e] = "live" => calJobs'[<<"create", e>>].targeted = TRUE
    BY <1>1, <2>1, <2>2
  <2>5. events'[e] = "live" => Current(e)' \/ LeftToDelete(e)'
    <3>1. CASE k = <<"delete", e>>
      <4>1. k[1] = "delete" /\ k[2] = e
        BY <3>1
      <4>2. row.status \in {"PENDING", "RUNNING", "FAILED", "SUCCEEDED"}
        BY DEF JobRow, JobStatus
      <4>3. QED BY <1>1, <2>1, <3>1, <4>1, <4>2 DEF Current, LeftToDelete
    <3>2. CASE k # <<"delete", e>>
      BY <1>1, <2>1, <2>2, <3>2 DEF Current, LeftToDelete
    <3>3. QED BY <3>1, <3>2
  <2>6. QED BY <2>3, <2>4, <2>5
<1>4. ASSUME NEW j \in JobKeys, calJobs'[j].status = "ABSENT" PROVE calJobs'[j].targeted = FALSE
  BY <1>1, <1>4 DEF Mirror
<1>5. QED BY <1>1, <1>2, <1>3, <1>4 DEF Mirror

LEMMA JobStatusUpdate ==
  ASSUME NEW row \in JobRow, NEW st \in JobStatus
  PROVE  /\ [row EXCEPT !.status = st] \in JobRow /\ [row EXCEPT !.status = st].status = st
         /\ [row EXCEPT !.status = st].targeted = row.targeted
BY DEF JobRow

\* The status that a mark, a recovery or a claim gives.
LEMMA StatusMoves ==
  ASSUME Mirror, NEW k \in JobKeys, NEW st \in {"PENDING", "RUNNING", "FAILED", "SUCCEEDED"},
         calJobs' = [calJobs EXCEPT ![k].status = st], calJobs[k].status # "ABSENT",
         st = "SUCCEEDED" /\ k[1] = "delete" => calJobs[k].status = "SUCCEEDED" \/ events[k[2]] # "live",
         NEW w \in CalendarWorkers, NEW x \in {Idle} \cup Work, Honest(x),
         workers' = [workers EXCEPT ![w] = x] \/ workers' = workers,
         UNCHANGED <<bookings, events>>
  PROVE  Mirror'
<1> DEFINE row == [calJobs[k] EXCEPT !.status = st]
<1>1. calJobs \in [JobKeys -> JobRow] /\ calJobs[k] \in JobRow /\ st \in JobStatus
  BY DEF Mirror, JobStatus
<1>2. calJobs' = [calJobs EXCEPT ![k] = row]
  BY <1>1
<1>3. row \in JobRow /\ row.status = st /\ row.targeted = calJobs[k].targeted
  BY <1>1, JobStatusUpdate
<1> HIDE DEF row
<1>4. QED BY <1>2, <1>3, JobMoves

LEMMA IdleIsHonest == Honest(Idle)
BY RowValues DEF Honest

LEMMA RecoverJobMirror ==
  ASSUME Mirror, NEW k \in JobKeys, RecoverCalendarJob(k)
  PROVE  Mirror'
<1> DEFINE st == IF calJobs[k].attempts < MaxAttempts THEN "PENDING" ELSE "FAILED"
<1>1. calJobs[k].status = "RUNNING" /\ UNCHANGED <<workers, bookings, events>>
      /\ calJobs' = [calJobs EXCEPT ![k] = Requeued(calJobs[k])]
  BY DEF RecoverCalendarJob
<1>2. calJobs' = [calJobs EXCEPT ![k] = [calJobs[k] EXCEPT !.status = st]]
  BY <1>1 DEF Requeued
<1>3. calJobs[k] \in JobRow /\ st \in JobStatus
  BY DEF Mirror, JobStatus
<1> DEFINE row == [calJobs[k] EXCEPT !.status = st]
<1>4. row \in JobRow /\ row.status = st /\ row.targeted = calJobs[k].targeted
  BY <1>3, JobStatusUpdate
<1>5. st \in {"PENDING", "FAILED"}
  OBVIOUS
<1>6. calJobs' = [calJobs EXCEPT ![k] = row]
  BY <1>2
<1> HIDE DEF st, row
<1>7. ASSUME NEW j \in JobKeys
      PROVE  /\ calJobs'[j] = IF j = k THEN row ELSE calJobs[j]
             /\ calJobs'[j].status = "ABSENT" <=> calJobs[j].status = "ABSENT"
             /\ calJobs'[j].targeted = calJobs[j].targeted
             /\ calJobs[j].status \in {"PENDING", "RUNNING", "FAILED"} => calJobs'[j].status \in {"PENDING", "RUNNING", "FAILED"}
  <2>1. calJobs'[j] = IF j = k THEN row ELSE calJobs[j]
    BY <1>6 DEF Mirror
  <2>2. QED BY <1>1, <1>4, <1>5, <2>1
<1>8. calJobs' \in [JobKeys -> JobRow]
  BY <1>4, <1>6 DEF Mirror
<1>9. ASSUME NEW e \in EventKeys
      PROVE  /\ calJobs'[<<"delete", e>>].status # "ABSENT" => e[2] < bookings'[e[1]].revision
             /\ events'[e] = "live" => calJobs'[<<"create", e>>].targeted = TRUE
             /\ events'[e] = "live" => Current(e)' \/ LeftToDelete(e)'
  BY <1>1, <1>7, KeysOfEvents DEF Mirror, Current, LeftToDelete
<1>10. ASSUME NEW v \in CalendarWorkers PROVE Honest(workers[v])'
  <2>1. Honest(workers[v]) /\ (workers[v].pc # "idle" => workers[v].key \in JobKeys)
    BY WorkerType DEF Mirror
  <2>2. QED BY <1>1, <1>7, <2>1 DEF Honest
<1>11. \A j \in JobKeys : calJobs'[j].status = "ABSENT" => calJobs'[j].targeted = FALSE
  BY <1>7 DEF Mirror
<1>12. QED BY <1>1, <1>8, <1>9, <1>10, <1>11 DEF Mirror

LEMMA SelectJobMirror ==
  ASSUME Mirror, NEW w \in CalendarWorkers, NEW k \in JobKeys, SelectCalendarJob(w, k)
  PROVE  Mirror'
<1> DEFINE x == [pc |-> "claim", key |-> k, attempts |-> calJobs[k].attempts]
<1>1. calJobs[k].status = "PENDING" /\ workers' = [workers EXCEPT ![w] = x] /\ UNCHANGED <<bookings, calJobs, events>>
  BY DEF SelectCalendarJob
<1>2. calJobs[k].attempts \in Nat
  BY DEF Mirror, JobRow
<1>3. x \in Work /\ x.pc = "claim" /\ x.key = k
  BY <1>2 DEF Work
<1> HIDE DEF x
<1>4. Honest(x)
  BY <1>1, <1>3 DEF Honest
<1>5. QED BY <1>1, <1>3, <1>4, WorkerMoves

LEMMA ClaimJobMirror ==
  ASSUME Mirror, NEW w \in CalendarWorkers, ClaimCalendarJob(w)
  PROVE  Mirror'
<1> DEFINE k == workers[w].key
<1>1. workers[w].pc = "claim" /\ UNCHANGED <<bookings, events>>
  BY DEF ClaimCalendarJob
<1>2. workers[w] \in Work /\ k \in JobKeys /\ calJobs[k] \in JobRow
  BY <1>1, WorkerType
<1>3. CASE calJobs[k].status = "PENDING"
  <2> DEFINE x == [workers[w] EXCEPT !.pc = "run"]
             a == [calJobs[k] EXCEPT !.status = "RUNNING"]
             row == [a EXCEPT !.attempts = calJobs[k].attempts + 1]
  <2>1. workers' = [workers EXCEPT ![w].pc = "run"]
        /\ calJobs' = [calJobs EXCEPT ![k].status = "RUNNING", ![k].attempts = @ + 1]
    BY <1>3 DEF ClaimCalendarJob
  <2>2. workers' = [workers EXCEPT ![w] = x]
    BY <2>1 DEF Mirror
  <2>3. x \in Work /\ x.pc = "run" /\ x.key = k
    BY <1>2, PcOfWork
  <2>4. calJobs' = [calJobs EXCEPT ![k] = row]
    BY <1>2, <2>1 DEF Mirror
  <2> HIDE DEF x
  <2>5. a \in JobRow /\ a.status = "RUNNING" /\ a.targeted = calJobs[k].targeted
    BY <1>2, JobStatusUpdate DEF JobStatus
  <2>6. calJobs[k].attempts + 1 \in Nat
    BY <1>2 DEF JobRow
  <2> HIDE DEF a
  <2>7. row \in JobRow /\ row.status = "RUNNING" /\ row.targeted = calJobs[k].targeted
    BY <2>5, <2>6 DEF JobRow
  <2> HIDE DEF row
  <2>8. Honest(x)
    BY <1>3, <2>3 DEF Honest
  <2> HIDE DEF k
  <2>9. QED BY <1>1, <1>2, <1>3, <2>2, <2>3, <2>4, <2>7, <2>8, JobMoves
<1>4. CASE calJobs[k].status # "PENDING"
  <2>1. workers' = [workers EXCEPT ![w] = Idle] /\ UNCHANGED calJobs
    BY <1>4 DEF ClaimCalendarJob
  <2>2. QED BY <1>1, <2>1, IdleIsHonest, WorkerMoves
<1>5. QED BY <1>3, <1>4

LEMMA MarkMirror ==
  ASSUME Mirror, NEW w \in CalendarWorkers, CompleteCalendarJob(w) \/ FailCalendarJob(w)
  PROVE  Mirror'
<1> DEFINE k == workers[w].key
<1>1. /\ workers[w].pc \in {"done", "failed"} /\ UNCHANGED <<bookings, events>>
      /\ workers' = [workers EXCEPT ![w] = Idle]
      /\ \E st \in {"SUCCEEDED", "FAILED", "PENDING"} :
           MarkIfRunning(k, st) /\ (st = "SUCCEEDED" => workers[w].pc = "done")
  BY DEF CompleteCalendarJob, FailCalendarJob
<1>2. PICK st \in {"SUCCEEDED", "FAILED", "PENDING"} :
        MarkIfRunning(k, st) /\ (st = "SUCCEEDED" => workers[w].pc = "done")
  BY <1>1
<1>3. workers[w] \in Work /\ k \in JobKeys /\ calJobs[k] \in JobRow /\ calJobs[k].status # "ABSENT" /\ Honest(workers[w])
  BY <1>1, WorkerType DEF Mirror
<1>4. st = "SUCCEEDED" /\ k[1] = "delete" => events[k[2]] # "live"
  BY <1>2, <1>3 DEF Honest
<1> DEFINE to == IF calJobs[k].status = "RUNNING" THEN st ELSE calJobs[k].status
<1>5. calJobs' = [calJobs EXCEPT ![k].status = to]
  BY <1>2, <1>3 DEF MarkIfRunning, Mirror
<1>6. to \in {"PENDING", "RUNNING", "FAILED", "SUCCEEDED"}
  BY <1>3 DEF JobRow, JobStatus
<1>7. to = "SUCCEEDED" /\ k[1] = "delete" => calJobs[k].status = "SUCCEEDED" \/ events[k[2]] # "live"
  BY <1>4
<1> HIDE DEF k, to
<1>8. QED BY <1>1, <1>3, <1>5, <1>6, <1>7, IdleIsHonest, StatusMoves

LEMMA CrashMirror ==
  ASSUME Mirror, NEW w \in CalendarWorkers, CalendarCrash(w)
  PROVE  Mirror'
BY IdleIsHonest, WorkerMoves DEF CalendarCrash

\* An event appears for the present revision of a booking, or one is deleted.
LEMMA ReportMoves ==
  ASSUME Mirror, NEW w \in CalendarWorkers, workers[w].pc = "run", NEW out \in {"done", "failed"}, Reports(w, out),
         UNCHANGED <<bookings, calJobs>>, events' \in [EventKeys -> {"none", "live", "deleted"}],
         \A e \in EventKeys : events'[e] = "live" =>
           events[e] = "live" \/ (Current(e) /\ calJobs[<<"create", e>>].targeted = TRUE),
         out = "done" /\ workers[w].key[1] = "delete" => events'[workers[w].key[2]] # "live"
  PROVE  Mirror'
<1> DEFINE x == [workers[w] EXCEPT !.pc = out]
           k == workers[w].key
<1>1. workers[w] \in Work /\ k \in JobKeys /\ calJobs[k].status # "ABSENT"
  BY WorkerType
<1>2. workers' = [workers EXCEPT ![w] = x]
  BY DEF Reports, Mirror
<1>2a. out \in {"claim", "run", "done", "failed"}
  OBVIOUS
<1>3. x \in Work /\ x.pc = out /\ x.key = k
  BY <1>1, <1>2a, PcOfWork
<1> HIDE DEF x
<1>4. /\ workers' \in [CalendarWorkers -> {Idle} \cup Work] /\ workers'[w] = x
      /\ \A v \in CalendarWorkers \ {w} : workers'[v] = workers[v]
  BY <1>2, <1>3 DEF Mirror
<1>5. ASSUME NEW e \in EventKeys, calJobs[<<"delete", e>>].status # "ABSENT", events'[e] = "live"
      PROVE  events[e] = "live"
  <2>1. e[2] < bookings[e[1]].revision
    BY <1>5 DEF Mirror
  <2>2. CASE Current(e)
    <3>1. e[2] \in 1 .. MaxRevision
      BY DEF EventKeys, Revisions
    <3>2. ~(e[2] < e[2])
      BY <3>1, ConsultationAssumption
    <3>3. QED BY <2>1, <2>2, <3>2 DEF Current
  <2>3. QED BY <1>5, <2>2
<1>6. ASSUME NEW v \in CalendarWorkers PROVE Honest(workers[v])'
  <2>1. CASE v = w
    BY <1>1, <1>3, <1>4, <2>1 DEF Honest
  <2>2. CASE v # w
    <3>1. workers'[v] = workers[v] /\ Honest(workers[v])
      BY <1>4, <2>2 DEF Mirror
    <3>2. CASE workers[v].pc # "idle" /\ workers[v].key[1] = "delete"
      <4>1. workers[v].key \in JobKeys /\ calJobs[workers[v].key].status # "ABSENT"
        BY <3>2, WorkerType
      <4>2. workers[v].key = <<"delete", workers[v].key[2]>> /\ workers[v].key[2] \in EventKeys
        BY <3>2, <4>1 DEF JobKeys
      <4>3. events'[workers[v].key[2]] = "live" => events[workers[v].key[2]] = "live"
        BY <1>5, <4>1, <4>2
      <4>4. QED BY <3>1, <4>3 DEF Honest
    <3>3. CASE ~(workers[v].pc # "idle" /\ workers[v].key[1] = "delete")
      BY <3>1, <3>3 DEF Honest
    <3>4. QED BY <3>2, <3>3
  <2>3. QED BY <2>1, <2>2
<1>7. ASSUME NEW e \in EventKeys, events'[e] = "live"
      PROVE  calJobs'[<<"create", e>>].targeted = TRUE /\ (Current(e)' \/ LeftToDelete(e)')
  BY <1>7 DEF Mirror, Current, LeftToDelete
<1>8. QED BY <1>4, <1>6, <1>7 DEF Mirror

LEMMA CreateMirror ==
  ASSUME Mirror, Sound(slots, bookings), NEW w \in CalendarWorkers, ExecuteCreate(w)
  PROVE  Mirror'
<1> DEFINE b == workers[w].key[2][1]
           r == workers[w].key[2][2]
<1>1. workers[w].pc = "run" /\ workers[w].key[1] = "create" /\ UNCHANGED <<bookings, calJobs>>
  BY DEF ExecuteCreate
<1>2. workers[w].key \in JobKeys
  BY <1>1, WorkerType
<1>3. b \in Bookings /\ r \in Revisions /\ <<b, r>> \in EventKeys
  BY <1>2 DEF JobKeys, EventKeys
<1>4. ASSUME NEW out \in {"done", "failed"}, Reports(w, out), UNCHANGED events PROVE Mirror'
  BY <1>1, <1>4, ReportMoves DEF Mirror
<1>5. ASSUME ~NothingToCreate(b, r), NEW out \in {"done", "failed"}, Reports(w, out),
             events' = [events EXCEPT ![<<b, r>>] = "live"]
      PROVE  Mirror'
  <2> DEFINE e == <<b, r>>
  <2>1. bookings[b].status = "CONFIRMED" /\ bookings[b].revision = r /\ calJobs[<<"create", e>>].targeted
    BY <1>5 DEF NothingToCreate, Obsolete
  <2>2. e[1] = b /\ e[2] = r
    OBVIOUS
  <2>3. Current(e)
    BY <2>1, <2>2 DEF Current, Took
  <2>4. calJobs[<<"create", e>>].targeted = TRUE
    <3>1. calJobs[<<"create", e>>].targeted \in BOOLEAN
      BY <1>3, KeysOfEvents DEF Mirror, JobRow
    <3>2. QED BY <2>1, <3>1
  <2>a. events' = [events EXCEPT ![e] = "live"] /\ e \in EventKeys
    BY <1>3, <1>5
  <2> HIDE DEF e
  <2>5. /\ events' \in [EventKeys -> {"none", "live", "deleted"}]
        /\ \A f \in EventKeys \ {e} : events'[f] = events[f]
    BY <2>a DEF Mirror
  <2>6. QED BY <1>1, <1>5, <2>3, <2>4, <2>5, ReportMoves
<1>6. QED BY <1>4, <1>5 DEF ExecuteCreate, CreateEvent

LEMMA DeleteMirror ==
  ASSUME Mirror, NEW w \in CalendarWorkers, ExecuteDelete(w)
  PROVE  Mirror'
<1> DEFINE e == workers[w].key[2]
<1>1. workers[w].pc = "run" /\ workers[w].key[1] = "delete" /\ UNCHANGED <<bookings, calJobs>>
  BY DEF ExecuteDelete
<1>2. e \in EventKeys
  BY <1>1, WorkerType DEF JobKeys
<1>3. CASE Reports(w, "failed") /\ UNCHANGED events
  BY <1>1, <1>3, ReportMoves DEF Mirror
<1>4. ASSUME DeleteEvent(e), NEW out \in {"done", "failed"}, Reports(w, out) PROVE Mirror'
  <2>1. events' = [events EXCEPT ![e] = IF events[e] = "live" THEN "deleted" ELSE events[e]]
    BY <1>4 DEF DeleteEvent, Mirror
  <2> HIDE DEF e
  <2>2. /\ events' \in [EventKeys -> {"none", "live", "deleted"}] /\ events'[e] # "live"
        /\ \A f \in EventKeys \ {e} : events'[f] = events[f]
    BY <1>2, <2>1 DEF Mirror
  <2>3. QED BY <1>1, <1>4, <2>2, ReportMoves DEF e
<1>5. QED BY <1>3, <1>4 DEF ExecuteDelete

(***************************************************************************)
(* The connection.  While an operation that ends it is under way nobody    *)
(* has a meeting to come and nothing is left to delete: what the guests,   *)
(* the host, the calendar and the time do keeps it so.                     *)
(***************************************************************************)
NothingNew ==
  /\ \A s \in Slots : slots'[s].status = "BOOKED" => slots[s].status = "BOOKED"
  /\ \A b \in Bookings : bookings'[b].status = "CONFIRMED"
                           => bookings[b].status = "CONFIRMED" /\ bookings'[b].slot = bookings[b].slot
  /\ \A e \in EventKeys : LeftToDelete(e)' => LeftToDelete(e)

LEMMA QuietKeeps ==
  ASSUME Quiet, Sound(slots, bookings), UNCHANGED connectionVars,
         phase' \in [Slots -> {"far", "near", "over"}], faults' \in 0 .. CalendarFaults,
         \A s \in Slots : phase[s] = "over" => phase'[s] = "over",
         host.op # 0 => NothingNew
  PROVE  Quiet'
<1>1. UNCHANGED <<host, valid, oauth, ending>>
  BY DEF connectionVars
<1>2. ASSUME host.op # 0 PROVE Unused'
  <2>1. Unused /\ NothingNew
    BY <1>2 DEF Quiet
  <2>2. ASSUME NEW b \in Bookings, bookings'[b].status = "CONFIRMED", slots'[bookings'[b].slot].status = "BOOKED"
        PROVE  phase'[bookings'[b].slot] = "over"
    <3>1. bookings[b].status = "CONFIRMED" /\ bookings'[b].slot = bookings[b].slot
      BY <2>1, <2>2 DEF NothingNew
    <3>2. bookings[b].slot \in Slots
      BY <3>1, HasItAlone DEF Stands, Took
    <3>3. slots[bookings[b].slot].status = "BOOKED"
      BY <2>1, <2>2, <3>1, <3>2 DEF NothingNew
    <3>4. QED BY <2>1, <3>1, <3>2, <3>3 DEF Unused, SlotOf
  <2>3. QED BY <2>1, <2>2 DEF Unused, SlotOf, NothingNew
<1>3. QED BY <1>1, <1>2 DEF Quiet

LEMMA QuietFrame ==
  ASSUME Quiet, Sound(slots, bookings), UNCHANGED <<host, valid, oauth, ending, phase, faults>>,
         host.op # 0 => NothingNew
  PROVE  Quiet'
BY QuietKeeps DEF Quiet, connectionVars

LEMMA GuestQuiet ==
  ASSUME Quiet, Sound(slots, bookings),
         NEW b \in Bookings,
         Verify(b) \/ Cancel(b) \/ (\E s \in Slots : Book(b, s) \/ Reschedule(b, s)) \/ ReleaseExpiredHolds
  PROVE  Quiet'
<1>1. UNCHANGED <<host, valid, oauth, ending, phase, faults>>
  BY DEF Verify, Cancel, Book, Reschedule, ReleaseExpiredHolds, UnchangedCalendar, connectionVars
<1>2. slots \in [Slots -> SlotRow] /\ bookings \in [Bookings -> BookingRow]
  BY DEF Sound
<1>3. ASSUME host.op # 0, Cancel(b) PROVE FALSE
  BY <1>3, HasItAlone DEF Cancel, Changeable, Quiet, Unused, SlotOf, Stands, Took
<1>4. ASSUME host.op # 0, Verify(b) PROVE NothingNew
  <2> DEFINE s == bookings[b].slot
  <2>1. /\ slots' = [slots EXCEPT ![s].status = "BLOCKED", ![s].hold = "none"]
        /\ bookings' = [bookings EXCEPT ![b].status = "EXPIRED"] /\ UNCHANGED calJobs
    BY <1>4 DEF Verify
  <2>2. \A t \in Slots : slots'[t].status = "BOOKED" => slots[t].status = "BOOKED"
    BY <1>2, <2>1 DEF SlotRow
  <2>3. \A c \in Bookings : bookings'[c].status = "CONFIRMED"
                              => bookings[c].status = "CONFIRMED" /\ bookings'[c].slot = bookings[c].slot
    BY <1>2, <2>1 DEF BookingRow
  <2>4. QED BY <2>1, <2>2, <2>3 DEF NothingNew, LeftToDelete
<1>5. ASSUME host.op # 0, NEW s \in Slots, Reschedule(b, s) PROVE NothingNew
  <2>1. slots' = [slots EXCEPT ![s].status = "BLOCKED"] /\ UNCHANGED <<bookings, calJobs>>
    BY <1>5 DEF Reschedule
  <2>2. \A t \in Slots : slots'[t].status = "BOOKED" => slots[t].status = "BOOKED"
    BY <1>2, <2>1 DEF SlotRow
  <2>3. QED BY <2>1, <2>2 DEF NothingNew, LeftToDelete
<1>6. ASSUME ReleaseExpiredHolds PROVE NothingNew
  BY <1>6, Released DEF ReleaseExpiredHolds, NothingNew, LeftToDelete
<1>7. ASSUME host.op # 0, NEW s \in Slots, Book(b, s) PROVE NothingNew
  <2>1. slots' = [SlotsReleased EXCEPT ![s].status = "BLOCKED"] /\ bookings' = BookingsReleased /\ UNCHANGED calJobs
    BY <1>7 DEF Book
  <2>2. SlotsReleased \in [Slots -> SlotRow]
    BY Released DEF Sound
  <2>3. \A t \in Slots : slots'[t].status = "BOOKED" => SlotsReleased[t].status = "BOOKED"
    BY <2>1, <2>2 DEF SlotRow
  <2>4. QED BY <2>1, <2>3, Released DEF NothingNew, LeftToDelete
<1>8. QED BY <1>1, <1>3, <1>4, <1>5, <1>6, <1>7, QuietFrame

LEMMA HostQuiet ==
  ASSUME Quiet, Sound(slots, bookings), removing \in {Idle} \cup Removal, Admin \/ (\E s \in Slots : HoldLapses(s))
  PROVE  Quiet'
<1>1. UNCHANGED <<host, valid, oauth, ending, phase, faults, calJobs>>
  BY DEF Admin, CreateSlots, SetSlotStatus, RemoveRead, RemoveSlot, CloseBooking, HoldLapses, ChangeSlots,
         UnchangedCalendar, connectionVars
<1>2. slots \in [Slots -> SlotRow] /\ bookings \in [Bookings -> BookingRow]
  BY DEF Sound
<1>3. ASSUME UNCHANGED bookings, \A s \in Slots : slots'[s].status = "BOOKED" => slots[s].status = "BOOKED"
      PROVE  NothingNew
  BY <1>1, <1>3 DEF NothingNew, LeftToDelete
<1>4. ASSUME NEW S \in SUBSET Slots, CreateSlots(S) PROVE NothingNew
  <2>1. slots' = [s \in Slots |-> IF s \in S THEN OpenSlot ELSE slots[s]] /\ UNCHANGED bookings
    BY <1>4 DEF CreateSlots, ChangeSlots
  <2>2. QED BY <1>3, <2>1, RowValues
<1>5. ASSUME NEW s \in Slots, NEW st \in {"OPEN", "BLOCKED"}, SetSlotStatus(s, st) PROVE NothingNew
  <2>1. slots' = [slots EXCEPT ![s].status = st] /\ UNCHANGED bookings
    BY <1>5 DEF SetSlotStatus, ChangeSlots
  <2>2. \A t \in Slots : slots'[t].status = "BOOKED" => slots[t].status = "BOOKED"
    BY <1>2, <2>1 DEF SlotRow
  <2>3. QED BY <1>3, <2>1, <2>2
<1>6. ASSUME NEW s \in Slots, HoldLapses(s) PROVE NothingNew
  <2>1. slots' = [slots EXCEPT ![s].hold = "lapsed"] /\ UNCHANGED bookings
    BY <1>6 DEF HoldLapses, ChangeSlots
  <2>2. \A t \in Slots : slots'[t].status = "BOOKED" => slots[t].status = "BOOKED"
    BY <1>2, <2>1 DEF SlotRow
  <2>3. QED BY <1>3, <2>1, <2>2
<1>7. ASSUME NEW s \in Slots, RemoveRead(s) PROVE NothingNew
  BY <1>3, <1>7 DEF RemoveRead
<1>8. ASSUME RemoveSlot PROVE NothingNew
  <2> DEFINE s == removing.slot
  <2>1. UNCHANGED bookings /\ slots' \in {[slots EXCEPT ![s].status = "CANCELED"], slots, [slots EXCEPT ![s] = NoSlot]}
    BY <1>8 DEF RemoveSlot
  <2>2. \A t \in Slots : slots'[t].status = "BOOKED" => slots[t].status = "BOOKED"
    BY <1>2, <2>1, RowValues DEF SlotRow
  <2>3. QED BY <1>3, <2>1, <2>2
<1>9. ASSUME NEW b \in Bookings, NEW st \in {"COMPLETED", "NO_SHOW"}, CloseBooking(b, st) PROVE NothingNew
  <2>1. bookings' = [bookings EXCEPT ![b].status = st] /\ UNCHANGED slots
    BY <1>9 DEF CloseBooking
  <2>2. \A c \in Bookings : bookings'[c].status = "CONFIRMED"
                              => bookings[c].status = "CONFIRMED" /\ bookings'[c].slot = bookings[c].slot
    BY <1>2, <2>1 DEF BookingRow
  <2>3. QED BY <1>1, <2>1, <2>2 DEF NothingNew, LeftToDelete
<1>10. NothingNew
  <2>1. CASE \E S \in (SUBSET Slots) \ {{}} : CreateSlots(S)
    BY <1>4, <2>1
  <2>2. CASE \E s \in Slots : SetSlotStatus(s, "OPEN") \/ SetSlotStatus(s, "BLOCKED")
    BY <1>5, <2>2
  <2>3. CASE (\E s \in Slots : RemoveRead(s) \/ HoldLapses(s)) \/ RemoveSlot
    BY <1>6, <1>7, <1>8, <2>3
  <2>4. CASE \E b \in Bookings : CloseBooking(b, "COMPLETED") \/ CloseBooking(b, "NO_SHOW")
    BY <1>9, <2>4
  <2>5. QED BY <2>1, <2>2, <2>3, <2>4 DEF Admin
<1>11. QED BY <1>1, <1>10, QuietFrame

LEMMA TimeQuiet ==
  ASSUME Quiet, Sound(slots, bookings), NEW s \in Slots, Approach(s)
  PROVE  Quiet'
<1>1. UNCHANGED <<slots, bookings, calJobs, faults>> /\ UNCHANGED connectionVars
  BY DEF Approach, UnchangedCalendar
<1>2. phase \in [Slots -> {"far", "near", "over"}] /\ faults \in 0 .. CalendarFaults
  BY DEF Quiet
<1>3. /\ phase' \in [Slots -> {"far", "near", "over"}]
      /\ \A t \in Slots : phase[t] = "over" => phase'[t] = "over"
  BY <1>2 DEF Approach
<1>4. NothingNew
  BY <1>1 DEF NothingNew, LeftToDelete
<1>5. QED BY <1>1, <1>2, <1>3, <1>4, QuietKeeps

LEMMA CalendarQuiet ==
  ASSUME Quiet, Mirror, Sound(slots, bookings),
         \/ \E k \in JobKeys : RecoverCalendarJob(k)
         \/ \E w \in CalendarWorkers : CalendarRun(w) \/ CalendarCrash(w)
  PROVE  Quiet'
<1>1. UNCHANGED <<phase, bookings>> /\ UNCHANGED connectionVars
  BY DEF RecoverCalendarJob, CalendarRun, SelectCalendarJob, ClaimCalendarJob, ExecuteCreate, ExecuteDelete,
         CompleteCalendarJob, FailCalendarJob, CalendarCrash
<1>2. /\ slots \in [Slots -> SlotRow] /\ calJobs \in [JobKeys -> JobRow]
      /\ faults \in 0 .. CalendarFaults /\ CalendarFaults \in Nat
      /\ phase \in [Slots -> {"far", "near", "over"}]
  BY ConsultationAssumption DEF Sound, Mirror, Quiet
<1>3. ASSUME \A s \in Slots : slots'[s].status = "BOOKED" => slots[s].status = "BOOKED",
             \A k \in JobKeys : calJobs'[k].status \in {"PENDING", "RUNNING", "FAILED"}
                                  => calJobs[k].status \in {"PENDING", "RUNNING", "FAILED"},
             faults' = faults \/ (faults < CalendarFaults /\ faults' = faults + 1)
      PROVE  Quiet'
  <2>1. faults' \in 0 .. CalendarFaults
    BY <1>2, <1>3
  <2>2. NothingNew
    BY <1>1, <1>3, KeysOfEvents DEF NothingNew, LeftToDelete
  <2>3. QED BY <1>1, <1>2, <2>1, <2>2, QuietKeeps
<1>4. ASSUME NEW k \in JobKeys, RecoverCalendarJob(k) PROVE Quiet'
  <2>1. /\ calJobs[k].status = "RUNNING" /\ UNCHANGED slots
        /\ faults' = faults \/ (faults < CalendarFaults /\ faults' = faults + 1)
        /\ \A j \in JobKeys : j # k => calJobs'[j] = calJobs[j]
    BY <1>2, <1>4 DEF RecoverCalendarJob
  <2>2. QED BY <1>3, <2>1
<1>5. ASSUME NEW w \in CalendarWorkers,
             CalendarCrash(w) \/ ExecuteDelete(w) \/ ExecuteCreate(w) \/ \E k \in JobKeys : SelectCalendarJob(w, k)
      PROVE  Quiet'
  <2>1. UNCHANGED calJobs /\ (faults' = faults \/ (faults < CalendarFaults /\ faults' = faults + 1))
    BY <1>5 DEF CalendarCrash, ExecuteDelete, ExecuteCreate, SelectCalendarJob, CreateEvent
  <2>2. CASE UNCHANGED slots
    BY <1>3, <2>1, <2>2
  <2>3. CASE ExecuteCreate(w) /\ ~UNCHANGED slots
    <3>1. slots' = [slots EXCEPT ![bookings[workers[w].key[2][1]].slot].event =
                      <<workers[w].key[2][1], workers[w].key[2][2]>>]
      BY <2>3 DEF ExecuteCreate, CreateEvent
    <3>2. \A s \in Slots : slots'[s].status = slots[s].status
      BY <1>2, <3>1 DEF SlotRow
    <3>3. QED BY <1>3, <2>1, <3>2
  <2>4. QED BY <1>5, <2>2, <2>3 DEF CalendarCrash, ExecuteDelete, SelectCalendarJob
<1>6. ASSUME NEW w \in CalendarWorkers, ClaimCalendarJob(w) PROVE Quiet'
  <2>1. UNCHANGED <<slots, faults>> /\ \A j \in JobKeys : j # workers[w].key => calJobs'[j] = calJobs[j]
    BY <1>2, <1>6 DEF ClaimCalendarJob
  <2>2. calJobs[workers[w].key].status = "PENDING" \/ UNCHANGED calJobs
    BY <1>6 DEF ClaimCalendarJob
  <2>3. QED BY <1>3, <2>1, <2>2
<1>7. ASSUME NEW w \in CalendarWorkers, CompleteCalendarJob(w) \/ FailCalendarJob(w) PROVE Quiet'
  <2> DEFINE k == workers[w].key
  <2>1. UNCHANGED <<slots, faults>> /\ \E st \in {"SUCCEEDED", "FAILED", "PENDING"} : MarkIfRunning(k, st)
    BY <1>7 DEF CompleteCalendarJob, FailCalendarJob
  <2>2. PICK st \in {"SUCCEEDED", "FAILED", "PENDING"} : MarkIfRunning(k, st)
    BY <2>1
  <2>3. calJobs' = [calJobs EXCEPT ![k].status = IF calJobs[k].status = "RUNNING" THEN st ELSE calJobs[k].status]
    BY <2>2 DEF MarkIfRunning
  <2> HIDE DEF k
  <2>4. \A j \in JobKeys : j # k => calJobs'[j] = calJobs[j]
    BY <1>2, <2>3
  <2>5. k \in JobKeys /\ calJobs[k].status # "RUNNING" => calJobs'[k].status = calJobs[k].status
    BY <1>2, <2>3 DEF JobRow
  <2>6. QED BY <1>3, <2>1, <2>4, <2>5
<1>8. QED BY <1>4, <1>5, <1>6, <1>7 DEF CalendarRun

\* The connection itself.
LEMMA HostUpdates ==
  ASSUME NEW row \in HostRow, NEW n \in 0 .. MaxGrants
  PROVE  /\ [row EXCEPT !.op = n] \in HostRow /\ [row EXCEPT !.op = n].op = n
         /\ [row EXCEPT !.op = n].epoch = row.epoch /\ [row EXCEPT !.op = n].grant = row.grant
         /\ [row EXCEPT !.epoch = n] \in HostRow /\ [row EXCEPT !.epoch = n].op = row.op
         /\ [row EXCEPT !.epoch = n].epoch = n /\ [row EXCEPT !.epoch = n].grant = row.grant
         /\ [row EXCEPT !.grant = n] \in HostRow /\ [row EXCEPT !.grant = n].op = row.op
         /\ [row EXCEPT !.grant = n].epoch = row.epoch
         /\ [row EXCEPT !.issued = n] \in HostRow /\ [row EXCEPT !.issued = n].op = row.op
         /\ [row EXCEPT !.issued = n].epoch = row.epoch
BY DEF HostRow

LEMMA StageQuiet ==
  ASSUME Quiet, Sound(slots, bookings), NEW d \in Disconnects, DisconnectStage(d)
  PROVE  Quiet'
<1> DEFINE epoch == IF host.op # 0 THEN host.epoch ELSE host.epoch + 1
           a == [host EXCEPT !.op = epoch]
           x == [a EXCEPT !.epoch = epoch]
           y == [pc |-> "revoke", op |-> epoch, grant |-> host.grant]
<1>1. /\ UNCHANGED <<valid, oauth, slots, phase, bookings, calJobs, faults>>
      /\ ~\E s \in Slots : ActiveSlot(s)
      /\ PendingDeletes = {} /\ epoch <= MaxGrants
      /\ host' = [host EXCEPT !.op = epoch, !.epoch = epoch]
      /\ ending' = [ending EXCEPT ![d] = y]
  BY DEF DisconnectStage, UnchangedButConnection, calendarVars
<1>2. host \in HostRow /\ host.op \in {0, host.epoch} /\ ending \in [Disconnects -> {Idle} \cup Ending]
  BY DEF Quiet
<1>3. host.grant \in 0 .. MaxGrants /\ epoch \in 1 .. MaxGrants /\ epoch \in 0 .. MaxGrants
  BY <1>1, <1>2, ConsultationAssumption DEF HostRow
<1>4. host' = x
  BY <1>1
<1> HIDE DEF epoch
<1>5. y \in Ending
  BY <1>3 DEF Ending
<1>6. a \in HostRow /\ a.op = epoch
  BY <1>2, <1>3, HostUpdates
<1> HIDE DEF a, y
<1>7. x \in HostRow /\ x.op = epoch /\ x.epoch = epoch
  BY <1>3, <1>6, HostUpdates
<1> HIDE DEF x
<1>8. ending' \in [Disconnects -> {Idle} \cup Ending]
  BY <1>1, <1>2, <1>5
<1>9. Unused
  <2>1. ASSUME NEW b \in Bookings, bookings[b].status = "CONFIRMED", SlotOf(b).status = "BOOKED"
        PROVE  phase[bookings[b].slot] = "over"
    <3>1. bookings[b].slot \in Slots
      BY <2>1, HasItAlone DEF Stands, Took
    <3>2. ~ActiveSlot(bookings[b].slot)
      BY <1>1, <3>1
    <3>3. QED BY <2>1, <3>2 DEF ActiveSlot, Future, SlotOf
  <2>2. ASSUME NEW e \in EventKeys, LeftToDelete(e) PROVE FALSE
    <3>1. <<"delete", e>> \in PendingDeletes
      BY <2>2, KeysOfEvents DEF PendingDeletes, Unfinished, LeftToDelete
    <3>2. QED BY <1>1, <3>1
  <2>3. QED BY <2>1, <2>2 DEF Unused
<1>10. Unused'
  BY <1>1, <1>9 DEF Unused, SlotOf, LeftToDelete
<1>11. QED BY <1>1, <1>4, <1>7, <1>8, <1>10 DEF Quiet

LEMMA ConnectionQuiet ==
  ASSUME Quiet, Sound(slots, bookings), Connection
  PROVE  Quiet'
<1>1. host \in HostRow /\ host.op \in {0, host.epoch} /\ ending \in [Disconnects -> {Idle} \cup Ending]
      /\ valid \subseteq 1 .. MaxGrants /\ oauth \subseteq 0 .. MaxGrants /\ faults \in 0 .. CalendarFaults
      /\ MaxGrants \in Nat /\ CalendarFaults \in Nat
  BY ConsultationAssumption DEF Quiet
<1>2. UNCHANGED <<slots, phase, bookings, calJobs>>
  BY DEF Connection, ChangeSettings, ConnectStart, ConnectCallback, DisconnectStage, Revoke, ReleaseStage,
         Finalize, DisconnectCrash, UnchangedButConnection, calendarVars
<1>3. ASSUME host' \in HostRow, host'.op \in {0, host'.epoch}, host'.op # 0 => host.op # 0,
             ending' \in [Disconnects -> {Idle} \cup Ending], valid' \subseteq 1 .. MaxGrants,
             oauth' \subseteq 0 .. MaxGrants, faults' \in 0 .. CalendarFaults
      PROVE  Quiet'
  BY <1>2, <1>3 DEF Quiet, Unused, SlotOf, LeftToDelete
<1>4. CASE ChangeSettings
  BY <1>1, <1>3, <1>4 DEF ChangeSettings, HostRow, UnchangedButConnection, calendarVars
<1>5. CASE ConnectStart
  <2>1. host.epoch \in 0 .. MaxGrants
    BY <1>1 DEF HostRow
  <2>2. QED BY <1>1, <1>3, <1>5, <2>1 DEF ConnectStart, UnchangedButConnection, calendarVars
<1>6. ASSUME NEW e \in 0 .. MaxGrants, ConnectCallback(e) PROVE Quiet'
  <2> DEFINE n == host.issued + 1
             a == [host EXCEPT !.grant = n]
             x == [a EXCEPT !.issued = n]
  <2>1. n \in 1 .. MaxGrants /\ n \in 0 .. MaxGrants
    BY <1>1, <1>6 DEF ConnectCallback, HostRow
  <2>2. host' = x /\ valid' = valid \cup {n} /\ oauth' = oauth \ {e} /\ UNCHANGED <<ending, faults>> /\ host.op = 0
    BY <1>6 DEF ConnectCallback, UnchangedButConnection, calendarVars, CurrentOAuthState
  <2> HIDE DEF n
  <2>3. a \in HostRow /\ a.op = 0 /\ a.epoch = host.epoch
    BY <1>1, <2>1, <2>2, HostUpdates
  <2> HIDE DEF a
  <2>4. x \in HostRow /\ x.op = 0
    BY <2>1, <2>3, HostUpdates
  <2> HIDE DEF x
  <2>5. QED BY <1>1, <1>3, <2>1, <2>2, <2>4
<1>7. ASSUME NEW d \in Disconnects, Revoke(d) PROVE Quiet'
  <2>1. ending[d] \in Ending
    BY <1>1, <1>7, RowValues DEF Revoke
  <2>2. \A p \in {"finalize", "release"} : [ending[d] EXCEPT !.pc = p] \in Ending
    BY <2>1 DEF Ending
  <2>3. ending' \in [Disconnects -> {Idle} \cup Ending]
    BY <1>1, <1>7, <2>2 DEF Revoke
  <2>4. QED BY <1>1, <1>3, <1>7, <2>3 DEF Revoke, UnchangedButConnection, calendarVars
<1>8. ASSUME NEW d \in Disconnects, ReleaseStage(d) \/ Finalize(d) PROVE Quiet'
  <2> DEFINE a == [host EXCEPT !.op = 0]
             x == [a EXCEPT !.grant = 0]
  <2>1. /\ host' \in {host, a, x} /\ ending' = [ending EXCEPT ![d] = Idle]
        /\ UNCHANGED <<valid, oauth, faults>>
    BY <1>8 DEF ReleaseStage, Finalize, UnchangedButConnection, calendarVars
  <2>2. 0 \in 0 .. MaxGrants
    BY <1>1
  <2>3. a \in HostRow /\ a.op = 0
    BY <1>1, <2>2, HostUpdates
  <2> HIDE DEF a
  <2>4. x \in HostRow /\ x.op = 0
    BY <2>2, <2>3, HostUpdates
  <2> HIDE DEF x
  <2>5. ending' \in [Disconnects -> {Idle} \cup Ending]
    BY <1>1, <2>1
  <2>6. QED BY <1>1, <1>3, <2>1, <2>3, <2>4, <2>5
<1>9. ASSUME NEW d \in Disconnects, DisconnectCrash(d) PROVE Quiet'
  <2>1. ending' = [ending EXCEPT ![d] = Idle] /\ faults' = faults + 1 /\ faults < CalendarFaults /\ UNCHANGED <<host, valid, oauth>>
    BY <1>9 DEF DisconnectCrash
  <2>2. faults' \in 0 .. CalendarFaults
    BY <1>1, <2>1
  <2>3. QED BY <1>1, <1>3, <2>1, <2>2
<1>10. QED BY <1>4, <1>5, <1>6, <1>7, <1>8, <1>9, StageQuiet DEF Connection

(***************************************************************************)
(* The reminders                                                           *)
(***************************************************************************)
LEMMA RemindedStays ==
  ASSUME Reminded, UNCHANGED <<outbox, mailer>>,
         \A b \in Bookings : bookings[b].status \in Took
                               => bookings'[b].status \in Took /\ bookings'[b].slot = bookings[b].slot
  PROVE  Reminded'
BY DEF Reminded, PendingReminderIsTrue

LEMMA MessagesArePairs ==
  /\ Messages = Bookings \X Slots
  /\ \A b \in Bookings, s \in Slots : <<b, s>> \in Messages
BY ConsultationAssumption

\* What the routes do to the outbox: a row is left alone, withdrawn while it waits, or queued.
LEMMA BoxMoves ==
  ASSUME Reminded, UNCHANGED mailer, outbox' \in [Messages -> MailRow],
         \A k \in Messages :
           \/ outbox'[k] = outbox[k]
           \/ outbox'[k].status = "CANCELED" /\ outbox'[k].attempts = outbox[k].attempts
           \/ outbox[k].status = "ABSENT" /\ outbox'[k].status = "PENDING" /\ outbox'[k].attempts = 0,
         \A b \in Bookings, s \in Slots :
           outbox'[<<b, s>>].status = "PENDING" /\ outbox'[<<b, s>>].attempts = 0
             => bookings'[b].status \in Took /\ bookings'[b].slot = s
  PROVE  Reminded'
<1>1. ASSUME NEW k \in Messages
      PROVE  /\ outbox'[k].status = "ABSENT" => outbox'[k].attempts = 0
             /\ outbox'[k].status = "RUNNING" => outbox'[k].attempts >= 1
             /\ outbox[k].attempts >= 1 => outbox'[k].attempts >= 1
  BY DEF Reminded
<1>2. ASSUME NEW m \in Mailers, mailer[m].pc \in {"send", "sent", "failed"} PROVE mailer[m].key \in Messages
  BY <1>2, RowValues DEF Reminded, Sending
<1>3. \A m \in Mailers : mailer'[m].pc \in {"send", "sent", "failed"} => outbox'[mailer'[m].key].attempts >= 1
  BY <1>1, <1>2 DEF Reminded
<1>4. mailer' \in [Mailers -> {Resting} \cup Sending]
  BY DEF Reminded
<1>5. PendingReminderIsTrue'
  BY DEF PendingReminderIsTrue
<1>6. QED BY <1>1, <1>3, <1>4, <1>5 DEF Reminded

\* The two updates of the table, row by row.
LEMMA BoxRows ==
  ASSUME NEW box \in [Messages -> MailRow], NEW keys
  PROVE  /\ WithQueued(box, keys) \in [Messages -> MailRow]
         /\ \A k \in Messages :
              /\ k \in keys /\ box[k].status = "ABSENT"
                   => WithQueued(box, keys)[k].status = "PENDING" /\ WithQueued(box, keys)[k].attempts = 0
              /\ ~(k \in keys /\ box[k].status = "ABSENT") => WithQueued(box, keys)[k] = box[k]
         /\ WithCanceled(box, keys) \in [Messages -> MailRow]
         /\ \A k \in Messages :
              /\ k \in keys /\ box[k].status = "PENDING"
                   => /\ WithCanceled(box, keys)[k].status = "CANCELED"
                      /\ WithCanceled(box, keys)[k].attempts = box[k].attempts
              /\ ~(k \in keys /\ box[k].status = "PENDING") => WithCanceled(box, keys)[k] = box[k]
<1>1. Queued \in MailRow /\ Queued.status = "PENDING" /\ Queued.attempts = 0
  BY DEF Queued, NoMail, MailRow, MailStatus
<1>2. ASSUME NEW row \in MailRow
      PROVE  /\ [row EXCEPT !.status = "CANCELED"] \in MailRow /\ [row EXCEPT !.status = "CANCELED"].status = "CANCELED"
             /\ [row EXCEPT !.status = "CANCELED"].attempts = row.attempts
  BY DEF MailRow, MailStatus
<1>3. QED BY <1>1, <1>2 DEF WithQueued, WithCanceled

LEMMA VerifyReminded ==
  ASSUME Reminded, Sound(slots, bookings), NEW b \in Bookings, Verify(b)
  PROVE  Reminded'
<1> DEFINE s == bookings[b].slot
<1>1. bookings[b].status = "PENDING" /\ s \in Slots /\ bookings \in [Bookings -> BookingRow]
      /\ outbox \in [Messages -> MailRow]
  BY VerifySound DEF Sound, Reminded
<1>2. CASE UNCHANGED <<outbox, mailer>> /\ bookings' = [bookings EXCEPT ![b].status = "EXPIRED"]
  <2>1. \A c \in Bookings \ {b} : bookings'[c] = bookings[c]
    BY <1>1, <1>2
  <2>2. QED BY <1>1, <1>2, <2>1, RemindedStays DEF Took
<1>3. CASE /\ bookings' = [bookings EXCEPT ![b].status = "CONFIRMED", ![b].revision = @ + 1]
           /\ outbox' = WithQueued(outbox, {<<b, s>>}) /\ UNCHANGED mailer
  <2>1. /\ \A c \in Bookings \ {b} : bookings'[c] = bookings[c]
        /\ bookings'[b].status = "CONFIRMED" /\ bookings'[b].slot = s
    BY <1>1, <1>3 DEF BookingRow
  <2>2. ASSUME NEW c \in Bookings, NEW t \in Slots,
               outbox'[<<c, t>>].status = "PENDING", outbox'[<<c, t>>].attempts = 0
        PROVE  bookings'[c].status \in Took /\ bookings'[c].slot = t
    <3>1. CASE <<c, t>> = <<b, s>>
      BY <2>1, <3>1 DEF Took
    <3>2. CASE <<c, t>> # <<b, s>>
      <4>1. outbox'[<<c, t>>] = outbox[<<c, t>>]
        <5> DEFINE k == <<c, t>>
        <5>1. k \in Messages
          BY MessagesArePairs
        <5>2. k \notin {<<b, s>>}
          BY <3>2
        <5> HIDE DEF k, s
        <5>3. WithQueued(outbox, {<<b, s>>})[k] = outbox[k]
          BY <1>1, <5>1, <5>2, BoxRows
        <5>4. outbox'[k] = outbox[k]
          BY <1>3, <5>3
        <5>5. QED BY <5>4 DEF k
      <4>2. bookings[c].status \in Took /\ bookings[c].slot = t
        BY <2>2, <4>1 DEF Reminded, PendingReminderIsTrue
      <4>3. c # b
        BY <1>1, <4>2 DEF Took
      <4>4. QED BY <2>1, <4>2, <4>3
    <3>3. QED BY <3>1, <3>2
  <2>3. outbox' \in [Messages -> MailRow]
    BY <1>1, <1>3, BoxRows
  <2>4. ASSUME NEW k \in Messages
        PROVE  \/ outbox'[k] = outbox[k]
               \/ outbox[k].status = "ABSENT" /\ outbox'[k].status = "PENDING" /\ outbox'[k].attempts = 0
    BY <1>1, <1>3, BoxRows
  <2>5. QED BY <1>3, <2>2, <2>3, <2>4, BoxMoves
<1>4. QED BY <1>2, <1>3 DEF Verify, Remind, UnchangedMailers, UnchangedMail, mailVars

LEMMA CancelReminded ==
  ASSUME Reminded, Sound(slots, bookings), NEW b \in Bookings, Cancel(b)
  PROVE  Reminded'
<1> DEFINE keys == RemindersOf(b)
<1>1. /\ outbox' = WithCanceled(outbox, keys) /\ UNCHANGED mailer
      /\ bookings' = [bookings EXCEPT ![b].status = "CANCELED", ![b].revision = @ + 1]
  BY DEF Cancel, UnchangedMailers
<1>2. outbox \in [Messages -> MailRow] /\ bookings \in [Bookings -> BookingRow]
  BY DEF Sound, Reminded
<1>3. \A c \in Bookings \ {b} : bookings'[c] = bookings[c]
  BY <1>1, <1>2
<1>4. \A c \in Bookings, s \in Slots : <<c, s>> \in keys <=> c = b
  BY DEF RemindersOf
<1> HIDE DEF keys
<1>5. ASSUME NEW c \in Bookings, NEW s \in Slots,
             outbox'[<<c, s>>].status = "PENDING", outbox'[<<c, s>>].attempts = 0
      PROVE  bookings'[c].status \in Took /\ bookings'[c].slot = s
  <2>1. c # b /\ outbox'[<<c, s>>] = outbox[<<c, s>>]
    <3> DEFINE k == <<c, s>>
    <3>1. k \in Messages /\ (k \in keys <=> c = b)
      BY <1>4, MessagesArePairs
    <3>2. outbox'[k].status = "PENDING"
      BY <1>5
    <3> HIDE DEF k
    <3>3. ~(k \in keys /\ outbox[k].status = "PENDING") /\ outbox'[k] = outbox[k]
      BY <1>1, <1>2, <3>1, <3>2, BoxRows
    <3>4. QED BY <3>1, <3>2, <3>3 DEF k
  <2>2. QED BY <1>3, <1>5, <2>1 DEF Reminded, PendingReminderIsTrue
<1>6. ASSUME NEW k \in Messages
      PROVE  \/ outbox'[k] = outbox[k]
             \/ outbox'[k].status = "CANCELED" /\ outbox'[k].attempts = outbox[k].attempts
  BY <1>1, <1>2, BoxRows
<1>7. outbox' \in [Messages -> MailRow]
  BY <1>1, <1>2, BoxRows
<1>8. QED BY <1>1, <1>5, <1>6, <1>7, BoxMoves

LEMMA RescheduleReminded ==
  ASSUME Reminded, Sound(slots, bookings), NEW b \in Bookings, NEW s \in Slots, Reschedule(b, s)
  PROVE  Reminded'
<1> DEFINE keys == RemindersOf(b)
           box == WithCanceled(outbox, keys)
<1>1. CASE UNCHANGED <<outbox, mailer, bookings>>
  BY <1>1, RemindedStays
<1>2. CASE /\ outbox' = WithQueued(box, {<<b, s>>}) /\ UNCHANGED mailer
           /\ bookings[b].status = "CONFIRMED"
           /\ bookings' = [bookings EXCEPT ![b].slot = s, ![b].revision = @ + 1]
  <2>1. outbox \in [Messages -> MailRow] /\ bookings \in [Bookings -> BookingRow]
    BY DEF Sound, Reminded
  <2>2. /\ \A c \in Bookings \ {b} : bookings'[c] = bookings[c]
        /\ bookings'[b].status = "CONFIRMED" /\ bookings'[b].slot = s
    BY <1>2, <2>1 DEF BookingRow
  <2>3. \A c \in Bookings, t \in Slots : <<c, t>> \in keys <=> c = b
    BY DEF RemindersOf
  <2> HIDE DEF keys
  <2>4. /\ box \in [Messages -> MailRow]
        /\ \A k \in Messages :
             /\ k \in keys /\ outbox[k].status = "PENDING"
                  => box[k].status = "CANCELED" /\ box[k].attempts = outbox[k].attempts
             /\ ~(k \in keys /\ outbox[k].status = "PENDING") => box[k] = outbox[k]
    BY <2>1, BoxRows
  <2> HIDE DEF box
  <2>5. /\ outbox' \in [Messages -> MailRow]
        /\ \A k \in Messages :
             /\ k = <<b, s>> /\ box[k].status = "ABSENT" => outbox'[k].status = "PENDING" /\ outbox'[k].attempts = 0
             /\ ~(k = <<b, s>> /\ box[k].status = "ABSENT") => outbox'[k] = box[k]
    BY <1>2, <2>4, BoxRows
  <2>6. ASSUME NEW c \in Bookings, NEW t \in Slots,
               outbox'[<<c, t>>].status = "PENDING", outbox'[<<c, t>>].attempts = 0
        PROVE  bookings'[c].status \in Took /\ bookings'[c].slot = t
    <3>1. CASE <<c, t>> = <<b, s>>
      BY <2>2, <3>1 DEF Took
    <3>2. CASE <<c, t>> # <<b, s>>
      <4>1. outbox'[<<c, t>>] = box[<<c, t>>]
        BY <2>5, <3>2, MessagesArePairs
      <4>2. c # b /\ outbox'[<<c, t>>] = outbox[<<c, t>>]
        BY <2>3, <2>4, <2>6, <4>1, MessagesArePairs
      <4>3. QED BY <2>2, <2>6, <4>2 DEF Reminded, PendingReminderIsTrue
    <3>3. QED BY <3>1, <3>2
  <2>7. ASSUME NEW k \in Messages
        PROVE  \/ outbox'[k] = outbox[k]
               \/ outbox'[k].status = "CANCELED" /\ outbox'[k].attempts = outbox[k].attempts
               \/ outbox[k].status = "ABSENT" /\ outbox'[k].status = "PENDING" /\ outbox'[k].attempts = 0
    BY <2>4, <2>5
  <2>8. QED BY <1>2, <2>5, <2>6, <2>7, BoxMoves
<1>3. QED BY <1>1, <1>2 DEF Reschedule, Moved, UnchangedMailers, UnchangedMail, mailVars

LEMMA BookingsReminded ==
  ASSUME Reminded, Sound(slots, bookings),
         \/ ReleaseExpiredHolds
         \/ \E b \in Bookings, s \in Slots : Book(b, s)
         \/ \E b \in Bookings, st \in {"COMPLETED", "NO_SHOW"} : CloseBooking(b, st)
  PROVE  Reminded'
<1>1. UNCHANGED <<outbox, mailer>>
  BY DEF ReleaseExpiredHolds, Book, CloseBooking, UnchangedMail, mailVars
<1>2. ASSUME NEW b \in Bookings, bookings[b].status \in Took PROVE BookingsReleased[b] = bookings[b]
  BY <1>2, Released DEF Took
<1>3. CASE ReleaseExpiredHolds
  BY <1>1, <1>2, <1>3, RemindedStays DEF ReleaseExpiredHolds
<1>4. ASSUME NEW b \in Bookings, NEW s \in Slots, Book(b, s) PROVE Reminded'
  <2>1. bookings[b].status = "NONE" /\ BookingsReleased \in [Bookings -> BookingRow]
    BY <1>4, Released DEF Book, Sound
  <2>2. \A c \in Bookings \ {b} : bookings'[c] = BookingsReleased[c]
    BY <1>4, <2>1 DEF Book
  <2>3. QED BY <1>1, <1>2, <2>1, <2>2, RemindedStays DEF Took
<1>5. ASSUME NEW b \in Bookings, NEW st \in {"COMPLETED", "NO_SHOW"}, CloseBooking(b, st) PROVE Reminded'
  <2>1. bookings' = [bookings EXCEPT ![b].status = st] /\ bookings \in [Bookings -> BookingRow]
    BY <1>5 DEF CloseBooking, Sound
  <2>2. /\ \A c \in Bookings \ {b} : bookings'[c] = bookings[c]
        /\ bookings'[b].status = st /\ bookings'[b].slot = bookings[b].slot
    BY <2>1 DEF BookingRow
  <2>3. st \in Took
    BY DEF Took
  <2>4. QED BY <1>1, <2>2, <2>3, RemindedStays
<1>6. QED BY <1>3, <1>4, <1>5

\* What the mailer does: the row it holds has been counted.
LEMMA MailerMoves ==
  ASSUME Reminded, NEW m \in Mailers, NEW x \in {Resting} \cup Sending, mailer' = [mailer EXCEPT ![m] = x],
         UNCHANGED bookings, outbox' \in [Messages -> MailRow],
         x.pc \in {"send", "sent", "failed"} => outbox'[x.key].attempts >= 1,
         \A k \in Messages :
           /\ outbox'[k].status = "ABSENT" => outbox[k].status = "ABSENT" /\ outbox'[k].attempts = outbox[k].attempts
           /\ outbox'[k].attempts >= outbox[k].attempts
           /\ outbox'[k].status = "RUNNING" => outbox'[k].attempts >= 1
           /\ outbox'[k].status = "PENDING" => outbox'[k].attempts >= 1 \/ outbox'[k] = outbox[k]
  PROVE  Reminded'
<1>1. mailer' \in [Mailers -> {Resting} \cup Sending] /\ mailer'[m] = x
      /\ \A n \in Mailers \ {m} : mailer'[n] = mailer[n]
  BY DEF Reminded
<1>2. ASSUME NEW n \in Mailers, mailer'[n].pc \in {"send", "sent", "failed"}
      PROVE  outbox'[mailer'[n].key].attempts >= 1
  <2>1. CASE n = m
    BY <1>1, <1>2, <2>1
  <2>2. CASE n # m
    <3>1. mailer'[n] = mailer[n] /\ mailer[n] \in Sending
      BY <1>1, <1>2, <2>2, RowValues DEF Reminded
    <3>2. mailer[n].key \in Messages
      BY <3>1 DEF Sending
    <3>3. outbox[mailer[n].key].attempts >= 1
      BY <1>2, <3>1 DEF Reminded
    <3>4. outbox[mailer[n].key].attempts \in Nat /\ outbox'[mailer[n].key].attempts \in Nat
      BY <3>2 DEF Reminded, MailRow
    <3>5. outbox'[mailer[n].key].attempts >= outbox[mailer[n].key].attempts
      BY <3>2
    <3>6. QED BY <3>1, <3>3, <3>4, <3>5
  <2>3. QED BY <2>1, <2>2
<1>3. ASSUME NEW b \in Bookings, NEW s \in Slots,
             outbox'[<<b, s>>].status = "PENDING", outbox'[<<b, s>>].attempts = 0
      PROVE  bookings[b].status \in Took /\ bookings[b].slot = s
  <2>1. <<b, s>> \in Messages
    BY MessagesArePairs
  <2>2. ~(outbox'[<<b, s>>].attempts >= 1)
    BY <1>3
  <2>3. outbox'[<<b, s>>] = outbox[<<b, s>>]
    BY <1>3, <2>1, <2>2
  <2>4. QED BY <1>3, <2>3 DEF Reminded, PendingReminderIsTrue
<1>4. \A k \in Messages : outbox'[k].status = "ABSENT" => outbox'[k].attempts = 0
  BY DEF Reminded
<1>5. QED BY <1>1, <1>2, <1>3, <1>4 DEF Reminded, PendingReminderIsTrue

LEMMA MailReminded ==
  ASSUME Reminded, NEW m \in Mailers, MailRun(m), UNCHANGED bookings
  PROVE  Reminded'
<1>1. outbox \in [Messages -> MailRow] /\ mailer \in [Mailers -> {Resting} \cup Sending]
      /\ \A k \in Messages : outbox[k] \in MailRow /\ outbox[k].attempts \in Nat
  BY DEF Reminded, MailRow
<1>2. \A k \in Messages : outbox[k].status = "RUNNING" => outbox[k].attempts >= 1
  BY DEF Reminded
<1>3. ASSUME mailer[m].pc # "idle"
      PROVE  mailer[m] \in Sending /\ mailer[m].key \in Messages
  BY <1>1, <1>3, RowValues DEF Sending
<1>4. ASSUME NEW x \in {Resting} \cup Sending, mailer' = [mailer EXCEPT ![m] = x], UNCHANGED outbox,
             x.pc \in {"send", "sent", "failed"} => outbox[x.key].attempts >= 1
      PROVE  Reminded'
  <2>1. outbox' \in [Messages -> MailRow]
    BY <1>1, <1>4
  <2>2. x.pc \in {"send", "sent", "failed"} => outbox'[x.key].attempts >= 1
    BY <1>4
  <2>3. ASSUME NEW k \in Messages
        PROVE  /\ outbox'[k] = outbox[k] /\ outbox'[k].attempts >= outbox[k].attempts
               /\ outbox'[k].status = "RUNNING" => outbox'[k].attempts >= 1
    BY <1>1, <1>2, <1>4
  <2>4. QED BY <1>4, <2>1, <2>2, <2>3, MailerMoves
<1>5. ASSUME NEW k \in Messages, MailSelect(m, k) PROVE Reminded'
  <2> DEFINE x == Snapshot(k)
  <2>1. x \in Sending /\ x.pc = "claim"
    BY <1>1 DEF Snapshot, Sending, MailRow
  <2>2. mailer' = [mailer EXCEPT ![m] = x] /\ UNCHANGED outbox
    BY <1>5 DEF MailSelect
  <2> HIDE DEF x
  <2>3. QED BY <1>4, <2>1, <2>2
<1>6. CASE DeliverEmail(m)
  <2>1. PICK p \in {"sent", "failed"} : mailer' = [mailer EXCEPT ![m].pc = p]
    BY <1>6 DEF DeliverEmail
  <2> DEFINE x == [mailer[m] EXCEPT !.pc = p]
  <2>2. mailer[m].pc = "send" /\ UNCHANGED outbox /\ mailer[m] \in Sending
    BY <1>3, <1>6 DEF DeliverEmail
  <2>3. mailer' = [mailer EXCEPT ![m] = x]
    BY <1>1, <2>1
  <2>4. x \in Sending /\ x.key = mailer[m].key
    BY <2>2 DEF Sending
  <2>5. outbox[mailer[m].key].attempts >= 1
    BY <2>2 DEF Reminded
  <2> HIDE DEF x
  <2>6. QED BY <1>4, <2>2, <2>3, <2>4, <2>5
<1>7. CASE MailClaim(m)
  <2> DEFINE k == mailer[m].key
  <2>1. mailer[m].pc = "claim" /\ mailer[m] \in Sending /\ k \in Messages
    BY <1>3, <1>7 DEF MailClaim
  <2>2. CASE outbox[k].status = "PENDING"
    <3> DEFINE x == [mailer[m] EXCEPT !.pc = "send"]
               a == [outbox[k] EXCEPT !.status = "RUNNING"]
               row == [a EXCEPT !.attempts = outbox[k].attempts + 1]
    <3>1. /\ outbox' = [outbox EXCEPT ![k].status = "RUNNING", ![k].attempts = @ + 1]
          /\ mailer' = [mailer EXCEPT ![m].pc = "send"]
      BY <1>7, <2>2 DEF MailClaim
    <3>2. outbox' = [outbox EXCEPT ![k] = row] /\ mailer' = [mailer EXCEPT ![m] = x]
      BY <1>1, <2>1, <3>1
    <3>3. x \in Sending /\ x.key = k
      BY <2>1 DEF Sending
    <3>4. a \in MailRow /\ a.status = "RUNNING"
      BY <1>1, <2>1 DEF MailRow, MailStatus
    <3> HIDE DEF a, x
    <3>5. row \in MailRow /\ row.status = "RUNNING" /\ row.attempts = outbox[k].attempts + 1
      BY <1>1, <2>1, <3>4 DEF MailRow
    <3> HIDE DEF row, k
    <3>6. outbox' \in [Messages -> MailRow] /\ outbox'[k] = row /\ \A j \in Messages \ {k} : outbox'[j] = outbox[j]
      BY <1>1, <2>1, <3>2, <3>5
    <3>7. row.attempts >= 1 /\ row.attempts >= outbox[k].attempts
      BY <1>1, <2>1, <3>5
    <3>8. ASSUME NEW j \in Messages
          PROVE  /\ outbox'[j].status = "ABSENT" => outbox[j].status = "ABSENT" /\ outbox'[j].attempts = outbox[j].attempts
                 /\ outbox'[j].attempts >= outbox[j].attempts
                 /\ outbox'[j].status = "RUNNING" => outbox'[j].attempts >= 1
                 /\ outbox'[j].status = "PENDING" => outbox'[j].attempts >= 1 \/ outbox'[j] = outbox[j]
      BY <1>1, <1>2, <3>5, <3>6, <3>7
    <3>9. QED BY <3>2, <3>3, <3>6, <3>7, <3>8, MailerMoves
  <2>3. CASE outbox[k].status # "PENDING"
    <3>1. mailer' = [mailer EXCEPT ![m] = Resting] /\ UNCHANGED outbox
      BY <1>7, <2>3 DEF MailClaim
    <3>2. QED BY <1>4, <3>1, RowValues
  <2>4. QED BY <2>2, <2>3
<1>8. CASE MarkSent(m) \/ MarkFailed(m)
  <2> DEFINE k == mailer[m].key
             st == IF mailer[m].pc = "sent" THEN "SUCCEEDED"
                   ELSE IF mailer[m].attempts >= MaxDeliveries - 1 THEN "FAILED" ELSE "PENDING"
             a == [outbox[k] EXCEPT !.status = st]
             row == IF mailer[m].pc = "sent" THEN [a EXCEPT !.redacted = TRUE] ELSE a
  <2>1. /\ mailer[m].pc \in {"sent", "failed"} /\ k \in Messages /\ outbox[k].attempts >= 1
        /\ mailer' = [mailer EXCEPT ![m] = Resting]
    BY <1>3, <1>8 DEF MarkSent, MarkFailed, Reminded
  <2>2. outbox' = [outbox EXCEPT ![k] = row]
    <3>1. CASE MarkSent(m)
      BY <1>1, <2>1, <3>1 DEF MarkSent
    <3>2. CASE MarkFailed(m)
      <4>1. mailer[m].pc # "sent"
            /\ outbox' = [outbox EXCEPT ![k].status = IF mailer[m].attempts >= MaxDeliveries - 1 THEN "FAILED" ELSE "PENDING"]
        BY <3>2 DEF MarkFailed
      <4>2. QED BY <1>1, <2>1, <4>1
    <3>3. QED BY <1>8, <3>1, <3>2
  <2>3. st \in {"SUCCEEDED", "FAILED", "PENDING"}
    OBVIOUS
  <2> HIDE DEF st
  <2>4. a \in MailRow /\ a.status = st /\ a.attempts = outbox[k].attempts
    BY <1>1, <2>1, <2>3 DEF MailRow, MailStatus
  <2> HIDE DEF a
  <2>5. row \in MailRow /\ row.status = st /\ row.attempts = outbox[k].attempts
    BY <2>4 DEF MailRow
  <2> HIDE DEF row, k
  <2>6. outbox' \in [Messages -> MailRow] /\ outbox'[k] = row /\ \A j \in Messages \ {k} : outbox'[j] = outbox[j]
    BY <1>1, <2>1, <2>2, <2>5
  <2>7. ASSUME NEW j \in Messages
        PROVE  /\ outbox'[j].status = "ABSENT" => outbox[j].status = "ABSENT" /\ outbox'[j].attempts = outbox[j].attempts
               /\ outbox'[j].attempts >= outbox[j].attempts
               /\ outbox'[j].status = "RUNNING" => outbox'[j].attempts >= 1
               /\ outbox'[j].status = "PENDING" => outbox'[j].attempts >= 1 \/ outbox'[j] = outbox[j]
    BY <1>1, <1>2, <2>1, <2>3, <2>5, <2>6
  <2>8. QED BY <2>1, <2>6, <2>7, RowValues, MailerMoves
<1>9. QED BY <1>5, <1>6, <1>7, <1>8 DEF MailRun

(***************************************************************************)
(* The steps, and what follows                                             *)
(***************************************************************************)
LEMMA InitInv == Init => ConsultationInv
<1> SUFFICES ASSUME Init PROVE ConsultationInv
  OBVIOUS
<1>1. MaxRevision \in Nat \ {0} /\ CalendarFaults \in Nat /\ MaxGrants \in Nat
  BY ConsultationAssumption
<1>2. Sound(slots, bookings)
  BY RowValues DEF Init, Sound, Placed, Backed, Own, Apart, Stands, Took
<1>3. removing \in {Idle} \cup Removal
  BY DEF Init
<1>4. Mirror
  <2>1. /\ calJobs \in [JobKeys -> JobRow] /\ workers \in [CalendarWorkers -> {Idle} \cup Work]
        /\ events \in [EventKeys -> {"none", "live", "deleted"}]
        /\ \A k \in JobKeys : calJobs[k] = NoJob
        /\ \A e \in EventKeys : events[e] = "none"
        /\ \A w \in CalendarWorkers : workers[w] = Idle
    BY RowValues DEF Init
  <2>2. QED BY <2>1, RowValues, KeysOfEvents, IdleIsHonest DEF Mirror
<1>5. Quiet
  <2>1. host \in HostRow /\ host.op = 0
    BY <1>1 DEF Init, NoHost, HostRow
  <2>2. QED BY <1>1, <2>1 DEF Init, Quiet
<1>6. Reminded
  <2>1. NoMail \in MailRow /\ NoMail.status = "ABSENT" /\ NoMail.attempts = 0
    BY DEF NoMail, MailRow
  <2>2. /\ outbox \in [Messages -> MailRow] /\ mailer \in [Mailers -> {Resting} \cup Sending]
        /\ \A k \in Messages : outbox[k] = NoMail
        /\ \A m \in Mailers : mailer[m] = Resting
    BY <2>1 DEF Init, MailInit
  <2>3. QED BY <2>1, <2>2, MessagesArePairs, RowValues DEF Reminded, PendingReminderIsTrue
<1>7. QED BY <1>2, <1>3, <1>4, <1>5, <1>6 DEF ConsultationInv

LEMMA StepInv == ConsultationInv /\ [Next]_vars => ConsultationInv'
<1> SUFFICES ASSUME ConsultationInv, [Next]_vars PROVE ConsultationInv'
  OBVIOUS
<1>1. /\ Sound(slots, bookings) /\ removing \in {Idle} \cup Removal /\ Mirror /\ Quiet /\ Reminded
      /\ host.targeted \in BOOLEAN
  BY DEF ConsultationInv, Quiet, HostRow
<1>2. CASE Guest \/ ReleaseExpiredHolds
  <2>1. UNCHANGED removing
    BY <1>2 DEF Guest, ReleaseExpiredHolds, Verify, Cancel, Book, Reschedule
  <2>2. CASE ReleaseExpiredHolds
    <3>1. Quiet'
      <4>1. UNCHANGED <<host, valid, oauth, ending, phase, faults>> /\ NothingNew
        <5>1. /\ UNCHANGED <<host, valid, oauth, ending, phase, faults, calJobs>>
              /\ slots' = SlotsReleased /\ bookings' = BookingsReleased
          BY <2>2 DEF ReleaseExpiredHolds, UnchangedCalendar, connectionVars
        <5>2. \A s \in Slots : slots'[s].status = "BOOKED" => slots[s].status = "BOOKED"
          BY <1>1, <5>1, Released
        <5>3. \A b \in Bookings : bookings'[b].status = "CONFIRMED"
                                 => bookings[b].status = "CONFIRMED" /\ bookings'[b].slot = bookings[b].slot
          BY <1>1, <5>1, Released
        <5>4. QED BY <5>1, <5>2, <5>3 DEF NothingNew, LeftToDelete
      <4>2. QED BY <1>1, <4>1, QuietFrame
    <3>2. QED BY <1>1, <2>1, <2>2, <3>1, ReleaseSound, OthersMirror, BookingsReminded DEF ConsultationInv
  <2>3. ASSUME NEW b \in Bookings, Verify(b) PROVE ConsultationInv'
    BY <1>1, <2>1, <2>3, VerifySound, VerifyMirror, GuestQuiet, VerifyReminded DEF ConsultationInv
  <2>4. ASSUME NEW b \in Bookings, Cancel(b) PROVE ConsultationInv'
    BY <1>1, <2>1, <2>4, CancelSound, CancelMirror, GuestQuiet, CancelReminded DEF ConsultationInv
  <2>5. ASSUME NEW b \in Bookings, NEW s \in Slots, Book(b, s) PROVE ConsultationInv'
    BY <1>1, <2>1, <2>5, BookSound, OthersMirror, GuestQuiet, BookingsReminded DEF ConsultationInv
  <2>6. ASSUME NEW b \in Bookings, NEW s \in Slots, Reschedule(b, s) PROVE ConsultationInv'
    BY <1>1, <2>1, <2>6, RescheduleSound, RescheduleMirror, GuestQuiet, RescheduleReminded DEF ConsultationInv
  <2>7. QED BY <1>2, <2>2, <2>3, <2>4, <2>5, <2>6 DEF Guest
<1>3. CASE Admin \/ \E s \in Slots : HoldLapses(s)
  <2>1. Quiet'
    BY <1>1, <1>3, HostQuiet
  <2>2. /\ UNCHANGED <<calJobs, workers, events, outbox, mailer>>
        /\ UNCHANGED bookings \/ \E b \in Bookings, st \in {"COMPLETED", "NO_SHOW"} : CloseBooking(b, st)
    BY <1>3 DEF Admin, CreateSlots, SetSlotStatus, RemoveRead, RemoveSlot, CloseBooking, HoldLapses, ChangeSlots,
                UnchangedCalendar, UnchangedMail, mailVars
  <2>3. Mirror'
    <3>1. CASE UNCHANGED bookings
      BY <1>1, <2>2, <3>1, MirrorStays
    <3>2. QED BY <1>1, <2>2, <3>1, OthersMirror
  <2>4. Reminded'
    <3>1. CASE UNCHANGED bookings
      BY <1>1, <2>2, <3>1, RemindedStays
    <3>2. QED BY <1>1, <2>2, <3>1, BookingsReminded
  <2>5. Sound(slots, bookings)' /\ removing' \in {Idle} \cup Removal
    <3>1. CASE \/ \E S \in (SUBSET Slots) \ {{}} : CreateSlots(S)
               \/ \E s \in Slots : SetSlotStatus(s, "OPEN") \/ SetSlotStatus(s, "BLOCKED") \/ HoldLapses(s)
      <4>1. UNCHANGED removing
        BY <3>1 DEF CreateSlots, SetSlotStatus, HoldLapses, ChangeSlots
      <4>2. QED BY <1>1, <3>1, <4>1, SlotsSound
    <3>2. ASSUME NEW s \in Slots, RemoveRead(s) PROVE Sound(slots, bookings)' /\ removing' \in {Idle} \cup Removal
      <4>1. removing' = [pc |-> "remove", slot |-> s, booked |-> EverBooked(s)] /\ UNCHANGED <<slots, bookings>>
        BY <3>2 DEF RemoveRead
      <4>2. EverBooked(s) \in BOOLEAN
        BY DEF EverBooked
      <4>3. removing' \in Removal
        BY <4>1, <4>2 DEF Removal
      <4>4. QED BY <1>1, <4>1, <4>3
    <3>3. CASE RemoveSlot
      <4>1. removing' = Idle
        BY <3>3 DEF RemoveSlot
      <4>2. QED BY <1>1, <3>3, <4>1, RemoveSound
    <3>4. ASSUME NEW b \in Bookings, NEW st \in {"COMPLETED", "NO_SHOW"}, CloseBooking(b, st)
          PROVE  Sound(slots, bookings)' /\ removing' \in {Idle} \cup Removal
      <4>1. UNCHANGED removing
        BY <3>4 DEF CloseBooking
      <4>2. QED BY <1>1, <3>4, <4>1, CloseSound
    <3>5. QED BY <1>3, <3>1, <3>2, <3>3, <3>4 DEF Admin
  <2>6. QED BY <2>1, <2>3, <2>4, <2>5 DEF ConsultationInv
<1>4. CASE Calendar
  <2>1. UNCHANGED <<bookings, removing, outbox, mailer>>
    BY <1>4 DEF Calendar, RecoverCalendarJob, CalendarRun, SelectCalendarJob, ClaimCalendarJob, ExecuteCreate,
                ExecuteDelete, CompleteCalendarJob, FailCalendarJob, CalendarCrash, mailVars
  <2>2. Quiet'
    BY <1>1, <1>4, CalendarQuiet DEF Calendar
  <2>3. Reminded'
    BY <1>1, <2>1, RemindedStays
  <2>4. ASSUME NEW k \in JobKeys, RecoverCalendarJob(k) PROVE Sound(slots, bookings)' /\ Mirror'
    BY <1>1, <2>1, <2>4, RecoverJobMirror DEF RecoverCalendarJob
  <2>5. ASSUME NEW w \in CalendarWorkers, CalendarCrash(w) \/ ClaimCalendarJob(w) \/ ExecuteDelete(w)
        PROVE  Sound(slots, bookings)' /\ Mirror'
    BY <1>1, <2>1, <2>5, CrashMirror, ClaimJobMirror, DeleteMirror DEF CalendarCrash, ClaimCalendarJob, ExecuteDelete
  <2>6. ASSUME NEW w \in CalendarWorkers, CompleteCalendarJob(w) \/ FailCalendarJob(w)
        PROVE  Sound(slots, bookings)' /\ Mirror'
    BY <1>1, <2>1, <2>6, MarkMirror DEF CompleteCalendarJob, FailCalendarJob
  <2>7. ASSUME NEW w \in CalendarWorkers, NEW k \in JobKeys, SelectCalendarJob(w, k)
        PROVE  Sound(slots, bookings)' /\ Mirror'
    BY <1>1, <2>1, <2>7, SelectJobMirror DEF SelectCalendarJob
  <2>8. ASSUME NEW w \in CalendarWorkers, ExecuteCreate(w) PROVE Sound(slots, bookings)' /\ Mirror'
    <3> DEFINE b == workers[w].key[2][1]
               r == workers[w].key[2][2]
    <3>1. workers[w].pc # "idle" /\ workers[w].key[1] = "create"
      BY <2>8 DEF ExecuteCreate
    <3>2. b \in Bookings /\ r \in Revisions
      BY <1>1, <3>1, WorkerType DEF JobKeys, EventKeys
    <3>3. UNCHANGED slots \/ (~NothingToCreate(b, r) /\ CreateEvent(w, b, r))
      BY <2>8 DEF ExecuteCreate
    <3> HIDE DEF b, r
    <3>4. Sound(slots, bookings)'
      BY <1>1, <2>1, <3>2, <3>3, CreateSound
    <3>5. QED BY <1>1, <2>8, <3>4, CreateMirror
  <2>9. Sound(slots, bookings)' /\ Mirror'
    BY <1>4, <2>4, <2>5, <2>6, <2>7, <2>8 DEF Calendar, CalendarRun
  <2>10. QED BY <1>1, <2>1, <2>2, <2>3, <2>9 DEF ConsultationInv
<1>5. CASE Connection \/ (\E s \in Slots : Approach(s)) \/ UNCHANGED vars
  <2>1. UNCHANGED <<slots, bookings, removing, calJobs, workers, events, outbox, mailer>>
    <3>1. CASE Connection
      BY <3>1 DEF Connection, ChangeSettings, ConnectStart, ConnectCallback, DisconnectStage, Revoke, ReleaseStage,
                  Finalize, DisconnectCrash, UnchangedButConnection, calendarVars, mailVars
    <3>2. CASE \E s \in Slots : Approach(s)
      BY <3>2 DEF Approach, UnchangedCalendar, UnchangedMail, mailVars
    <3>3. CASE UNCHANGED vars
      BY <3>3 DEF vars, calendarVars, mailVars
    <3>4. QED BY <1>5, <3>1, <3>2, <3>3
  <2>2. Mirror' /\ Reminded'
    BY <1>1, <2>1, MirrorStays, RemindedStays
  <2>3. CASE UNCHANGED vars
    <3>1. UNCHANGED <<host, valid, oauth, ending, phase, faults>> /\ NothingNew
      BY <2>3 DEF vars, calendarVars, connectionVars, NothingNew, LeftToDelete
    <3>2. QED BY <1>1, <2>1, <2>2, <3>1, QuietFrame DEF ConsultationInv
  <2>4. CASE Connection \/ \E s \in Slots : Approach(s)
    BY <1>1, <2>1, <2>2, <2>4, ConnectionQuiet, TimeQuiet DEF ConsultationInv
  <2>5. QED BY <1>5, <2>3, <2>4
<1>6. CASE Reminders
  <2>1. UNCHANGED <<slots, bookings, removing, calJobs, workers, events>>
        /\ UNCHANGED <<host, valid, oauth, ending, phase, faults>>
    BY <1>6 DEF Reminders, calendarVars, connectionVars
  <2>2. Reminded'
    BY <1>1, <1>6, <2>1, MailReminded DEF Reminders
  <2>3. NothingNew
    BY <2>1 DEF NothingNew, LeftToDelete
  <2>4. QED BY <1>1, <2>1, <2>2, <2>3, MirrorStays, QuietFrame DEF ConsultationInv
<1>7. QED BY <1>2, <1>3, <1>4, <1>5, <1>6 DEF Next

\* Every reachable state satisfies the invariant.
LEMMA Holds == Spec => []ConsultationInv
<1>1. QED BY InitInv, StepInv, PTL DEF Spec

LEMMA InvApart == ConsultationInv => NoDoubleBooking
<1> SUFFICES ASSUME Sound(slots, bookings) PROVE NoDoubleBooking
  BY DEF ConsultationInv
<1>1. QED BY DEF Sound, Apart, Stands, NoDoubleBooking

LEMMA InvAccounts == ConsultationInv => SlotsAccounted
<1> SUFFICES ASSUME ConsultationInv PROVE SlotsAccounted
  OBVIOUS
<1>1. Sound(slots, bookings) /\ Mirror /\ Quiet
  BY DEF ConsultationInv
<1>2. TypeOK
  <2>1. slots \in [Slots -> SlotRow] /\ bookings \in [Bookings -> BookingRow]
    BY <1>1 DEF Sound
  <2>2. calJobs \in [JobKeys -> JobRow] /\ events \in [EventKeys -> {"none", "live", "deleted"}]
    BY <1>1 DEF Mirror
  <2>3. /\ host \in HostRow /\ valid \subseteq 1 .. MaxGrants /\ oauth \subseteq 0 .. MaxGrants
        /\ phase \in [Slots -> {"far", "near", "over"}] /\ faults \in 0 .. CalendarFaults
    BY <1>1 DEF Quiet
  <2>4. QED BY <2>1, <2>2, <2>3 DEF TypeOK, SlotRow, BookingRow, JobRow, HostRow
<1>3. ASSUME NEW b \in Bookings
      PROVE  /\ bookings[b].status = "PENDING" => SlotOf(b).status \in {"HELD", "CANCELED"}
             /\ bookings[b].status \in Took => SlotOf(b).status \in {"BOOKED", "CANCELED"}
  BY <1>1 DEF Sound, Placed, SlotOf
<1>4. ASSUME NEW s \in Slots
      PROVE  /\ slots[s].status = "HELD" =>
                  \E b \in Bookings : bookings[b].slot = s /\ bookings[b].status = "PENDING"
             /\ slots[s].status = "BOOKED" =>
                  \E b \in Bookings : bookings[b].slot = s /\ bookings[b].status \in Took
  BY <1>1 DEF Sound, Backed
<1>5. MeetingIsOwn
  BY <1>1 DEF Sound, Own, MeetingIsOwn
<1>6. QED BY <1>2, <1>3, <1>4, <1>5 DEF SlotsAccounted

LEMMA InvEvents == ConsultationInv => EventsAccounted
BY DEF ConsultationInv, Mirror, Current, EventsAccounted

LEMMA InvReminders == ConsultationInv => PendingReminderIsTrue
BY DEF ConsultationInv, Reminded

\* Only the request that owns the operation forgets the grant.
LEMMA Forgetting ==
  ASSUME ConsultationInv, [Next]_vars, host.grant # 0, host'.grant = 0
  PROVE  \A e \in EventKeys : ~LeftToDelete(e)
<1>1. Quiet /\ host \in HostRow
  BY DEF ConsultationInv, Quiet
<1>2. CASE \E d \in Disconnects : Finalize(d)
  <2>1. PICK d \in Disconnects : Finalize(d)
    BY <1>2
  <2>2. ending[d].pc = "finalize" /\ OwnsOperation(d)
    BY <2>1 DEF Finalize
  <2>3. ending[d] \in Ending
    BY <1>1, <2>2, RowValues DEF Quiet
  <2>4. host.op # 0
    BY <2>2, <2>3 DEF OwnsOperation, Ending
  <2>5. QED BY <1>1, <2>4 DEF Quiet, Unused
<1>3. CASE ~\E d \in Disconnects : Finalize(d)
  <2>1. CASE ChangeSettings
    BY <2>1, <1>1 DEF ChangeSettings, HostRow
  <2>2. ASSUME NEW e \in 0 .. MaxGrants, ConnectCallback(e) PROVE FALSE
    <3>1. host' = [host EXCEPT !.grant = host.issued + 1, !.issued = host.issued + 1]
      BY <2>2 DEF ConnectCallback
    <3>2. host'.grant = host.issued + 1 /\ host.issued \in 0 .. MaxGrants
      BY <1>1, <3>1 DEF HostRow
    <3>3. QED BY <3>2, ConsultationAssumption
  <2>3. ASSUME NEW d \in Disconnects, DisconnectStage(d) \/ ReleaseStage(d) PROVE FALSE
    <3>1. host'.grant = host.grant
      BY <1>1, <2>3 DEF DisconnectStage, ReleaseStage, HostRow
    <3>2. QED BY <3>1
  <2>4. CASE UNCHANGED host
    BY <2>4
  <2>5. \/ UNCHANGED host \/ ChangeSettings
        \/ \E e \in 0 .. MaxGrants : ConnectCallback(e)
        \/ \E d \in Disconnects : DisconnectStage(d) \/ ReleaseStage(d)
    <3>1. CASE Guest \/ ReleaseExpiredHolds
      BY <3>1 DEF Guest, ReleaseExpiredHolds, Verify, Cancel, Book, Reschedule, UnchangedCalendar, connectionVars
    <3>2. CASE Admin \/ \E s \in Slots : Approach(s) \/ HoldLapses(s)
      BY <3>2 DEF Admin, CreateSlots, SetSlotStatus, RemoveRead, RemoveSlot, CloseBooking, HoldLapses, Approach,
                  ChangeSlots, UnchangedCalendar, connectionVars
    <3>3. CASE Calendar
      BY <3>3 DEF Calendar, RecoverCalendarJob, CalendarRun, SelectCalendarJob, ClaimCalendarJob, ExecuteCreate,
                  ExecuteDelete, CompleteCalendarJob, FailCalendarJob, CalendarCrash, connectionVars
    <3>4. CASE Reminders
      BY <3>4 DEF Reminders, connectionVars
    <3>5. CASE Connection
      BY <1>3, <3>5 DEF Connection, ConnectStart, Revoke, DisconnectCrash
    <3>6. CASE UNCHANGED vars
      BY <3>6 DEF vars, connectionVars
    <3>7. QED BY <3>1, <3>2, <3>3, <3>4, <3>5, <3>6 DEF Next
  <2>6. QED BY <2>1, <2>2, <2>3, <2>4, <2>5
<1>4. QED BY <1>2, <1>3

LEMMA ForgettingAction ==
  ConsultationInv /\ [Next]_vars => [host.grant # 0 /\ host'.grant = 0 => ~\E e \in EventKeys : LeftToDelete(e)]_vars
BY Forgetting

\* Two guests never have the same slot (app/api/consultations/book, verify and manage): whatever
\* lapses, is released, moved or taken again meanwhile.
THEOREM SlotsAreShared == Spec => []NoDoubleBooking
<1>1. QED BY Holds, InvApart, PTL

\* Every booking that waits or is confirmed has its slot and every slot that is held or booked
\* its booking, and the meeting a slot shows is the one of the guest who has it now.
THEOREM SlotsAgree == Spec => []SlotsAccounted
<1>1. QED BY Holds, InvAccounts, PTL

\* An event in the host's calendar is the present one of a booking that stands, or a job is left
\* to delete it (calendar-sync.ts): through lost answers, stalled workers and given-up jobs.
THEOREM EventsAreAccounted == Spec => []EventsAccounted
<1>1. QED BY Holds, InvEvents, PTL

\* A reminder that nobody has tried to send announces a meeting that stands, at its time.
THEOREM RemindersAreTrue == Spec => []PendingReminderIsTrue
<1>1. QED BY Holds, InvReminders, PTL

\* The grant is forgotten (calendar-state.ts) only when no deletion is left to be made: whoever
\* books, cancels or works between the stage and the end of the operation.
THEOREM NoDeleteIsLost == Spec => DisconnectLosesNoDelete
<1>1. QED BY Holds, ForgettingAction, PTL DEF Spec, DisconnectLosesNoDelete

=============================================================================
