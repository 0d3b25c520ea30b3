--------------------------- MODULE MCConsultation ---------------------------
(***************************************************************************)
(* Consultation for TLC.  All of it at once is too large for small         *)
(* instances to be explored, so a behaviour plays one of four scenes: the  *)
(* guests and the administrator, the reminders of one guest, the calendar  *)
(* jobs of one guest, or the connection alone.                             *)
(***************************************************************************)
EXTENDS Consultation, TLC

CONSTANT Scenes
VARIABLE scene

ReminderKeys == Bookings \X Slots
SlotSymmetry == Permutations(Slots)
One == CHOOSE b \in Bookings : TRUE
OneRequest == CHOOSE d \in Disconnects : TRUE

OneGuest ==
  \/ Verify(One) \/ Cancel(One)
  \/ \E s \in Slots : Book(One, s) \/ Reschedule(One, s)
  \/ CreateSlots(Slots)

Time == \E s \in Slots : Approach(s) \/ HoldLapses(s)

MCInit == Init /\ scene \in Scenes

MCNext ==
  /\ UNCHANGED scene
  /\ \/ scene = "guests" /\ (Guest \/ ReleaseExpiredHolds \/ Admin \/ Time)
     \/ scene = "reminders" /\ (OneGuest \/ Reminders)
     \/ /\ scene = "calendar"
        /\ OneGuest \/ Calendar \/ Connection \/ \E s \in Slots : Approach(s)
        /\ bookings'[One].revision <= 2 /\ host'.issued <= 1 /\ host'.epoch <= 1
        /\ \A d \in Disconnects \ {OneRequest} : ending'[d].pc = "idle"
     \/ scene = "connection" /\ Connection

MCSpec == MCInit /\ [][MCNext]_<<vars, scene>>

=============================================================================
