---------------------------- MODULE EmailOutbox ----------------------------
(***************************************************************************)
(* The email outbox (src/src/lib/email.ts) and its retention               *)
(* (src/src/lib/retention.ts).                                             *)
(*                                                                         *)
(* A message is one row under a unique idempotency key.  A run of          *)
(* processEmailOutbox recovers stale rows, reads the PENDING ones and then *)
(* claims, sends and marks them one by one.  Only the claim is guarded by  *)
(* the status; the two marks are plain updates by id.                      *)
(***************************************************************************)
EXTENDS Integers, FiniteSets

CONSTANTS
  Messages,       \* idempotency keys
  Mailers,        \* processes inside processEmailOutbox
  MaxDeliveries,  \* attempts after which a row is given up (5 in the code)
  MailFaults      \* bound: crashes, stalled deliveries and lost answers

ASSUME MessagesAssumption == IsFiniteSet(Messages) /\ IsFiniteSet(Mailers)
ASSUME MaxDeliveriesAssumption == MaxDeliveries \in Nat \ {0}
ASSUME MailFaultsAssumption == MailFaults \in Nat

VARIABLES
  outbox,      \* EmailOutbox rows by key
  mailer,      \* what each run of processEmailOutbox holds
  deliveries,  \* how often the present row of a key has reached its recipient
  blank,       \* keys delivered with the text that replaces a delivered body
  mailFaults

mailVars == <<outbox, mailer, deliveries, blank, mailFaults>>

MailStatus == {"PENDING", "RUNNING", "SUCCEEDED", "FAILED", "CANCELED"}
NoMail == [status |-> "ABSENT", attempts |-> 0, redacted |-> FALSE]
Queued == [NoMail EXCEPT !.status = "PENDING"]
Resting == [pc |-> "idle"]

\* The row as it was when the run read it: the attempts and the body.
Snapshot(k) ==
  [pc |-> "claim", key |-> k, attempts |-> outbox[k].attempts, redacted |-> outbox[k].redacted]

MailInit ==
  /\ outbox = [k \in Messages |-> NoMail]
  /\ mailer = [m \in Mailers |-> Resting]
  /\ deliveries = [k \in Messages |-> 0]
  /\ blank = {}
  /\ mailFaults = 0

(***************************************************************************)
(* Rows as others write them: what queueEmail and the cancellation of      *)
(* reminders make of the table, for a set of keys.                         *)
(***************************************************************************)

\* upsert with an empty update: an existing row stays as it is, whatever its status.
WithQueued(box, keys) ==
  [k \in Messages |-> IF k \in keys /\ box[k].status = "ABSENT" THEN Queued ELSE box[k]]

\* Mutant: the rows that failed are canceled, not those that wait.
FailedCanceled(box, keys) ==
  [k \in Messages |->
     IF k \in keys /\ box[k].status = "FAILED" THEN [box[k] EXCEPT !.status = "CANCELED"] ELSE box[k]]

\* Only PENDING rows are canceled; one that is being sent is not.
WithCanceled(box, keys) ==
  [k \in Messages |->
     IF k \in keys /\ box[k].status = "PENDING" THEN [box[k] EXCEPT !.status = "CANCELED"] ELSE box[k]]

QueueEmail(k) ==
  /\ outbox[k].status = "ABSENT"
  /\ outbox' = WithQueued(outbox, {k})
  /\ UNCHANGED <<mailer, deliveries, blank, mailFaults>>

(***************************************************************************)
(* processEmailOutbox                                                      *)
(***************************************************************************)

Held(k) == \E m \in Mailers : mailer[m].pc \in {"send", "sent", "failed"} /\ mailer[m].key = k

\* A row is stale when it was claimed more than ten minutes ago: its run has died, or
\* (a fault) it is slower than that.
Stale(k) == outbox[k].status = "RUNNING" /\ ~Held(k)

\* Mutant: a row whose attempts are used up is left RUNNING.
RecoveredForRetry(row) ==
  [row EXCEPT !.status = IF row.attempts < MaxDeliveries THEN "PENDING" ELSE @]

Recovered(row) ==
  [row EXCEPT !.status = IF row.attempts < MaxDeliveries THEN "PENDING" ELSE "FAILED"]

RecoverMail ==
  LET stale == {k \in Messages : Stale(k)}
      slow  == {k \in Messages : outbox[k].status = "RUNNING" /\ Held(k)}
  IN \E late \in SUBSET slow :
       /\ stale \cup late # {}
       /\ mailFaults + Cardinality(late) <= MailFaults
       /\ mailFaults' = mailFaults + Cardinality(late)
       /\ outbox' = [k \in Messages |->
                       IF k \in stale \cup late THEN Recovered(outbox[k]) ELSE outbox[k]]
       /\ UNCHANGED <<mailer, deliveries, blank>>

MailSelect(m, k) ==
  /\ mailer[m].pc = "idle"
  /\ outbox[k].status = "PENDING"
  /\ mailer' = [mailer EXCEPT ![m] = Snapshot(k)]
  /\ UNCHANGED <<outbox, deliveries, blank, mailFaults>>

\* Mutant: the row is claimed whatever its status.
MailClaimAnyway(m) ==
  /\ mailer[m].pc = "claim"
  /\ outbox' = [outbox EXCEPT ![mailer[m].key].status = "RUNNING", ![mailer[m].key].attempts = @ + 1]
  /\ mailer' = [mailer EXCEPT ![m].pc = "send"]
  /\ UNCHANGED <<deliveries, blank, mailFaults>>

MailClaim(m) ==
  /\ mailer[m].pc = "claim"
  /\ LET k == mailer[m].key IN
       IF outbox[k].status = "PENDING"
       THEN /\ outbox' = [outbox EXCEPT ![k].status = "RUNNING", ![k].attempts = @ + 1]
            /\ mailer' = [mailer EXCEPT ![m].pc = "send"]
       ELSE /\ mailer' = [mailer EXCEPT ![m] = Resting]
            /\ UNCHANGED outbox
  /\ UNCHANGED <<deliveries, blank, mailFaults>>

Arrives(m) ==
  /\ deliveries' = [deliveries EXCEPT ![mailer[m].key] = @ + 1]
  /\ blank' = IF mailer[m].redacted THEN blank \cup {mailer[m].key} ELSE blank

\* deliverEmail: the provider takes the message, refuses it, or takes it and the answer is lost.
DeliverEmail(m) ==
  /\ mailer[m].pc = "send"
  /\ \/ /\ Arrives(m)
        /\ mailer' = [mailer EXCEPT ![m].pc = "sent"]
        /\ UNCHANGED mailFaults
     \/ /\ mailer' = [mailer EXCEPT ![m].pc = "failed"]
        /\ UNCHANGED <<deliveries, blank, mailFaults>>
     \/ /\ mailFaults < MailFaults
        /\ mailFaults' = mailFaults + 1
        /\ Arrives(m)
        /\ mailer' = [mailer EXCEPT ![m].pc = "failed"]
  /\ UNCHANGED outbox

MarkSent(m) ==
  /\ mailer[m].pc = "sent"
  /\ outbox' = [outbox EXCEPT ![mailer[m].key].status = "SUCCEEDED",
                              ![mailer[m].key].redacted = TRUE]
  /\ mailer' = [mailer EXCEPT ![m] = Resting]
  /\ UNCHANGED <<deliveries, blank, mailFaults>>

\* The catch block decides with the attempts the run has read.
MarkFailed(m) ==
  /\ mailer[m].pc = "failed"
  /\ outbox' = [outbox EXCEPT ![mailer[m].key].status =
                  IF mailer[m].attempts >= MaxDeliveries - 1 THEN "FAILED" ELSE "PENDING"]
  /\ mailer' = [mailer EXCEPT ![m] = Resting]
  /\ UNCHANGED <<deliveries, blank, mailFaults>>

MailCrash(m) ==
  /\ mailer[m].pc # "idle"
  /\ mailFaults < MailFaults
  /\ mailFaults' = mailFaults + 1
  /\ mailer' = [mailer EXCEPT ![m] = Resting]
  /\ UNCHANGED <<outbox, deliveries, blank>>

\* runDataRetention deletes settled rows after some days; no run holds one by then.
PurgeMail(k) ==
  /\ outbox[k].status \in {"SUCCEEDED", "CANCELED", "FAILED"}
  /\ ~Held(k)
  /\ \A m \in Mailers : mailer[m].pc = "claim" => mailer[m].key # k
  /\ outbox' = [outbox EXCEPT ![k] = NoMail]
  /\ deliveries' = [deliveries EXCEPT ![k] = 0]
  /\ UNCHANGED <<mailer, blank, mailFaults>>

MailRun(m) ==
  \/ \E k \in Messages : MailSelect(m, k)
  \/ MailClaim(m)
  \/ DeliverEmail(m)
  \/ MarkSent(m)
  \/ MarkFailed(m)

MailNext ==
  \/ \E k \in Messages : QueueEmail(k) \/ PurgeMail(k)
  \/ RecoverMail
  \/ \E m \in Mailers : MailRun(m) \/ MailCrash(m)

(***************************************************************************)
(* The outbox alone.  Rows are taken oldest first, so a waiting one is     *)
(* not passed over for ever: strong fairness per key.  A process that does *)
(* not crash carries its delivery through.                                 *)
(***************************************************************************)
MailFairness ==
  /\ WF_mailVars(RecoverMail)
  /\ \A k \in Messages : SF_mailVars(\E m \in Mailers : MailSelect(m, k))
  /\ \A m \in Mailers :
       WF_mailVars(MailClaim(m) \/ DeliverEmail(m) \/ MarkSent(m) \/ MarkFailed(m))

MailSpec == MailInit /\ [][MailNext]_mailVars /\ MailFairness

MailTypeOK ==
  /\ outbox \in [Messages -> [status : MailStatus \cup {"ABSENT"},
                             attempts : Nat, redacted : BOOLEAN]]
  /\ \A m \in Mailers :
       \/ mailer[m] = Resting
       \/ mailer[m] \in [pc : {"claim", "send", "sent", "failed"}, key : Messages,
                         attempts : Nat, redacted : BOOLEAN]
  /\ deliveries \in [Messages -> Nat]
  /\ blank \subseteq Messages
  /\ mailFaults \in 0..MailFaults

\* A message marked SUCCEEDED has reached its recipient, and reaches him again only where a
\* crash, a stalled process or a lost answer came between the delivery and the mark: each
\* of these accounts for one further copy.
DeliveriesExplained ==
  /\ MailTypeOK
  /\ \A k \in Messages :
       /\ outbox[k].status = "SUCCEEDED" => deliveries[k] > 0
       /\ deliveries[k] <= 1 + mailFaults

\* A message that waits is sent, given up or canceled in the end, through crashes and stalls.
MailSettles ==
  \A k \in Messages :
    (outbox[k].status = "PENDING") ~> (outbox[k].status \notin {"PENDING", "RUNNING"})

=============================================================================
