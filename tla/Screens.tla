------------------------------ MODULE Screens ------------------------------
(***************************************************************************)
(* Pages that talk to the server on their own: the form of the technical   *)
(* profile, which saves itself (TechnicalProfileWorkspace.tsx), the        *)
(* workspace of the analyses, which asks while a run is pending            *)
(* (AnalysisWorkspace.tsx), like the one of the simulations                *)
(* (SimulationWorkspace.tsx) and the panel of the invoices                 *)
(* (InvoiceProcessingPanel.tsx), and the dashboard, which asks every       *)
(* minute (EnergyDashboard.tsx).  Requests are handled and answered in any *)
(* order.                                                                  *)
(*                                                                         *)
(* The content of a form is the number of its last edit; what the server   *)
(* shows of a plant is a number, odd while a run or an import is pending.  *)
(* Tabs that are hidden do not ask; becoming visible is one more poll.     *)
(***************************************************************************)
EXTENDS Naturals, FiniteSets

CONSTANTS
  Addresses,     \* the plants a page may show
  MaxEdits,      \* bound: edits of the form
  MaxSaves,      \* bound: saves of the form
  MaxChanges,    \* bound: changes of what the server shows of a plant
  MaxVisits,     \* bound: changes of the address
  MaxInFlight    \* bound: requests of a page at one time

ASSUME FormAssumption == MaxEdits \in Nat /\ MaxSaves \in Nat

VARIABLES
  edit,          \* the form
  saveTimer,     \* saveTimerRef: 800 ms after the last edit
  saveSequence,  \* saveSequenceRef
  message, pending,
  patch,         \* the PATCH requests by sequence
  profile        \* the form the server has stored last

formVars == <<edit, saveTimer, saveSequence, message, pending, patch, profile>>

VARIABLES
  page,          \* which of the pages it is
  address,       \* the plant in the address of the page
  shown,         \* workspace, snapshot: the plant and its content
  content,       \* what the server would show now
  flight,        \* the requests of the page
  visits

pageVars == <<page, address, shown, content, flight, visits>>

-----------------------------------------------------------------------------
(* The form that saves itself.                                              *)

Unsent == [state |-> "none", form |-> 0]

FormInit ==
  /\ edit = 0 /\ profile = 0
  /\ saveTimer = FALSE /\ saveSequence = 0
  /\ message = "none" /\ pending = FALSE
  /\ patch = [n \in 1..MaxSaves |-> Unsent]

\* scheduleSave, on every change
Edit ==
  /\ edit < MaxEdits /\ edit' = edit + 1
  /\ saveTimer' = TRUE
  /\ message' = "saving"
  /\ UNCHANGED <<saveSequence, pending, patch, profile>>

\* saveProfile, when the timer fires or the form is submitted, with or without a change
SaveProfile ==
  /\ saveSequence < MaxSaves /\ saveSequence' = saveSequence + 1
  /\ saveTimer' = FALSE
  /\ patch' = [patch EXCEPT ![saveSequence'] = [state |-> "sent", form |-> edit]]
  /\ pending' = TRUE
  /\ UNCHANGED <<edit, message, profile>>

\* The route stores the values it gets, whatever was stored after they were sent.
HandlePatch(n) ==
  /\ patch[n].state = "sent"
  /\ \/ patch' = [patch EXCEPT ![n].state = "stored"] /\ profile' = patch[n].form
     \/ patch' = [patch EXCEPT ![n].state = "refused"] /\ UNCHANGED profile
  /\ UNCHANGED <<edit, saveTimer, saveSequence, message, pending>>

\* An answer may be lost though the values are stored; what was refused is never saved.
AnswerOfLatest(n) == TRUE  \* mutant: the answers are not compared with the sequence
Latest(n) == n = saveSequence

AnswerPatch(n) ==
  /\ patch[n].state \in {"stored", "refused"}
  /\ patch' = [patch EXCEPT ![n].state = IF @ = "stored" THEN "answered" ELSE "rejected"]
  /\ IF Latest(n)
     THEN /\ \/ patch[n].state = "stored" /\ message' = "saved"
             \/ message' = "failed"
          /\ pending' = FALSE
     ELSE UNCHANGED <<message, pending>>
  /\ UNCHANGED <<edit, saveTimer, saveSequence, profile>>

FormNext ==
  \/ Edit \/ SaveProfile
  \/ \E n \in 1..MaxSaves : HandlePatch(n) \/ AnswerPatch(n)

FormSpec == FormInit /\ [][FormNext]_formVars

FormTypeOK ==
  /\ edit \in 0..MaxEdits /\ profile \in 0..MaxEdits
  /\ saveTimer \in BOOLEAN /\ saveSequence \in 0..MaxSaves
  /\ message \in {"none", "saving", "saved", "failed"} /\ pending \in BOOLEAN
  /\ patch \in [1..MaxSaves -> [state: {"none", "sent", "stored", "refused", "answered", "rejected"}, form: 0..MaxEdits]]

\* "Uloženo automaticky" with a check mark, and nothing being saved, means that
\* the server has stored what is in the form, not an edit before it
\* (TechnicalProfileWorkspace.tsx:184-220): the answers of several saves come in
\* any order, some are refused and some are lost.
SavedIsLatest ==
  /\ FormTypeOK
  /\ message = "saved" /\ ~saveTimer /\ ~pending =>
       \E n \in 1..MaxSaves : patch[n] = [state |-> "answered", form |-> edit]

-----------------------------------------------------------------------------
(* The pages of a plant.                                                    *)

Slots == 1..MaxInFlight
Free == [state |-> "free", plant |-> CHOOSE p \in Addresses : TRUE, content |-> 0]
IsPending(c) == c % 2 = 1

Pages == {"analysis", "dashboard", "simulation", "invoices"}

PageInit ==
  /\ page \in Pages
  /\ address \in Addresses
  /\ content = [p \in Addresses |-> 0]
  /\ shown = [plant |-> address, content |-> 0]
  /\ flight = [i \in Slots |-> Free]
  /\ visits = 0

Ask(p, what) ==
  \E i \in Slots :
    /\ flight[i].state = "free" /\ \A j \in 1..(i - 1) : flight[j].state # "free"
    /\ flight' = [flight EXCEPT ![i] = [state |-> what, plant |-> p, content |-> 0]]

\* A run or an import begins, makes progress or ends without this page.
ContentChanges(p) ==
  /\ content[p] < MaxChanges
  /\ content' = [content EXCEPT ![p] = @ + 1]
  /\ UNCHANGED <<page, address, shown, flight, visits>>

\* The analyses of a plant come with the page; the dashboard loads its plant itself; the other pages
\* are opened anew.
Navigate(p) ==
  /\ page \in {"analysis", "dashboard"}
  /\ p # address /\ visits < MaxVisits /\ visits' = visits + 1
  /\ address' = p
  /\ IF page = "analysis"
     THEN shown' = [plant |-> p, content |-> content[p]] /\ UNCHANGED flight
     ELSE Ask(p, "sent") /\ UNCHANGED shown
  /\ UNCHANGED <<page, content>>

\* refresh, every four seconds while a run of the shown workspace is pending
RefreshAnalyses ==
  /\ page = "analysis" /\ IsPending(shown.content)
  /\ Ask(shown.plant, "sent")
  /\ UNCHANGED <<page, address, shown, content, visits>>

\* load, every four seconds while a job is pending
RefreshSimulations ==
  /\ page = "simulation" /\ IsPending(shown.content)
  /\ Ask(shown.plant, "sent")
  /\ UNCHANGED <<page, address, shown, content, visits>>

\* refreshInvoice, every two seconds while a document waits or is parsed
RefreshInvoice ==
  /\ page = "invoices" /\ IsPending(shown.content)
  /\ Ask(shown.plant, "sent")
  /\ UNCHANGED <<page, address, shown, content, visits>>

\* One at a time: the buttons, or the input of the files, are off meanwhile.
ActOnce == (\A i \in Slots : flight[i].state # "action") /\ Ask(shown.plant, "action")

\* What the user does with an analysis: the request, then a refresh.
Act ==
  /\ page = "analysis" /\ ActOnce
  /\ UNCHANGED <<page, address, shown, content, visits>>

SubmitSimulation ==
  /\ page = "simulation" /\ ActOnce
  /\ UNCHANGED <<page, address, shown, content, visits>>

UploadInvoices ==
  /\ page = "invoices" /\ ActOnce
  /\ UNCHANGED <<page, address, shown, content, visits>>

Start == ~IsPending(shown.content) /\ Act  \* BASE, once; also by start=1 in the address
StartPro == Act                            \* a draft
RetryHistory == Act
Cancel == Act                              \* of a draft or of a queued run

\* The interval is always set: of eight seconds during an import, else of a minute.
PollWhilePending == IsPending(shown.content)  \* mutant: only during an import
PollDashboard == page = "dashboard"

LoadSnapshot ==
  /\ page = "dashboard" /\ PollDashboard
  /\ Ask(shown.plant, "sent")
  /\ UNCHANGED <<page, address, shown, content, visits>>

\* An action on analyses may begin a run or end one; the others have the page wait for something
\* new.  What there is already, or more than there may be, changes nothing.
Acted(c) ==
  LET next == IF page = "analysis" \/ ~IsPending(c) THEN c + 1 ELSE c + 2 IN
  IF next <= MaxChanges THEN next ELSE c

\* The action is carried out; the page then asks what has become of it.
CarryOut(i) ==
  /\ page # "simulation" /\ flight[i].state = "action"
  /\ content' = [content EXCEPT ![flight[i].plant] = Acted(@)]
  /\ flight' = [flight EXCEPT ![i].state = "sent"]
  /\ UNCHANGED <<page, address, shown, visits>>

\* The answer is the job itself, and goes to the others at once.
Enqueue(i) ==
  /\ page = "simulation" /\ flight[i].state = "action"
  /\ content' = [content EXCEPT ![flight[i].plant] = Acted(@)]
  /\ flight' = [flight EXCEPT ![i].state = "answered", ![i].content = content'[flight[i].plant]]
  /\ UNCHANGED <<page, address, shown, visits>>

Answer(i) ==
  /\ flight[i].state = "sent"
  /\ flight' = [flight EXCEPT ![i].state = "answered", ![i].content = content[flight[i].plant]]
  /\ UNCHANGED <<page, address, shown, content, visits>>

GetAnalysisWorkspace(i) == page = "analysis" /\ Answer(i)
GetDashboard(i) == page = "dashboard" /\ Answer(i)
GetSimulationWorkspace(i) == page = "simulation" /\ Answer(i)
GetInvoiceReview(i) == page = "invoices" /\ Answer(i)

HandleGet(i) ==
  \/ GetAnalysisWorkspace(i) \/ GetDashboard(i) \/ GetSimulationWorkspace(i) \/ GetInvoiceReview(i)

HandleRequest(i) == CarryOut(i) \/ Enqueue(i) \/ HandleGet(i)

\* A request that fails changes nothing but a message.
RequestFails(i) ==
  /\ flight[i].state \in {"sent", "action"}
  /\ flight' = [flight EXCEPT ![i] = Free]
  /\ UNCHANGED <<page, address, shown, content, visits>>

\* refresh drops the answer for a plant the page has left; the others take every answer.
Shows(p) == page = "analysis" => shown.plant = p

Deliver(i) ==
  /\ flight[i].state = "answered"
  /\ shown' = IF Shows(flight[i].plant)
              THEN [plant |-> flight[i].plant, content |-> flight[i].content] ELSE shown
  /\ flight' = [flight EXCEPT ![i] = Free]
  /\ UNCHANGED <<page, address, content, visits>>

Poll == RefreshAnalyses \/ RefreshSimulations \/ RefreshInvoice \/ LoadSnapshot

PageNext ==
  \/ \E p \in Addresses : ContentChanges(p) \/ Navigate(p)
  \/ Poll
  \/ Start \/ StartPro \/ RetryHistory \/ Cancel
  \/ SubmitSimulation \/ UploadInvoices
  \/ \E i \in Slots : HandleRequest(i) \/ RequestFails(i) \/ Deliver(i)

\* A page that keeps asking is answered in the end.  Its timer fires whatever is under way.
PageSpec ==
  /\ PageInit /\ [][PageNext]_pageVars
  /\ SF_pageVars(Poll)
  /\ \A i \in Slots : SF_pageVars(HandleGet(i)) /\ WF_pageVars(Deliver(i))

PageTypeOK ==
  /\ page \in Pages /\ address \in Addresses
  /\ shown \in [plant: Addresses, content: 0..MaxChanges]
  /\ content \in [Addresses -> 0..MaxChanges]
  /\ flight \in [Slots -> [state: {"free", "sent", "action", "answered"}, plant: Addresses, content: 0..MaxChanges]]
  /\ visits \in 0..MaxVisits

\* The analyses shown are those of the plant in the address, however late the
\* answers for the plant before it come (AnalysisWorkspace.tsx:466-485).
WorkspaceOfAddress == page = "analysis" => shown.plant = address

\* While it stays open, the dashboard ends up with what the server has of the
\* plant it shows, though late answers overwrite newer ones (EnergyDashboard.tsx:606-655).
\* So does every other page as long as it shows something pending.  (A late answer
\* may take a new job from the page, which then asks no more.)
PageCatchesUp ==
  <>[](page = "dashboard" \/ IsPending(shown.content) => shown.content = content[shown.plant])

\* The pages of a plant, together.
PagesAreTrue == [](PageTypeOK /\ WorkspaceOfAddress) /\ PageCatchesUp

=============================================================================
