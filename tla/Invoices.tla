------------------------------- MODULE Invoices -------------------------------
(***************************************************************************)
(* Supply invoices of a site (src/src/lib/energy/invoice-*.ts,             *)
(* src/scripts/invoice-agent).                                             *)
(*                                                                         *)
(* The customer asks for a processing, uploads up to three documents and   *)
(* waits.  The coordinator takes the unread documents one by one, has each *)
(* one parsed by a server of its own, which parses one document at a time, *)
(* and stores a draft, or marks it as failed; an operator may have one     *)
(* parsed by a script (run.sh).  The customer                              *)
(* confirms the drafts, or an administrator reviews the request by hand:   *)
(* either one writes the values into the site's profile (SitePrices).      *)
(* Documents are deleted when their retention ends, and may be uploaded    *)
(* again.                                                                  *)
(***************************************************************************)
EXTENDS SitePrices

CONSTANTS
  Docs,           \* contents a customer may upload
  MaxDocuments,   \* ENERGY_INVOICE_MAX_DOCUMENTS
  MaxDeaths,      \* bound: deaths of the coordinator
  MaxByHand       \* bound: reviews, confirmations and expired retentions, together

ASSUME InvoicesAssumption ==
  /\ IsFiniteSet(Docs) /\ "none" \notin Docs   \* what stands for no document
  /\ MaxDocuments \in Nat \ {0} /\ MaxDeaths \in Nat /\ MaxByHand \in Nat

VARIABLES
  request,      \* EnergyInvoiceRequest.status
  claimIsOld,   \* the request has not been written for two hours
  doc,          \* EnergyInvoiceDocument and its AI extraction
  uploading,    \* uploads that have read the request
  coordinator,  \* what the coordinator holds
  parsing,      \* the flag of the parser: it has a document
  operator,     \* what the script of an operator holds
  reviewing,    \* the review that has read the profile
  parses,       \* calls of the parser per document
  deaths,
  byHand,       \* reviews of each document by hand
  hands

docVars == <<request, claimIsOld, doc>>
invoiceVars == <<docVars, uploading, coordinator, parsing, operator, reviewing, parses, deaths, byHand, hands>>

Missing == [stored |-> FALSE, purged |-> FALSE, read |-> FALSE, version |-> "none", data |-> "empty"]
NoDocument == "none"
Waits == [pc |-> "idle", doc |-> NoDocument]
NotReviewing == [pc |-> "idle", saw |-> Incomplete, new |-> Incomplete, status |-> "CONFIRMED", doc |-> NoDocument]

InvoicesInit ==
  /\ request = "NONE"
  /\ claimIsOld = FALSE
  /\ doc = [d \in Docs |-> Missing]
  /\ uploading = {}
  /\ coordinator = Waits /\ operator = Waits
  /\ parsing = FALSE
  /\ reviewing = NotReviewing
  /\ parses = [d \in Docs |-> 0]
  /\ deaths = 0
  /\ byHand = [d \in Docs |-> 0]
  /\ hands = 0

\* Every write of the request renews its updatedAt.
SetRequest(status) == request' = status /\ claimIsOld' = FALSE

Stored == {d \in Docs : doc[d].stored}

ByHand(d) ==
  /\ hands < MaxByHand /\ hands' = hands + 1
  /\ byHand' = IF d = NoDocument THEN byHand ELSE [byHand EXCEPT ![d] = @ + 1]

(***************************************************************************)
(* Uploads                                                                 *)
(***************************************************************************)

CreateInvoiceRequest ==
  /\ request = "NONE"
  /\ SetRequest("REQUESTED")
  /\ UNCHANGED <<doc, uploading, coordinator, parsing, operator, reviewing, parses, deaths, byHand, hands>>

\* The request is read before its advisory lock is taken.
OpenUpload(d) ==
  /\ d \notin uploading
  /\ ~doc[d].stored
  /\ request \in {"REQUESTED", "RECEIVED", "PROCESSING", "NEEDS_INPUT"}
  /\ uploading' = uploading \cup {d}
  /\ UNCHANGED <<docVars, coordinator, parsing, operator, reviewing, parses, deaths, byHand, hands>>

\* A content deleted before comes back in its old row, with its marker and its extractions.
StoreDocument(d) ==
  /\ d \in uploading
  /\ uploading' = uploading \ {d}
  /\ IF doc[d].stored \/ Cardinality(Stored) >= MaxDocuments
       THEN UNCHANGED docVars
       ELSE doc' = [doc EXCEPT ![d].stored = TRUE] /\ SetRequest("RECEIVED")
  /\ UNCHANGED <<coordinator, parsing, operator, reviewing, parses, deaths, byHand, hands>>

PurgeExpiredEnergyInvoiceDocuments(d) ==
  /\ doc[d].stored
  /\ doc' = [doc EXCEPT ![d].stored = FALSE, ![d].purged = TRUE, ![d].data = "empty"]
  /\ ByHand(NoDocument)
  /\ UNCHANGED <<request, claimIsOld, uploading, coordinator, parsing, operator, reviewing, parses, deaths>>

(***************************************************************************)
(* The coordinator                                                         *)
(***************************************************************************)

\* Two hours without a write, longer than any parsing of the coordinator: the claim of a dead one,
\* or of a script, which may run for as long as it likes.
ClaimGetsOld ==
  /\ request = "PROCESSING" /\ ~claimIsOld
  /\ coordinator.pc = "idle"
  /\ claimIsOld' = TRUE
  /\ UNCHANGED <<request, doc, uploading, coordinator, parsing, operator, reviewing, parses, deaths, byHand, hands>>

Unread(d) == doc[d].stored /\ doc[d].version # "failed" /\ ~doc[d].read

\* Mutant: a request that waits for the customer is not taken up.
ClaimableOnce == request = "RECEIVED" \/ (request = "PROCESSING" /\ claimIsOld)

\* A finished document leaves the request in NEEDS_INPUT, and the others still have to be parsed.
Claimable == request \in {"RECEIVED", "NEEDS_INPUT"} \/ (request = "PROCESSING" /\ claimIsOld)

\* Under an advisory lock; the oldest document first.
ClaimNext ==
  /\ coordinator.pc = "idle" /\ Claimable
  /\ \E d \in {e \in Docs : Unread(e)} : coordinator' = [pc |-> "parse", doc |-> d]
  /\ SetRequest("PROCESSING")
  /\ UNCHANGED <<doc, uploading, parsing, operator, reviewing, parses, deaths, byHand, hands>>

\* A document the parser takes is paid for.  It refuses one while it has another: that of a
\* coordinator that is dead, or does not wait any longer.
ParseWithIsolatedWorker ==
  /\ coordinator.pc = "parse"
  /\ IF parsing THEN coordinator' = [coordinator EXCEPT !.pc = "failed"] /\ UNCHANGED <<parsing, parses>>
     ELSE /\ parsing' = TRUE
          /\ parses' = [parses EXCEPT ![coordinator.doc] = @ + 1]
          /\ coordinator' = [coordinator EXCEPT !.pc = "wait"]
  /\ UNCHANGED <<docVars, uploading, operator, reviewing, deaths, byHand, hands>>

\* A process that ends well leaves a draft; one that fails, writes too much or takes too long is
\* killed.
RunOutcome == {"persist", "failed"}

\* The answer, to the coordinator that waits or to nobody; the flag is cleared either way.
ParseInvoice ==
  /\ parsing /\ parsing' = FALSE
  /\ IF coordinator.pc = "wait" THEN coordinator' \in [pc : RunOutcome, doc : {coordinator.doc}]
     ELSE UNCHANGED coordinator
  /\ UNCHANGED <<docVars, uploading, operator, reviewing, parses, deaths, byHand, hands>>

\* Two processes of eight minutes each may take longer than the ten minutes of the request.
ParserTimeout ==
  /\ coordinator.pc = "wait"
  /\ coordinator' = [coordinator EXCEPT !.pc = "failed"]
  /\ UNCHANGED <<docVars, uploading, parsing, operator, reviewing, parses, deaths, byHand, hands>>

\* Under the advisory lock of the request; a draft of another call is kept.
PersistInvoiceAiDraft(d) ==
  IF doc[d].read THEN UNCHANGED docVars
  ELSE /\ doc' = [doc EXCEPT ![d].read = TRUE, ![d].version = "draft", ![d].data = "draft"]
       /\ SetRequest("NEEDS_INPUT")

\* A deleted document is an error.
StoreDraft ==
  /\ coordinator.pc = "persist"
  /\ IF doc[coordinator.doc].stored THEN PersistInvoiceAiDraft(coordinator.doc) /\ coordinator' = Waits
     ELSE coordinator' = [coordinator EXCEPT !.pc = "failed"] /\ UNCHANGED docVars
  /\ UNCHANGED <<uploading, parsing, operator, reviewing, parses, deaths, byHand, hands>>

\* Mutant: a failure leaves no marker.
Unmarked(d) == doc

\* Only a request that is still PROCESSING goes back; the marker keeps the document from being
\* parsed again.
Marked(d) == [doc EXCEPT ![d].version = "failed"]

MarkFailed ==
  /\ coordinator.pc = "failed"
  /\ doc' = Marked(coordinator.doc)
  /\ IF request = "PROCESSING" THEN SetRequest("NEEDS_INPUT") ELSE UNCHANGED <<request, claimIsOld>>
  /\ coordinator' = Waits
  /\ UNCHANGED <<uploading, parsing, operator, reviewing, parses, deaths, byHand, hands>>

CoordinatorDies ==
  /\ coordinator.pc # "idle" /\ deaths < MaxDeaths
  /\ deaths' = deaths + 1
  /\ coordinator' = Waits
  /\ UNCHANGED <<docVars, uploading, parsing, operator, reviewing, parses, byHand, hands>>

(***************************************************************************)
(* The script of an operator                                               *)
(***************************************************************************)

\* A document that has failed before is taken too, and the agent is run without the parser's server.
ExportNext ==
  /\ operator.pc = "idle"
  /\ request = "RECEIVED" \/ (request = "PROCESSING" /\ claimIsOld)
  /\ \E d \in {e \in Docs : doc[e].stored /\ ~doc[e].read} :
       /\ operator' \in [pc : RunOutcome, doc : {d}]
       /\ parses' = [parses EXCEPT ![d] = @ + 1]
       /\ ByHand(d)
  /\ SetRequest("PROCESSING")
  /\ UNCHANGED <<doc, uploading, coordinator, parsing, reviewing, deaths>>

ImportDraftByHand ==
  /\ operator.pc = "persist"
  /\ IF doc[operator.doc].stored THEN PersistInvoiceAiDraft(operator.doc) /\ operator' = Waits
     ELSE operator' = [operator EXCEPT !.pc = "failed"] /\ UNCHANGED docVars
  /\ UNCHANGED <<uploading, coordinator, parsing, reviewing, parses, deaths, byHand, hands>>

\* No marker: the coordinator will take the document up again.
MarkFailedByHand ==
  /\ operator.pc = "failed"
  /\ IF request = "PROCESSING" THEN SetRequest("NEEDS_INPUT") ELSE UNCHANGED <<request, claimIsOld>>
  /\ operator' = Waits
  /\ UNCHANGED <<doc, uploading, coordinator, parsing, reviewing, parses, deaths, byHand, hands>>

\* Also the script's own exit does not come to its end.
OperatorDies ==
  /\ operator.pc # "idle" /\ deaths < MaxDeaths
  /\ deaths' = deaths + 1
  /\ operator' = Waits
  /\ UNCHANGED <<docVars, uploading, coordinator, parsing, reviewing, parses, byHand, hands>>

(***************************************************************************)
(* Review and confirmation                                                 *)
(***************************************************************************)

\* A review reads the profile, and finds out which of the extracted values are new.
OpenReview(status, d) ==
  /\ reviewing.pc = "idle"
  /\ ByHand(d)
  /\ \E new \in Value :
       reviewing' = [pc |-> "write", saw |-> profile, new |-> new, status |-> status, doc |-> d]
  /\ UNCHANGED <<docVars, uploading, coordinator, parsing, operator, parses, deaths>>

\* An administrator: any status, and one of the documents or none.
ReviewByAdministrator ==
  /\ request # "NONE"
  /\ \E status \in {"RECEIVED", "PROCESSING", "NEEDS_INPUT", "CONFIRMED", "CANCELED"},
        d \in Stored \cup {NoDocument} : OpenReview(status, d)

\* The owner: drafts of documents that are still there.
ReadyDocuments == {d \in Stored : doc[d].data = "draft"}

ConfirmCustomerInvoice ==
  /\ request \in {"NEEDS_INPUT", "PROCESSING", "RECEIVED"}
  /\ ReadyDocuments # {}
  /\ OpenReview("CONFIRMED", NoDocument)

\* One transaction: the profile, the curves, the analyses, the request and the document.
ReviewEnergyInvoice ==
  LET d == reviewing.doc IN
  /\ reviewing.pc = "write"
  /\ ChangeProfile(reviewing.saw, reviewing.new)
  /\ SetRequest(reviewing.status)
  /\ doc' = IF d = NoDocument THEN doc ELSE [doc EXCEPT ![d].version = "manual", ![d].data = "manual"]
  /\ reviewing' = NotReviewing
  /\ UNCHANGED <<uploading, coordinator, parsing, operator, parses, deaths, byHand, hands>>

(***************************************************************************)
(* The specification                                                       *)
(***************************************************************************)

CoordinatorStep ==
  ClaimNext \/ ParseWithIsolatedWorker \/ ParseInvoice \/ ParserTimeout \/ StoreDraft \/ MarkFailed

OperatorStep == ExportNext \/ ImportDraftByHand \/ MarkFailedByHand \/ OperatorDies

DocumentsNext ==
  \/ CreateInvoiceRequest \/ ReviewByAdministrator \/ ConfirmCustomerInvoice
  \/ \E d \in Docs : OpenUpload(d) \/ StoreDocument(d) \/ PurgeExpiredEnergyInvoiceDocuments(d)
  \/ CoordinatorStep \/ CoordinatorDies \/ ClaimGetsOld \/ OperatorStep

InvoicesNext ==
  \/ DocumentsNext /\ UNCHANGED pricesVars
  \/ ReviewEnergyInvoice /\ UNCHANGED <<pricing, writer, refresh, backend, changes>>
  \/ PricesNext /\ UNCHANGED invoiceVars

\* The coordinator polls and is restarted; a claim that nobody renews gets old.
InvoicesFairness == WF_invoiceVars(CoordinatorStep) /\ WF_invoiceVars(ClaimGetsOld)

InvoicesSpec == InvoicesInit /\ PricesInit /\ [][InvoicesNext]_<<invoiceVars, pricesVars>> /\ InvoicesFairness

(***************************************************************************)
(* Properties                                                              *)
(***************************************************************************)

InvoicesTypeOK ==
  /\ request \in {"NONE", "REQUESTED", "RECEIVED", "PROCESSING", "NEEDS_INPUT", "CONFIRMED", "CANCELED"}
  /\ \A d \in Docs : doc[d].version \in {"none", "draft", "failed", "manual"}
                    /\ doc[d].data \in {"empty", "draft", "manual"}
  /\ Cardinality(Stored) <= MaxDocuments
  /\ uploading \subseteq Docs

\* Every document of a request gets its turn ("the remaining documents still have to be parsed",
\* src/scripts/invoice-agent/coordinator.ts:75-77; "a stuck claim can be taken over after two
\* hours", src/docs/INVOICE_AI_AGENT.md:45): it is read or marked as failed, through failures and
\* deaths of the coordinator and late uploads, unless the request is closed or the document deleted.
EveryDocumentIsRead ==
  \A d \in Docs : Unread(d) ~> (~Unread(d) \/ request \in {"CONFIRMED", "CANCELED"})

\* A failure of the parser makes no endless loop of paid calls
\* (src/docs/SOLAX_HISTORY_AND_INVOICE_WORKFLOW.md:98): a document is parsed again only after a death
\* of the coordinator or work by hand.
ParsesExplained ==
  /\ PricesTypeOK /\ InvoicesTypeOK
  /\ \A d \in Docs : parses[d] <= 1 + deaths + byHand[d]

=============================================================================
