------------------------------- MODULE Catalog -------------------------------
(***************************************************************************)
(* The versions of the tariff catalog (src/src/lib/pricing/                *)
(* catalog-admin.ts, src/src/lib/costs/catalog-sync.ts,                    *)
(* src/scripts/catalog-agent/import-candidates.ts).                        *)
(*                                                                         *)
(* The catalog agent imports drafts with their source documents.           *)
(* Administrators validate the documents, then the versions, then publish  *)
(* them, which closes the version before.  The job runner copies the       *)
(* verified snapshot of Costs, item by item, and at the end retires the    *)
(* reference products the platform was started with.                       *)
(*                                                                         *)
(* Products, distribution tariffs and funding programs are reviewed by the *)
(* same rules, and Item stands for any of them.  Prices are left out.      *)
(***************************************************************************)
EXTENDS Integers, FiniteSets

CONSTANTS
  Items,        \* products, tariffs or programs
  Reviewers,    \* requests of administrators under way
  LastStart,    \* bound: the days on which a version may start are 1 .. LastStart
  MaxReviews,   \* bound: imported drafts and opened reviews, together
  MaxSnapshots, \* bound: how often Costs publishes something else
  MaxSyncDeaths \* bound: failures and deaths of a synchronization

ASSUME CatalogAssumption ==
  /\ Items # {}
  /\ LastStart \in Nat \ {0} /\ MaxReviews \in Nat
  /\ MaxSnapshots \in Nat /\ MaxSyncDeaths \in Nat

VARIABLES
  version,    \* status and validTo of the version of an item that starts on a day; is it from Costs
  document,   \* status of its source document
  reference,  \* status of the reference products
  review,     \* what each reviewer holds
  reviews,
  raced,      \* versions written by a publication that was overtaken: another one of the item came
              \* between the look at the published versions and the transaction
  upstream,   \* what Costs publishes of each item
  snapshots,
  sync,       \* the synchronization
  recent,     \* the last activity is less than COSTS_CATALOG_SYNC_INTERVAL_MINUTES ago
  syncDeaths

tariffVars == <<version, document, reference>>
reviewVars == <<review, reviews, raced>>
costsVars == <<upstream, snapshots, sync, recent, syncDeaths>>
catalogVars == <<tariffVars, reviewVars, costsVars>>

Start == 1 .. LastStart
End == 2 .. LastStart + 1
Forever == LastStart + 1
Version == Items \X Start

Absent == [status |-> "NONE", to |-> Forever, costs |-> FALSE]
NoReview == [pc |-> "idle", version |-> <<CHOOSE i \in Items : TRUE, 1>>, to |-> Forever, overlaps |-> {},
             overtaken |-> FALSE]

\* What Costs publishes of an item: the day it starts (0: nothing, or nothing that is complete and
\* verified), and whether it passes the check of its fields but cannot be stored: a distribution
\* tariff without the price of its high or low rate, a product whose mode is none of the known ones.
Offer == [from : {0} \cup Start, odd : BOOLEAN]
NoOffer == [from |-> 0, odd |-> FALSE]

NotSyncing == [pc |-> "idle", item |-> CHOOSE i \in Items : TRUE, left |-> {},
               snapshot |-> [i \in Items |-> NoOffer], imported |-> FALSE]

CatalogInit ==
  /\ version = [v \in Version |-> Absent]
  /\ document = [v \in Version |-> "NONE"]
  /\ reference = "PUBLISHED"
  /\ review = [r \in Reviewers |-> NoReview]
  /\ reviews = 0
  /\ raced = {}
  /\ upstream = [i \in Items |-> NoOffer]
  /\ snapshots = 0
  /\ sync = NotSyncing
  /\ recent = FALSE
  /\ syncDeaths = 0

Reviewed == reviews < MaxReviews /\ reviews' = reviews + 1
HoldReview(r, rec) == review' = [review EXCEPT ![r] = rec]

(***************************************************************************)
(* Drafts and their review                                                 *)
(***************************************************************************)

\* A version that exists already, in whatever status, is left alone, and so is its document.
ImportDraft(v) ==
  /\ Reviewed
  /\ document' = [document EXCEPT ![v] = IF @ = "NONE" THEN "DRAFT" ELSE @]
  /\ \E to \in {t \in End : t > v[2]} :
       version' = IF version[v].status # "NONE" THEN version
                  ELSE [version EXCEPT ![v] = [Absent EXCEPT !.status = "DRAFT", !.to = to]]
  /\ UNCHANGED <<reference, review, raced, costsVars>>

\* A source document is never published by itself; its present status does not matter.
ReviewSource(v) ==
  /\ Reviewed
  /\ document[v] # "NONE"
  /\ \E status \in {"VALIDATED", "REJECTED"} : document' = [document EXCEPT ![v] = status]
  /\ UNCHANGED <<version, reference, review, raced, costsVars>>

\* The version and its report are read.  To reject takes a reason; the other actions take a document
\* that is validated, and publishing a validated version.
ReviewCatalogEntity(r, v) ==
  /\ review[r].pc = "idle"
  /\ Reviewed
  /\ version[v].status # "NONE"
  /\ \E action \in {"REJECTED", "VALIDATED", "overlaps"} :
       /\ action # "REJECTED" => document[v] \in {"VALIDATED", "PUBLISHED"}
       /\ action = "overlaps" => version[v].status = "VALIDATED"
       /\ HoldReview(r, [NoReview EXCEPT !.pc = action, !.version = v, !.to = version[v].to])
  /\ UNCHANGED <<tariffVars, raced, costsVars>>

\* Whatever the version has become.
RejectOrValidate(r) ==
  /\ review[r].pc \in {"REJECTED", "VALIDATED"}
  /\ version' = [version EXCEPT ![review[r].version].status = review[r].pc]
  /\ HoldReview(r, NoReview)
  /\ UNCHANGED <<document, reference, reviews, raced, costsVars>>

Overlap(from, to, v) == version[v].status = "PUBLISHED" /\ v[2] < to /\ from < version[v].to

\* The published versions of the item whose terms meet the new one.  Only versions that started
\* before can make room for it.
FindOverlaps(r) ==
  LET v == review[r].version
      found == {w \in Version : w # v /\ w[1] = v[1] /\ Overlap(v[2], review[r].to, w)} IN
  /\ review[r].pc = "overlaps"
  /\ HoldReview(r, IF \A w \in found : w[2] < v[2]
               THEN [review[r] EXCEPT !.pc = "publish", !.overlaps = found]
               ELSE NoReview)
  /\ UNCHANGED <<tariffVars, reviews, raced, costsVars>>

\* Mutant: the versions before stay open.
PublishedOver(v, overlaps) == [version EXCEPT ![v].status = "PUBLISHED"]

Published(v, overlaps) ==
  [w \in Version |-> IF w = v THEN [version[w] EXCEPT !.status = "PUBLISHED"]
                     ELSE IF w \in overlaps THEN [version[w] EXCEPT !.to = v[2]]
                     ELSE version[w]]

\* The transaction looks at nothing again.  Whoever has looked at the versions of the item before
\* and publishes after is overtaken.
PublishVersion(r) ==
  LET v == review[r].version IN
  /\ review[r].pc = "publish"
  /\ version' = Published(v, review[r].overlaps)
  /\ document' = [document EXCEPT ![v] = "PUBLISHED"]
  /\ raced' = IF review[r].overtaken THEN raced \cup {v} \cup review[r].overlaps ELSE raced
  /\ review' = [q \in Reviewers |->
                  IF q = r THEN NoReview
                  ELSE IF review[q].pc = "publish" /\ review[q].version[1] = v[1]
                  THEN [review[q] EXCEPT !.overtaken = TRUE]
                  ELSE review[q]]
  /\ UNCHANGED <<reference, reviews, costsVars>>

(***************************************************************************)
(* The synchronization with Costs                                          *)
(***************************************************************************)

CostsPublishes(i) ==
  /\ snapshots < MaxSnapshots /\ snapshots' = snapshots + 1
  /\ \E offer \in Offer :
       /\ offer.odd => offer.from # 0
       /\ upstream' = [upstream EXCEPT ![i] = offer]
  /\ UNCHANGED <<tariffVars, reviewVars, sync, recent, syncDeaths>>

IntervalElapses ==
  /\ recent
  /\ recent' = FALSE
  /\ UNCHANGED <<tariffVars, reviewVars, upstream, snapshots, sync, syncDeaths>>

\* Skipped while a document of Costs or the audit is recent, also if the synchronization before did
\* not get through.
StartSync ==
  /\ sync.pc = "idle" /\ ~recent
  /\ sync' = [NotSyncing EXCEPT !.pc = "source", !.left = Items, !.snapshot = upstream]
  /\ UNCHANGED <<tariffVars, reviewVars, upstream, snapshots, recent, syncDeaths>>

\* Items that are incomplete or not verified are skipped.
SkipIncomplete(i) ==
  /\ sync.pc = "source" /\ i \in sync.left
  /\ sync.snapshot[i].from = 0
  /\ sync' = [sync EXCEPT !.left = @ \ {i}]
  /\ UNCHANGED <<tariffVars, reviewVars, upstream, snapshots, recent, syncDeaths>>

ArchiveSourceDocument(i) ==
  /\ sync.pc = "source" /\ i \in sync.left
  /\ sync.snapshot[i].from # 0
  /\ document' = [document EXCEPT ![<<i, sync.snapshot[i].from>>] = "PUBLISHED"]
  /\ recent' = TRUE
  /\ sync' = [sync EXCEPT !.pc = "version", !.item = i]
  /\ UNCHANGED <<version, reference, reviewVars, upstream, snapshots, syncDeaths>>

\* Mutant: a draft of the same day is left alone.
ImportedOnce(v) ==
  IF version[v].status # "NONE" THEN version
  ELSE [version EXCEPT ![v] = [status |-> "PUBLISHED", to |-> Forever, costs |-> TRUE]]

Imported(v) == [version EXCEPT ![v] = [status |-> "PUBLISHED", to |-> Forever, costs |-> TRUE]]

\* Inserted or overwritten as published; the other versions of the item are not looked at.
UpsertVersion ==
  LET i == sync.item IN
  /\ sync.pc = "version" /\ ~sync.snapshot[i].odd
  /\ version' = Imported(<<i, sync.snapshot[i].from>>)
  /\ sync' = [sync EXCEPT !.pc = "source", !.left = @ \ {i}, !.imported = TRUE]
  /\ UNCHANGED <<document, reference, reviewVars, upstream, snapshots, recent, syncDeaths>>

\* The version cannot be stored: the synchronization ends here with its document archived, every
\* time, and what comes after it in the order of Costs is not reached.
StoringThrows ==
  /\ sync.pc = "version" /\ sync.snapshot[sync.item].odd
  /\ sync' = NotSyncing
  /\ UNCHANGED <<tariffVars, reviewVars, upstream, snapshots, recent, syncDeaths>>

\* The reference products are retired once anything was imported; then the audit.
FinishSync ==
  /\ sync.pc = "source" /\ sync.left = {}
  /\ reference' = IF sync.imported THEN "ARCHIVED" ELSE reference
  /\ recent' = TRUE
  /\ sync' = NotSyncing
  /\ UNCHANGED <<version, document, reviewVars, upstream, snapshots, syncDeaths>>

\* Costs does not answer, a write fails, or the runner dies.
SyncStops ==
  /\ sync.pc # "idle"
  /\ syncDeaths < MaxSyncDeaths /\ syncDeaths' = syncDeaths + 1
  /\ sync' = NotSyncing
  /\ UNCHANGED <<tariffVars, reviewVars, upstream, snapshots, recent>>

(***************************************************************************)
(* The specification                                                       *)
(***************************************************************************)

ReviewStep(r) == RejectOrValidate(r) \/ FindOverlaps(r) \/ PublishVersion(r)

Drafts == \E v \in Version : ImportDraft(v)

Administration ==
  \/ \E v \in Version : ReviewSource(v)
  \/ \E r \in Reviewers, v \in Version : ReviewCatalogEntity(r, v)
  \/ \E r \in Reviewers : ReviewStep(r)

SyncStep ==
  \/ \E i \in Items : SkipIncomplete(i) \/ ArchiveSourceDocument(i)
  \/ UpsertVersion \/ StoringThrows \/ FinishSync

Synchronization ==
  \/ \E i \in Items : CostsPublishes(i)
  \/ IntervalElapses \/ StartSync \/ SyncStep \/ SyncStops

CatalogNext == Drafts \/ Administration \/ Synchronization

\* The job runner calls the synchronization every minute.
CatalogFairness ==
  /\ WF_catalogVars(SyncStep)
  /\ WF_catalogVars(StartSync)
  /\ WF_catalogVars(IntervalElapses)

CatalogSpec == CatalogInit /\ [][CatalogNext]_catalogVars /\ CatalogFairness

(***************************************************************************)
(* Properties                                                              *)
(***************************************************************************)

Statuses == {"NONE", "DRAFT", "VALIDATED", "REJECTED", "PUBLISHED"}

CatalogTypeOK ==
  /\ version \in [Version -> [status : Statuses, to : End, costs : BOOLEAN]]
  /\ document \in [Version -> Statuses]
  /\ reference \in {"PUBLISHED", "ARCHIVED"}
  /\ upstream \in [Items -> Offer]
  /\ raced \subseteq Version
  /\ sync.left \subseteq Items

\* At most one version of an item is in force on a day, in whatever order versions are drafted,
\* rejected, taken back and published, by however many administrators.  Two kinds of versions may
\* overlap, and nothing else may: those of Costs, which are stored without a look at the others, and
\* those that an overtaken publication has written (the look at the published versions is before
\* the transaction, and the transaction does not look again).
VersionsDoNotOverlap ==
  /\ CatalogTypeOK
  /\ \A v, w \in Version :
       (/\ v # w /\ v[1] = w[1] /\ version[v].status = "PUBLISHED"
        /\ ~version[v].costs /\ ~version[w].costs
        /\ v \notin raced /\ w \notin raced)
         => ~Overlap(v[2], version[v].to, w)

\* What Costs publishes, verified and complete, gets into the catalog, also after failures and
\* deaths in the middle of a synchronization and over a draft of the same day, unless Costs takes it
\* back, or publishes an item that passes the check and cannot be stored: such an item may stand
\* before it and end every synchronization.  Once that is corrected the promise holds again.
SnapshotReachesCatalog ==
  \A i \in Items :
    upstream[i].from # 0 ~> (\/ upstream[i].from = 0
                             \/ version[<<i, upstream[i].from>>].status = "PUBLISHED"
                             \/ \E j \in Items : upstream[j].odd)

=============================================================================
