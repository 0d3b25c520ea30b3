---------------------------- MODULE PricesProofs ----------------------------
(***************************************************************************)
(* The versions of a catalog and the calls of the parser, for every number *)
(* of items, days, snapshots, documents and deaths.  The two share no      *)
(* state; each has an invariant of its own.                                *)
(***************************************************************************)
EXTENDS Invoices, Catalog, FiniteSetTheorems, TLAPS

(***************************************************************************)
(* The catalog.  What a reviewer has found stays true until it publishes,  *)
(* unless it is overtaken: the versions it has found still reach to the    *)
(* new one, and every published version that meets the new one is among    *)
(* them, those aside that Costs or an overtaken publication have written.  *)
(***************************************************************************)
VersionRow == [status : Statuses, to : End, costs : BOOLEAN]

ReviewRow == [pc : {"idle", "REJECTED", "VALIDATED", "overlaps", "publish"},
              version : Version, to : End, overlaps : SUBSET Version, overtaken : BOOLEAN]

SyncRow == [pc : {"idle", "source", "version"}, item : Items, left : SUBSET Items,
            snapshot : [Items -> Offer], imported : BOOLEAN]

CatalogTyped == CatalogTypeOK /\ review \in [Reviewers -> ReviewRow] /\ sync \in SyncRow

\* The versions that may overlap others.
Loose == raced \cup {v \in Version : version[v].costs}

Meets(v, to) == {w \in Version : w # v /\ w[1] = v[1] /\ Overlap(v[2], to, w)}

\* Only versions that started before are closed, and only those of the same item.
ClosesEarlier(rec) == \A w \in rec.overlaps : w[1] = rec.version[1] /\ w[2] < rec.version[2]

StillTrue(rec) ==
  /\ rec.pc # "idle" =>
       /\ \A w \in rec.overlaps \cup {rec.version} : version[w].status # "NONE"
       /\ rec.version \notin Loose => version[rec.version].to <= rec.to
  /\ rec.pc = "publish" /\ ~rec.overtaken =>
       /\ \A w \in rec.overlaps : rec.version[2] < version[w].to
       /\ \A w \in Meets(rec.version, rec.to) : w \in Loose \/ w \in rec.overlaps

NoneIsEmpty == \A v \in Version : version[v].status = "NONE" => ~version[v].costs

CatalogInv ==
  /\ CatalogTyped /\ NoneIsEmpty
  /\ \A r \in Reviewers : ClosesEarlier(review[r]) /\ StillTrue(review[r])
  /\ VersionsDoNotOverlap

(***************************************************************************)
(* The invoices.  A document is worth a call of the parser once, and again *)
(* after a death or work by hand.                                          *)
(***************************************************************************)
WriterRow == [pc : {"idle", "save", "ready", "confirm", "sync"}, saw : Value \cup {Incomplete},
              new : Value \cup {Incomplete}, confirms : BOOLEAN]

DocRow == [stored : BOOLEAN, purged : BOOLEAN, read : BOOLEAN,
           version : {"none", "draft", "failed", "manual"}, data : {"empty", "draft", "manual"}]

ReviewingRow == [pc : {"idle", "write"}, saw : Value \cup {Incomplete}, new : Value \cup {Incomplete},
                 status : {"RECEIVED", "PROCESSING", "NEEDS_INPUT", "CONFIRMED", "CANCELED"},
                 doc : Docs \cup {NoDocument}]

Holding == [pc : {"parse", "wait", "persist", "failed"}, doc : Docs] \cup {Waits}

WritersTyped ==
  /\ writer \in [Writers -> WriterRow]
  /\ \A w \in Writers : writer[w].pc # "idle" => writer[w].new \in Value

InvoicesTyped ==
  /\ InvoicesTypeOK
  /\ doc \in [Docs -> DocRow]
  /\ coordinator \in Holding /\ operator \in Holding
  /\ reviewing \in ReviewingRow
  /\ parses \in [Docs -> Nat] /\ byHand \in [Docs -> Nat]
  /\ deaths \in Nat /\ hands \in Nat

Open(d) == reviewing.pc = "write" /\ reviewing.doc = d
Settled(d) == doc[d].read \/ doc[d].version = "failed"
Held(d) == coordinator.doc = d /\ coordinator.pc \in {"wait", "persist", "failed"}
About(d) == coordinator.doc = d /\ coordinator.pc = "parse"

\* A review by hand that is open has been counted, but has not reset the document yet; a document
\* about to be parsed, or that may be claimed, must have a call left.
Tight(d) == About(d) \/ (~Settled(d) /\ ~Held(d))

Fits(d) ==
  parses[d] + (IF Open(d) THEN 1 ELSE 0) + (IF Tight(d) THEN 1 ELSE 0) <= 1 + deaths + byHand[d]

InvoiceInv ==
  /\ PricesTypeOK /\ WritersTyped
  /\ InvoicesTyped
  /\ \A d \in Docs : Fits(d)

LEMMA VersionParts == \A v \in Version : v[1] \in Items /\ v[2] \in Start /\ v[2] \in Int
BY DEF Version, Start

LEMMA NothingHeld ==
  /\ NoReview \in ReviewRow /\ NoReview.pc = "idle" /\ NoReview.overlaps = {}
  /\ NotSyncing \in SyncRow
<1>1. (CHOOSE i \in Items : TRUE) \in Items /\ LastStart \in Nat /\ LastStart > 0
  BY CatalogAssumption
<1>2. <<CHOOSE i \in Items : TRUE, 1>> \in Version /\ Forever \in End
  BY <1>1 DEF Version, Start, Forever, End
<1>3. NoOffer \in Offer
  BY DEF NoOffer, Offer
<1>4. [i \in Items |-> NoOffer] \in [Items -> Offer]
  BY <1>3
<1>5. NoReview \in ReviewRow /\ NoReview.pc = "idle" /\ NoReview.overlaps = {}
  BY <1>2 DEF NoReview, ReviewRow
<1>6. NotSyncing \in SyncRow
  BY <1>1, <1>4 DEF NotSyncing, SyncRow
<1>7. QED BY <1>5, <1>6

LEMMA CatalogParts ==
  ASSUME CatalogTyped
  PROVE  /\ version \in [Version -> VersionRow] /\ document \in [Version -> Statuses]
         /\ reference \in {"PUBLISHED", "ARCHIVED"} /\ upstream \in [Items -> Offer]
         /\ raced \subseteq Version
         /\ review \in [Reviewers -> ReviewRow] /\ sync \in SyncRow
BY DEF CatalogTyped, CatalogTypeOK, VersionRow

LEMMA CatalogWhole ==
  ASSUME version' \in [Version -> VersionRow], document' \in [Version -> Statuses],
         reference' \in {"PUBLISHED", "ARCHIVED"}, upstream' \in [Items -> Offer],
         raced' \subseteq Version,
         review' \in [Reviewers -> ReviewRow], sync' \in SyncRow
  PROVE  CatalogTyped'
<1>1. sync'.left \subseteq Items
  BY DEF SyncRow
<1>2. QED BY <1>1 DEF CatalogTyped, CatalogTypeOK, VersionRow

\* Ends are numbers.
LEMMA EndParts ==
  ASSUME CatalogTyped
  PROVE  /\ \A v \in Version : version[v].to \in Int /\ version[v].to <= Forever
         /\ \A r \in Reviewers : review[r].version \in Version /\ review[r].to \in Int
                                 /\ review[r].overlaps \subseteq Version
         /\ Forever \in Int /\ \A v \in Version : v[2] < Forever
<1>1. \A e \in End : e \in Int /\ e <= Forever
  BY CatalogAssumption DEF End, Forever
<1>2. Forever \in Int /\ \A v \in Version : v[2] < Forever
  BY VersionParts, CatalogAssumption DEF Start, Forever
<1>3. QED BY <1>1, <1>2, CatalogParts DEF VersionRow, ReviewRow

LEMMA IdleIsTrue == ClosesEarlier(NoReview) /\ StillTrue(NoReview)
BY NothingHeld DEF ClosesEarlier, StillTrue

LEMMA CatalogInitInv == CatalogInit => CatalogInv
<1> SUFFICES ASSUME CatalogInit PROVE CatalogInv
  OBVIOUS
<1>1. Forever \in End /\ NoOffer \in Offer
  BY CatalogAssumption DEF Forever, End, NoOffer, Offer
<1>2. Absent \in VersionRow /\ Absent.status = "NONE" /\ ~Absent.costs
  BY <1>1 DEF Absent, VersionRow, Statuses
<1>3. version \in [Version -> VersionRow] /\ \A v \in Version : version[v].status = "NONE" /\ ~version[v].costs
  BY <1>2 DEF CatalogInit
<1>4. review \in [Reviewers -> ReviewRow] /\ \A r \in Reviewers : review[r] = NoReview
  BY NothingHeld DEF CatalogInit
<1>5. sync \in SyncRow
  BY NothingHeld DEF CatalogInit
<1>6. CatalogTypeOK
  <2>1. /\ document \in [Version -> Statuses] /\ reference \in {"PUBLISHED", "ARCHIVED"}
        /\ upstream \in [Items -> Offer] /\ raced \subseteq Version
    BY <1>1 DEF CatalogInit, Statuses
  <2>2. sync.left \subseteq Items
    BY <1>5 DEF SyncRow
  <2>3. QED BY <1>3, <2>1, <2>2 DEF CatalogTypeOK, VersionRow
<1>7. VersionsDoNotOverlap
  BY <1>3, <1>6 DEF VersionsDoNotOverlap
<1>8. QED BY <1>3, <1>4, <1>5, <1>6, <1>7, IdleIsTrue DEF CatalogInv, CatalogTyped, NoneIsEmpty

\* No version that is not loose is new among the published ones, or lasts longer than before.
OnlyShrinks(w) ==
  version'[w].status = "PUBLISHED" /\ w \notin Loose' =>
    version[w].status = "PUBLISHED" /\ version'[w].to <= version[w].to

\* Terms that only get shorter do not meet.
LEMMA TermsShrink ==
  ASSUME CatalogInv, CatalogTyped', Loose \subseteq Loose', NEW v \in Version, NEW w \in Version,
         OnlyShrinks(v), OnlyShrinks(w),
         v # w, v[1] = w[1], version'[v].status = "PUBLISHED", v \notin Loose', w \notin Loose'
  PROVE  ~Overlap(v[2], version[v].to, w)'
<1> SUFFICES ASSUME Overlap(v[2], version[v].to, w)' PROVE FALSE
  OBVIOUS
<1>1. version[v].status = "PUBLISHED" /\ version'[v].to <= version[v].to
  BY DEF OnlyShrinks
<1>2. version'[w].status = "PUBLISHED" /\ v[2] < version'[w].to /\ w[2] < version'[v].to
  BY DEF Overlap
<1>3. version[w].status = "PUBLISHED" /\ version'[w].to <= version[w].to
  BY <1>2 DEF OnlyShrinks
<1>4. /\ version[v].to \in Int /\ version[w].to \in Int /\ version'[v].to \in Int /\ version'[w].to \in Int
      /\ v[2] \in Int /\ w[2] \in Int
  <2>1. CatalogTyped
    BY DEF CatalogInv
  <2>2. version[v].to \in Int /\ version[w].to \in Int
    BY <2>1, EndParts
  <2>3. version'[v].to \in Int /\ version'[w].to \in Int
    BY CatalogAssumption DEF CatalogTyped, CatalogTypeOK, End
  <2>4. QED BY <2>2, <2>3, VersionParts
<1>5. v[2] < version[w].to /\ w[2] < version[v].to
  BY <1>1, <1>2, <1>3, <1>4
<1>6. v \notin Loose /\ w \notin Loose
  OBVIOUS
<1>7. QED BY <1>1, <1>3, <1>5, <1>6 DEF CatalogInv, VersionsDoNotOverlap, Overlap, Loose

LEMMA NoNewOverlap ==
  ASSUME CatalogInv, CatalogTyped', Loose \subseteq Loose', \A w \in Version : OnlyShrinks(w)
  PROVE  VersionsDoNotOverlap'
<1>1. ASSUME NEW v \in Version, NEW w \in Version, v # w, v[1] = w[1], version'[v].status = "PUBLISHED",
             ~version'[v].costs, ~version'[w].costs, v \notin raced', w \notin raced'
      PROVE  ~Overlap(v[2], version[v].to, w)'
  <2>1. v \notin Loose' /\ w \notin Loose'
    BY <1>1 DEF Loose
  <2>2. QED BY <1>1, <2>1, TermsShrink
<1>2. QED BY <1>1 DEF VersionsDoNotOverlap, CatalogTyped

\* A version that is known to a reviewer stays; it keeps its end, unless it becomes loose and gets a
\* later one.
StaysKnown(w) ==
  version[w].status # "NONE" =>
    /\ version'[w].status # "NONE"
    /\ version[w].to <= version'[w].to
    /\ w \notin Loose' => version'[w].to <= version[w].to

\* What a reviewer has found of an item is true as long as no other version of it is published.
LEMMA FoundStays ==
  ASSUME CatalogTyped, CatalogTyped', NEW rec \in ReviewRow, ClosesEarlier(rec), StillTrue(rec),
         Loose \subseteq Loose',
         \A w \in Version : w[1] = rec.version[1] => OnlyShrinks(w) /\ StaysKnown(w)
  PROVE  StillTrue(rec)'
<1> DEFINE v == rec.version
<1>1. v \in Version /\ rec.to \in Int /\ rec.overlaps \subseteq Version
  BY CatalogAssumption DEF ReviewRow, End
<1>2. \A w \in rec.overlaps \cup {v} : w \in Version /\ w[1] = v[1]
  BY <1>1 DEF ClosesEarlier
<1>3. \A w \in Version : version[w].to \in Int /\ version'[w].to \in Int /\ w[2] \in Int
  <2>1. \A w \in Version : version'[w].to \in Int
    BY CatalogAssumption DEF CatalogTyped, CatalogTypeOK, End
  <2>2. QED BY <2>1, EndParts, VersionParts
<1>4. ASSUME rec.pc # "idle"
      PROVE  /\ \A w \in rec.overlaps \cup {v} : version'[w].status # "NONE"
             /\ v \notin Loose' => version'[v].to <= rec.to
  <2>1. \A w \in rec.overlaps \cup {v} : version[w].status # "NONE"
    BY <1>4 DEF StillTrue
  <2>2. v \notin Loose => version[v].to <= rec.to
    BY <1>4 DEF StillTrue
  <2>3. StaysKnown(v)
    BY <1>1
  <2>4. ASSUME v \notin Loose' PROVE version'[v].to <= rec.to
    <3>1. version[v].to <= rec.to /\ version'[v].to <= version[v].to
      BY <2>1, <2>2, <2>3, <2>4 DEF StaysKnown
    <3>2. QED BY <1>1, <1>3, <3>1
  <2>5. QED BY <1>2, <2>1, <2>4 DEF StaysKnown
<1>5. ASSUME rec.pc = "publish", ~rec.overtaken
      PROVE  /\ \A w \in rec.overlaps : v[2] < version'[w].to
             /\ \A w \in Meets(v, rec.to)' : w \in Loose' \/ w \in rec.overlaps
  <2>1. ASSUME NEW w \in rec.overlaps PROVE v[2] < version'[w].to
    <3>1. v[2] < version[w].to /\ version[w].status # "NONE"
      BY <1>5 DEF StillTrue
    <3>2. version[w].to <= version'[w].to
      BY <1>2, <3>1 DEF StaysKnown
    <3>3. QED BY <1>1, <1>2, <1>3, <3>1, <3>2
  <2>2. ASSUME NEW w \in Version, w # v, w[1] = v[1], Overlap(v[2], rec.to, w)', w \notin Loose'
        PROVE  w \in rec.overlaps
    <3>1. version'[w].status = "PUBLISHED" /\ w[2] < rec.to /\ v[2] < version'[w].to
      BY <2>2 DEF Overlap
    <3>2. version[w].status = "PUBLISHED" /\ version'[w].to <= version[w].to
      BY <2>2, <3>1 DEF OnlyShrinks
    <3>3. v[2] < version[w].to
      BY <1>1, <1>3, <3>1, <3>2
    <3>4. w \in Meets(v, rec.to)
      BY <2>2, <3>1, <3>2, <3>3 DEF Meets, Overlap
    <3>5. QED BY <1>5, <2>2, <3>4 DEF StillTrue
  <2>3. QED BY <2>1, <2>2 DEF Meets
<1>6. QED BY <1>4, <1>5 DEF StillTrue

\* A step that publishes nothing and closes nothing, and that no reviewer takes.
LEMMA QuietStep ==
  ASSUME CatalogInv, CatalogTyped', NoneIsEmpty', review' = review, Loose \subseteq Loose',
         \A w \in Version : OnlyShrinks(w) /\ StaysKnown(w)
  PROVE  CatalogInv'
<1>1. \A r \in Reviewers : ClosesEarlier(review'[r]) /\ StillTrue(review[r])'
  <2>1. ASSUME NEW r \in Reviewers PROVE ClosesEarlier(review[r]) /\ StillTrue(review[r])'
    <3>1. CatalogTyped /\ review[r] \in ReviewRow /\ ClosesEarlier(review[r]) /\ StillTrue(review[r])
      BY CatalogParts DEF CatalogInv
    <3>2. PICK rec \in ReviewRow : rec = review[r]
      BY <3>1
    <3>3. StillTrue(rec)'
      BY <3>1, <3>2, FoundStays
    <3>4. review'[r] = rec
      BY <3>2
    <3>5. QED BY <3>1, <3>3, <3>4 DEF StillTrue, Meets, Overlap
  <2>2. QED BY <2>1
<1>2. QED BY <1>1, NoNewOverlap DEF CatalogInv, ClosesEarlier

\* A step that changes neither a version nor a review.
LEMMA VersionsStay ==
  ASSUME CatalogInv, CatalogTyped', UNCHANGED <<version, review, raced>>
  PROVE  CatalogInv'
<1>1. Loose' = Loose /\ NoneIsEmpty'
  BY DEF Loose, CatalogInv, NoneIsEmpty
<1>2. \A w \in Version : OnlyShrinks(w) /\ StaysKnown(w)
  <2>1. \A w \in Version : version'[w].to = version[w].to /\ version[w].to \in Int
    BY EndParts DEF CatalogInv
  <2>2. QED BY <2>1 DEF OnlyShrinks, StaysKnown
<1>3. QED BY <1>1, <1>2, QuietStep

LEMMA DraftStep ==
  ASSUME CatalogInv, NEW v \in Version, ImportDraft(v)
  PROVE  CatalogInv'
<1>1. CatalogTyped
  BY DEF CatalogInv
<1>2. UNCHANGED <<reference, review, raced, upstream, sync>>
  BY DEF ImportDraft, costsVars
<1>3. document' \in [Version -> Statuses]
  BY <1>1, CatalogParts DEF ImportDraft, Statuses
<1>4. PICK to \in End : version' = IF version[v].status # "NONE" THEN version
                                   ELSE [version EXCEPT ![v] = [Absent EXCEPT !.status = "DRAFT", !.to = to]]
  BY DEF ImportDraft
<1> DEFINE x == [Absent EXCEPT !.status = "DRAFT", !.to = to]
<1>5. x \in VersionRow /\ x.status = "DRAFT" /\ ~x.costs
  BY DEF Absent, VersionRow, Statuses
<1>6. version' = version \/ (version[v].status = "NONE" /\ version' = [version EXCEPT ![v] = x])
  BY <1>4
<1> HIDE DEF x
<1>7. version' \in [Version -> VersionRow]
  BY <1>1, <1>5, <1>6, CatalogParts
<1>8. CatalogTyped'
  BY <1>1, <1>2, <1>3, <1>7, CatalogParts, CatalogWhole
<1>9. CASE version' = version
  BY <1>2, <1>8, <1>9, VersionsStay
<1>10. CASE version[v].status = "NONE" /\ version' = [version EXCEPT ![v] = x]
  <2>1. \A w \in Version : w # v => version'[w] = version[w]
    BY <1>1, <1>10, CatalogParts
  <2>2. version'[v] = x
    BY <1>1, <1>10, CatalogParts
  <2>3. NoneIsEmpty' /\ Loose \subseteq Loose'
    BY <1>2, <1>5, <1>10, <2>1, <2>2 DEF CatalogInv, NoneIsEmpty, Loose
  <2>4. \A w \in Version : OnlyShrinks(w) /\ StaysKnown(w)
    <3>1. \A w \in Version : version[w].to \in Int
      BY <1>1, EndParts
    <3>2. QED BY <1>5, <1>10, <2>1, <2>2, <3>1 DEF OnlyShrinks, StaysKnown
  <2>5. QED BY <1>2, <1>8, <2>3, <2>4, QuietStep
<1>11. QED BY <1>6, <1>9, <1>10

LEMMA UpsertStep ==
  ASSUME CatalogInv, UpsertVersion
  PROVE  CatalogInv'
<1>1. CatalogTyped
  BY DEF CatalogInv
<1> PICK v : v = <<sync.item, sync.snapshot[sync.item].from>>
  OBVIOUS
<1> DEFINE x == [status |-> "PUBLISHED", to |-> Forever, costs |-> TRUE]
<1>2. UNCHANGED <<document, reference, review, raced, upstream>> /\ version' = [version EXCEPT ![v] = x]
  BY DEF UpsertVersion, Imported, reviewVars
<1>3. sync' \in SyncRow
  BY <1>1, CatalogParts DEF UpsertVersion, SyncRow
<1>4. x \in VersionRow /\ x.status = "PUBLISHED" /\ x.costs /\ x.to = Forever
  BY CatalogAssumption DEF VersionRow, Statuses, Forever, End
<1> HIDE DEF x
<1>5. version' \in [Version -> VersionRow]
  BY <1>1, <1>2, <1>4, CatalogParts
<1>6. CatalogTyped'
  BY <1>1, <1>2, <1>3, <1>5, CatalogParts, CatalogWhole
<1>7. \A w \in Version : w # v => version'[w] = version[w]
  BY <1>1, <1>2, CatalogParts
<1>8. v \in Version => version'[v] = x /\ v \in Loose'
  <2>1. v \in Version => version'[v] = x
    BY <1>1, <1>2, CatalogParts
  <2>2. QED BY <2>1, <1>4 DEF Loose
<1>9. NoneIsEmpty' /\ Loose \subseteq Loose'
  BY <1>2, <1>4, <1>7, <1>8 DEF CatalogInv, NoneIsEmpty, Loose
<1>10. \A w \in Version : OnlyShrinks(w) /\ StaysKnown(w)
  <2>1. \A w \in Version : version[w].to \in Int /\ version[w].to <= Forever
    BY <1>1, EndParts
  <2>2. ASSUME NEW w \in Version, w # v PROVE OnlyShrinks(w) /\ StaysKnown(w)
    BY <1>7, <2>1, <2>2 DEF OnlyShrinks, StaysKnown
  <2>3. v \in Version => OnlyShrinks(v) /\ StaysKnown(v)
    BY <1>4, <1>8, <2>1 DEF OnlyShrinks, StaysKnown
  <2>4. QED BY <2>2, <2>3
<1>11. QED BY <1>2, <1>6, <1>9, <1>10, QuietStep

(***************************************************************************)
(* The steps of a reviewer, among any number of others.                    *)
(***************************************************************************)

\* A reviewer reads, or ends: what the others have found is as true as before.
LEMMA ReviewerMoves ==
  ASSUME CatalogInv, CatalogTyped', NoneIsEmpty', Loose \subseteq Loose',
         \A w \in Version : OnlyShrinks(w) /\ StaysKnown(w),
         NEW r \in Reviewers, NEW rec \in ReviewRow, HoldReview(r, rec),
         ClosesEarlier(rec), StillTrue(rec)'
  PROVE  CatalogInv'
<1>1. CatalogTyped /\ review \in [Reviewers -> ReviewRow]
  BY CatalogParts DEF CatalogInv
<1>2. review'[r] = rec /\ \A q \in Reviewers \ {r} : review'[q] = review[q]
  BY <1>1 DEF HoldReview
<1>3. ASSUME NEW q \in Reviewers PROVE ClosesEarlier(review'[q]) /\ StillTrue(review[q])'
  <2>1. CASE q = r
    BY <1>2, <2>1 DEF StillTrue, Meets, Overlap
  <2>2. CASE q # r
    <3>1. PICK old \in ReviewRow : old = review[q]
      BY <1>1
    <3>2. ClosesEarlier(old) /\ StillTrue(old)
      BY <3>1 DEF CatalogInv
    <3>3. StillTrue(old)'
      BY <1>1, <3>2, FoundStays
    <3>4. review'[q] = old
      BY <1>2, <2>2, <3>1
    <3>5. QED BY <3>2, <3>3, <3>4 DEF StillTrue, Meets, Overlap
  <2>3. QED BY <2>1, <2>2
<1>4. QED BY <1>3, NoNewOverlap DEF CatalogInv, ClosesEarlier

\* With the versions as they were.
LEMMA ReviewerLooks ==
  ASSUME CatalogInv, UNCHANGED <<version, document, reference, raced, upstream, sync>>,
         NEW r \in Reviewers, NEW rec \in ReviewRow, HoldReview(r, rec),
         ClosesEarlier(rec), StillTrue(rec)
  PROVE  CatalogInv'
<1>1. CatalogTyped
  BY DEF CatalogInv
<1>2. review' \in [Reviewers -> ReviewRow]
  BY <1>1, CatalogParts DEF HoldReview
<1>3. CatalogTyped'
  BY <1>1, <1>2, CatalogParts, CatalogWhole
<1>4. NoneIsEmpty' /\ Loose' = Loose
  BY DEF CatalogInv, NoneIsEmpty, Loose
<1>5. \A w \in Version : OnlyShrinks(w) /\ StaysKnown(w)
  <2>1. \A w \in Version : version'[w].to = version[w].to /\ version[w].to \in Int
    BY <1>1, EndParts
  <2>2. QED BY <2>1 DEF OnlyShrinks, StaysKnown
<1>6. StillTrue(rec)'
  BY <1>4 DEF StillTrue, Meets, Overlap
<1>7. QED BY <1>3, <1>4, <1>5, <1>6, ReviewerMoves

LEMMA EntityStep ==
  ASSUME CatalogInv, NEW r \in Reviewers, NEW v \in Version, ReviewCatalogEntity(r, v)
  PROVE  CatalogInv'
<1>1. CatalogTyped
  BY DEF CatalogInv
<1>2. UNCHANGED <<version, document, reference, raced, upstream, sync>> /\ version[v].status # "NONE"
  BY DEF ReviewCatalogEntity, tariffVars, costsVars
<1>3. PICK action \in {"REJECTED", "VALIDATED", "overlaps"} :
        HoldReview(r, [NoReview EXCEPT !.pc = action, !.version = v, !.to = version[v].to])
  BY DEF ReviewCatalogEntity
<1> DEFINE rec == [NoReview EXCEPT !.pc = action, !.version = v, !.to = version[v].to]
<1>4. version[v].to \in End /\ version[v].to \in Int
  BY <1>1, CatalogParts, EndParts DEF VersionRow
<1>5. /\ rec \in ReviewRow /\ rec.pc = action /\ rec.version = v
      /\ rec.to = version[v].to /\ rec.overlaps = {}
  BY <1>4, NothingHeld DEF ReviewRow
<1>6. HoldReview(r, rec)
  BY <1>3
<1> HIDE DEF rec
<1>7. ClosesEarlier(rec) /\ StillTrue(rec)
  BY <1>2, <1>4, <1>5 DEF ClosesEarlier, StillTrue
<1>8. QED BY <1>2, <1>5, <1>6, <1>7, ReviewerLooks

LEMMA OverlapsStep ==
  ASSUME CatalogInv, NEW r \in Reviewers, FindOverlaps(r)
  PROVE  CatalogInv'
<1> DEFINE v == review[r].version
           found == {w \in Version : w # v /\ w[1] = v[1] /\ Overlap(v[2], review[r].to, w)}
           rec == [review[r] EXCEPT !.pc = "publish", !.overlaps = found]
<1>1. CatalogTyped /\ review[r] \in ReviewRow
  BY CatalogParts DEF CatalogInv
<1>2. UNCHANGED <<version, document, reference, raced, upstream, sync>> /\ review[r].pc = "overlaps"
  BY DEF FindOverlaps, tariffVars, costsVars
<1>3. CASE ~ \A w \in found : w[2] < v[2]
  <2>1. HoldReview(r, NoReview)
    BY <1>3 DEF FindOverlaps
  <2>2. QED BY <1>2, <2>1, NothingHeld, IdleIsTrue, ReviewerLooks
<1>4. CASE \A w \in found : w[2] < v[2]
  <2>1. HoldReview(r, rec)
    BY <1>4 DEF FindOverlaps
  <2>2. found = Meets(v, review[r].to) /\ found \in SUBSET Version
    BY DEF Meets
  <2>3. \A w \in found : w[1] = v[1] /\ w[2] < v[2] /\ version[w].status # "NONE" /\ v[2] < version[w].to
    BY <1>4 DEF Overlap
  <2> HIDE DEF found
  <2>4. /\ rec \in ReviewRow /\ rec.pc = "publish" /\ rec.version = v /\ rec.to = review[r].to /\ rec.overlaps = found
    BY <1>1, <2>2 DEF ReviewRow
  <2> HIDE DEF rec
  <2>5. ClosesEarlier(rec)
    BY <2>3, <2>4 DEF ClosesEarlier
  <2>6. version[v].status # "NONE" /\ (v \notin Loose => version[v].to <= review[r].to)
    BY <1>2 DEF CatalogInv, StillTrue
  <2>7. StillTrue(rec)
    BY <2>2, <2>3, <2>4, <2>6 DEF StillTrue
  <2>8. QED BY <1>2, <2>1, <2>4, <2>5, <2>7, ReviewerLooks
<1>5. QED BY <1>3, <1>4

LEMMA RejectStep ==
  ASSUME CatalogInv, NEW r \in Reviewers, RejectOrValidate(r)
  PROVE  CatalogInv'
<1> PICK v : v = review[r].version
  OBVIOUS
<1> PICK st : st = review[r].pc
  OBVIOUS
<1>1. CatalogTyped /\ v \in Version /\ st \in {"REJECTED", "VALIDATED"} /\ HoldReview(r, NoReview)
  BY CatalogParts DEF CatalogInv, RejectOrValidate, ReviewRow
<1>2. UNCHANGED <<document, reference, raced, upstream, sync>> /\ version' = [version EXCEPT ![v].status = st]
  BY DEF RejectOrValidate, costsVars
<1> DEFINE x == [version[v] EXCEPT !.status = st]
<1>3. version' = [version EXCEPT ![v] = x]
  BY <1>1, <1>2, CatalogParts
<1>4. x \in VersionRow /\ x.status = st /\ x.to = version[v].to /\ x.costs = version[v].costs
  BY <1>1, CatalogParts DEF VersionRow, Statuses
<1> HIDE DEF x
<1>5. /\ version' \in [Version -> VersionRow] /\ version'[v] = x
      /\ \A w \in Version : w # v => version'[w] = version[w]
  BY <1>1, <1>3, <1>4, CatalogParts
<1>6. CatalogTyped'
  <2>1. review' \in [Reviewers -> ReviewRow]
    BY <1>1, NothingHeld, CatalogParts DEF HoldReview
  <2>2. QED BY <1>1, <1>2, <1>5, <2>1, CatalogParts, CatalogWhole
<1>7. NoneIsEmpty' /\ Loose \subseteq Loose'
  BY <1>1, <1>2, <1>4, <1>5 DEF CatalogInv, NoneIsEmpty, Loose
<1>8. \A w \in Version : OnlyShrinks(w) /\ StaysKnown(w)
  <2>1. \A w \in Version : version[w].to \in Int
    BY <1>1, EndParts
  <2>2. QED BY <1>1, <1>4, <1>5, <2>1 DEF OnlyShrinks, StaysKnown
<1>9. ClosesEarlier(NoReview) /\ StillTrue(NoReview)'
  BY IdleIsTrue, NothingHeld DEF StillTrue
<1>10. QED BY <1>1, <1>6, <1>7, <1>8, <1>9, NothingHeld, ReviewerMoves

\* What a publication writes.
LEMMA PublishedRows ==
  ASSUME CatalogTyped, NEW v \in Version, NEW overlaps \in SUBSET Version,
         \A w \in overlaps : w[1] = v[1] /\ w[2] < v[2],
         version' = Published(v, overlaps)
  PROVE  /\ v \notin overlaps /\ version' \in [Version -> VersionRow]
         /\ version'[v].status = "PUBLISHED" /\ version'[v].to = version[v].to
         /\ \A w \in overlaps : version'[w].to = v[2]
         /\ \A w \in Version : version'[w].costs = version[w].costs
                               /\ (w # v => version'[w].status = version[w].status)
         /\ \A w \in Version : w # v /\ w \notin overlaps => version'[w] = version[w]
<1>1. version \in [Version -> VersionRow] /\ version[v] \in VersionRow /\ v \notin overlaps
  BY CatalogParts, VersionParts
<1> DEFINE x == [version[v] EXCEPT !.status = "PUBLISHED"]
<1>2. x \in VersionRow /\ x.status = "PUBLISHED" /\ x.to = version[v].to /\ x.costs = version[v].costs
  BY <1>1 DEF VersionRow, Statuses
<1>3. \A w \in overlaps : v[2] \in End
  BY VersionParts, CatalogAssumption DEF Start, End
<1>4. /\ version'[v] = x
      /\ \A w \in overlaps : version'[w] = [version[w] EXCEPT !.to = v[2]]
      /\ \A w \in Version : w # v /\ w \notin overlaps => version'[w] = version[w]
  BY <1>1 DEF Published
<1>5. \A w \in overlaps : /\ version'[w] \in VersionRow /\ version'[w].to = v[2]
                          /\ version'[w].status = version[w].status /\ version'[w].costs = version[w].costs
  <2> SUFFICES ASSUME NEW w \in overlaps
               PROVE  /\ version'[w] \in VersionRow /\ version'[w].to = v[2]
                      /\ version'[w].status = version[w].status /\ version'[w].costs = version[w].costs
    OBVIOUS
  <2>1. version[w] \in VersionRow /\ v[2] \in End /\ version'[w] = [version[w] EXCEPT !.to = v[2]]
    BY <1>1, <1>3, <1>4
  <2>2. QED BY <2>1 DEF VersionRow
<1> HIDE DEF x
<1>6. version' \in [Version -> VersionRow]
  <2>1. \A w \in Version : version'[w] \in VersionRow
    BY <1>1, <1>2, <1>4, <1>5
  <2>2. version' = [w \in Version |-> version'[w]]
    BY DEF Published
  <2>3. QED BY <2>1, <2>2
<1>7. QED BY <1>1, <1>2, <1>4, <1>5, <1>6

\* The version takes the place of those that make room for it; the only one whose term is new is the
\* version itself, and it meets none of the others.  If the reviewer was overtaken, what it has
\* written is loose.
LEMMA PublishNoOverlap ==
  ASSUME CatalogInv, CatalogTyped', NEW r \in Reviewers, PublishVersion(r)
  PROVE  VersionsDoNotOverlap'
<1> DEFINE rec == review[r]
           v == rec.version
           overlaps == rec.overlaps
<1>1. /\ CatalogTyped /\ v \in Version /\ overlaps \in SUBSET Version /\ rec.pc = "publish"
      /\ \A w \in overlaps : w[1] = v[1] /\ w[2] < v[2]
      /\ version' = Published(v, overlaps)
      /\ raced' = IF rec.overtaken THEN raced \cup {v} \cup overlaps ELSE raced
      /\ StillTrue(rec)
  BY CatalogParts DEF CatalogInv, PublishVersion, ReviewRow, ClosesEarlier
<1>2. /\ v \notin overlaps
      /\ version'[v].status = "PUBLISHED" /\ version'[v].to = version[v].to
      /\ \A w \in overlaps : version'[w].to = v[2]
      /\ \A w \in Version : version'[w].costs = version[w].costs
                            /\ (w # v => version'[w].status = version[w].status)
      /\ \A w \in Version : w # v /\ w \notin overlaps => version'[w] = version[w]
  BY <1>1, PublishedRows
<1>3. Loose \subseteq Loose'
  BY <1>1, <1>2 DEF Loose
<1>4. \A w \in Version : version[w].to \in Int /\ version'[w].to \in Int /\ w[2] \in Int
  <2>1. \A w \in Version : version'[w].to \in Int
    BY CatalogAssumption DEF CatalogTyped, CatalogTypeOK, End
  <2>2. QED BY <1>1, <2>1, EndParts, VersionParts
<1>5. rec.to \in Int
  BY <1>1, EndParts
<1> HIDE DEF rec, v, overlaps
<1>6. \A w \in Version : w # v => OnlyShrinks(w)
  <2>1. ASSUME NEW w \in overlaps, w \notin Loose' PROVE version'[w].to <= version[w].to
    <3>1. ~rec.overtaken
      BY <1>1, <2>1 DEF Loose
    <3>2. v[2] < version[w].to
      BY <1>1, <3>1, <2>1 DEF StillTrue, v, overlaps
    <3>3. QED BY <1>1, <1>2, <1>4, <2>1, <3>2
  <2>2. QED BY <1>2, <1>4, <2>1 DEF OnlyShrinks
<1>7. ASSUME NEW w \in Version, w # v, w[1] = v[1], v \notin Loose', w \notin Loose',
             version'[w].status = "PUBLISHED", w[2] < version'[v].to, v[2] < version'[w].to
      PROVE  FALSE
  <2>1. ~rec.overtaken /\ w \notin Loose /\ v \notin Loose
    BY <1>1, <1>3, <1>7 DEF Loose
  <2>2. w \notin overlaps
    BY <1>2, <1>4, <1>7
  <2>3. version[w].status = "PUBLISHED" /\ v[2] < version[w].to
    BY <1>2, <1>7, <2>2
  <2>4. w[2] < rec.to
    <3>1. version[v].to <= rec.to
      BY <1>1, <2>1 DEF StillTrue, v
    <3>2. QED BY <1>1, <1>2, <1>4, <1>5, <1>7, <3>1
  <2>5. w \in Meets(v, rec.to)
    BY <1>7, <2>3, <2>4 DEF Meets, Overlap
  <2>6. QED BY <1>1, <2>1, <2>2, <2>5 DEF StillTrue, v, overlaps
<1>8. ASSUME NEW a \in Version, NEW b \in Version, a # b, a[1] = b[1], version'[a].status = "PUBLISHED",
             ~version'[a].costs, ~version'[b].costs, a \notin raced', b \notin raced',
             Overlap(a[2], version[a].to, b)'
      PROVE  FALSE
  <2>1. a \notin Loose' /\ b \notin Loose'
    BY <1>8 DEF Loose
  <2>2. version'[b].status = "PUBLISHED" /\ b[2] < version'[a].to /\ a[2] < version'[b].to
    BY <1>8 DEF Overlap
  <2>3. CASE a # v /\ b # v
    BY <1>3, <1>6, <1>8, <2>1, <2>3, TermsShrink
  <2>4. CASE a = v
    BY <1>7, <1>8, <2>1, <2>2, <2>4
  <2>5. CASE b = v
    BY <1>7, <1>8, <2>1, <2>2, <2>5
  <2>6. QED BY <2>3, <2>4, <2>5
<1>9. QED BY <1>8 DEF VersionsDoNotOverlap, CatalogTyped

\* What the others have found of the same item is overtaken; a version they have only read is closed,
\* or is the one that is published.
LEMMA PublishStep ==
  ASSUME CatalogInv, NEW r \in Reviewers, PublishVersion(r)
  PROVE  CatalogInv'
<1> PICK v : v = review[r].version
  OBVIOUS
<1> PICK overlaps : overlaps = review[r].overlaps
  OBVIOUS
<1>1. /\ CatalogTyped /\ v \in Version /\ overlaps \in SUBSET Version /\ review[r].pc = "publish"
      /\ \A w \in overlaps : w[1] = v[1] /\ w[2] < v[2]
      /\ version[v].status # "NONE" /\ \A w \in overlaps : version[w].status # "NONE"
  BY CatalogParts DEF CatalogInv, PublishVersion, ReviewRow, ClosesEarlier, StillTrue
<1>2. /\ UNCHANGED <<reference, upstream, sync>> /\ version' = Published(v, overlaps)
      /\ document' = [document EXCEPT ![v] = "PUBLISHED"]
      /\ raced' = IF review[r].overtaken THEN raced \cup {v} \cup overlaps ELSE raced
      /\ review' = [q \in Reviewers |->
                      IF q = r THEN NoReview
                      ELSE IF review[q].pc = "publish" /\ review[q].version[1] = v[1]
                      THEN [review[q] EXCEPT !.overtaken = TRUE]
                      ELSE review[q]]
  BY DEF PublishVersion, costsVars
<1>3. /\ v \notin overlaps /\ version' \in [Version -> VersionRow]
      /\ version'[v].status = "PUBLISHED" /\ version'[v].to = version[v].to
      /\ \A w \in overlaps : version'[w].to = v[2]
      /\ \A w \in Version : version'[w].costs = version[w].costs
                            /\ (w # v => version'[w].status = version[w].status)
      /\ \A w \in Version : w # v /\ w \notin overlaps => version'[w] = version[w]
  BY <1>1, <1>2, PublishedRows
<1>4. Loose \subseteq Loose' /\ NoneIsEmpty'
  BY <1>1, <1>2, <1>3 DEF Loose, CatalogInv, NoneIsEmpty
<1>5. \A q \in Reviewers : review[q] \in ReviewRow /\ [review[q] EXCEPT !.overtaken = TRUE] \in ReviewRow
  <2>1. \A q \in Reviewers : review[q] \in ReviewRow
    BY <1>1, CatalogParts
  <2>2. QED BY <2>1 DEF ReviewRow
<1>6. CatalogTyped'
  <2>1. review' \in [Reviewers -> ReviewRow]
    BY <1>2, <1>5, NothingHeld
  <2>2. document' \in [Version -> Statuses] /\ raced' \subseteq Version
    BY <1>1, <1>2, CatalogParts DEF Statuses
  <2>3. QED BY <1>1, <1>2, <1>3, <2>1, <2>2, CatalogParts, CatalogWhole
<1>7. \A w \in Version : version[w].to \in Int /\ version'[w].to \in Int /\ w[2] \in Int
  <2>1. \A w \in Version : version'[w].to \in Int
    BY <1>6, CatalogAssumption DEF CatalogTyped, CatalogTypeOK, End
  <2>2. QED BY <1>1, <2>1, EndParts, VersionParts
<1>8. ASSUME NEW q \in Reviewers, q # r PROVE ClosesEarlier(review'[q]) /\ StillTrue(review[q])'
  <2>1. PICK old \in ReviewRow : old = review[q]
    BY <1>5
  <2>2. ClosesEarlier(old) /\ StillTrue(old)
    BY <2>1 DEF CatalogInv
  <2>3. old.version \in Version /\ old.to \in Int /\ old.overlaps \subseteq Version
    BY <1>1, <2>1, EndParts
  <2>4. CASE old.version[1] # v[1]
    <3>1. \A w \in Version : w[1] = old.version[1] => version'[w] = version[w]
      BY <1>1, <1>3, <2>4
    <3>2. \A w \in Version : w[1] = old.version[1] => OnlyShrinks(w) /\ StaysKnown(w)
      BY <1>7, <3>1 DEF OnlyShrinks, StaysKnown
    <3>3. StillTrue(old)'
      BY <1>1, <1>4, <1>6, <2>2, <3>2, FoundStays
    <3>4. review'[q] = old
      BY <1>2, <1>8, <2>1, <2>4
    <3>5. QED BY <2>2, <3>3, <3>4 DEF StillTrue, Meets, Overlap
  <2>5. CASE old.version[1] = v[1]
    <3>1. PICK now \in ReviewRow : now = review'[q]
      BY <1>6, CatalogParts DEF CatalogTyped
    <3>2. /\ now.pc = old.pc /\ now.version = old.version /\ now.to = old.to /\ now.overlaps = old.overlaps
          /\ now.pc = "publish" => now.overtaken
      BY <1>2, <1>8, <2>1, <2>5, <3>1 DEF ReviewRow
    <3>3. ASSUME old.pc # "idle"
          PROVE  /\ \A w \in old.overlaps \cup {old.version} : version'[w].status # "NONE"
                 /\ old.version \notin Loose' => version'[old.version].to <= old.to
      <4>1. \A w \in old.overlaps \cup {old.version} : version'[w].status # "NONE"
        BY <1>3, <2>2, <2>3, <3>3 DEF StillTrue
      <4>2. ASSUME old.version \notin Loose' PROVE version'[old.version].to <= old.to
        <5>1. version[old.version].to <= old.to
          BY <1>4, <2>2, <3>3, <4>2 DEF StillTrue
        <5>2. CASE old.version \notin overlaps
          BY <1>3, <2>3, <5>1, <5>2
        <5>3. CASE old.version \in overlaps
          <6>1. ~review[r].overtaken
            BY <1>2, <4>2, <5>3 DEF Loose
          <6>2. v[2] < version[old.version].to
            BY <1>1, <6>1, <5>3 DEF CatalogInv, StillTrue
          <6>3. version'[old.version].to = v[2]
            BY <1>3, <5>3
          <6>4. QED BY <1>1, <1>7, <2>3, <5>1, <6>2, <6>3
        <5>4. QED BY <5>2, <5>3
      <4>3. QED BY <4>1, <4>2
    <3>4. StillTrue(now)'
      BY <3>2, <3>3 DEF StillTrue
    <3>5. QED BY <2>2, <3>1, <3>2, <3>4 DEF ClosesEarlier, StillTrue, Meets, Overlap
  <2>6. QED BY <2>4, <2>5
<1>9. ClosesEarlier(review'[r]) /\ StillTrue(review[r])'
  <2>1. review'[r] = NoReview
    BY <1>2
  <2>2. QED BY <2>1, NothingHeld DEF ClosesEarlier, StillTrue
<1>10. VersionsDoNotOverlap'
  BY <1>6, PublishNoOverlap
<1>11. QED BY <1>4, <1>6, <1>8, <1>9, <1>10 DEF CatalogInv, ClosesEarlier

\* The other steps touch neither a version nor a review.
LEMMA OtherSteps ==
  ASSUME CatalogInv,
         \/ \E v \in Version : ReviewSource(v)
         \/ \E i \in Items : CostsPublishes(i) \/ SkipIncomplete(i) \/ ArchiveSourceDocument(i)
         \/ IntervalElapses \/ StartSync \/ StoringThrows \/ FinishSync \/ SyncStops
  PROVE  CatalogInv'
<1>1. /\ version \in [Version -> VersionRow] /\ document \in [Version -> Statuses]
      /\ reference \in {"PUBLISHED", "ARCHIVED"} /\ upstream \in [Items -> Offer] /\ raced \subseteq Version
      /\ review \in [Reviewers -> ReviewRow] /\ sync \in SyncRow /\ CatalogTyped
  BY CatalogParts DEF CatalogInv
<1>2. UNCHANGED <<version, review, raced>>
  BY DEF ReviewSource, CostsPublishes, SkipIncomplete, ArchiveSourceDocument, IntervalElapses, StartSync,
         StoringThrows, FinishSync, SyncStops, tariffVars, reviewVars, costsVars
<1>3. document' \in [Version -> Statuses]
  BY <1>1 DEF ReviewSource, CostsPublishes, SkipIncomplete, ArchiveSourceDocument, IntervalElapses, StartSync,
              StoringThrows, FinishSync, SyncStops, tariffVars, Statuses
<1>4. reference' \in {"PUBLISHED", "ARCHIVED"}
  BY <1>1 DEF ReviewSource, CostsPublishes, SkipIncomplete, ArchiveSourceDocument, IntervalElapses, StartSync,
              StoringThrows, FinishSync, SyncStops, tariffVars
<1>5. upstream' \in [Items -> Offer]
  <2>1. CASE \E i \in Items : CostsPublishes(i)
    <3>1. PICK i \in Items, offer \in Offer : upstream' = [upstream EXCEPT ![i] = offer]
      BY <2>1 DEF CostsPublishes
    <3>2. QED BY <1>1, <3>1
  <2>2. CASE UNCHANGED upstream
    BY <1>1, <2>2
  <2>3. QED BY <2>1, <2>2 DEF ReviewSource, SkipIncomplete, ArchiveSourceDocument, IntervalElapses, StartSync,
                              StoringThrows, FinishSync, SyncStops, costsVars
<1>6. sync' \in SyncRow
  <2>1. CASE StartSync
    <3> DEFINE x == [NotSyncing EXCEPT !.pc = "source", !.left = Items, !.snapshot = upstream]
    <3>1. x \in SyncRow
      BY <1>1, NothingHeld DEF SyncRow
    <3>2. QED BY <2>1, <3>1 DEF StartSync
  <2>2. CASE \E i \in Items : SkipIncomplete(i)
    BY <1>1, <2>2 DEF SkipIncomplete, SyncRow
  <2>3. ASSUME NEW i \in Items, ArchiveSourceDocument(i) PROVE sync' \in SyncRow
    BY <1>1, <2>3 DEF ArchiveSourceDocument, SyncRow
  <2>4. CASE FinishSync \/ SyncStops \/ StoringThrows
    BY <2>4, NothingHeld DEF FinishSync, SyncStops, StoringThrows
  <2>5. CASE UNCHANGED sync
    BY <1>1, <2>5
  <2>6. QED BY <2>1, <2>2, <2>3, <2>4, <2>5 DEF ReviewSource, CostsPublishes, IntervalElapses, costsVars
<1>7. CatalogTyped'
  BY <1>1, <1>2, <1>3, <1>4, <1>5, <1>6, CatalogWhole
<1>8. QED BY <1>2, <1>7, VersionsStay

\* For every number of items, days, drafts, snapshots of Costs and administrators: published versions
\* of an item overlap only where Costs has written one of them, or a publication that was overtaken.
THEOREM VersionsExclude == CatalogSpec => []VersionsDoNotOverlap
<1>1. CatalogInv /\ [CatalogNext]_catalogVars => CatalogInv'
  <2> SUFFICES ASSUME CatalogInv, [CatalogNext]_catalogVars PROVE CatalogInv'
    OBVIOUS
  <2>1. CASE Drafts
    BY <2>1, DraftStep DEF Drafts
  <2>2. CASE Administration
    BY <2>2, EntityStep, RejectStep, OverlapsStep, PublishStep, OtherSteps DEF Administration, ReviewStep
  <2>3. CASE Synchronization
    BY <2>3, UpsertStep, OtherSteps DEF Synchronization, SyncStep
  <2>4. CASE UNCHANGED catalogVars
    <3>1. UNCHANGED <<version, review, raced, document, reference, upstream, sync>>
      BY <2>4 DEF catalogVars, tariffVars, reviewVars, costsVars
    <3>2. CatalogTyped'
      BY <3>1 DEF CatalogInv, CatalogTyped, CatalogTypeOK
    <3>3. QED BY <3>1, <3>2, VersionsStay
  <2>5. QED BY <2>1, <2>2, <2>3, <2>4 DEF CatalogNext
<1>2. CatalogInv => VersionsDoNotOverlap
  BY DEF CatalogInv
<1>3. QED BY <1>1, <1>2, CatalogInitInv, PTL DEF CatalogSpec

(***************************************************************************)
(* The profile and its curves, to the extent that the documents see them.  *)
(***************************************************************************)
LEMMA ValueParts == Value \subseteq Nat /\ Incomplete \notin Value /\ MaxCalendars \in Nat
BY PricesAssumption DEF Value, Incomplete

LEMMA SupersededTyped ==
  ASSUME curve \in [Fingerprint -> {"NONE", "READY", "SUPERSEDED"}]
  PROVE  SupersededCurves \in [Fingerprint -> {"NONE", "READY", "SUPERSEDED"}]
BY DEF SupersededCurves

LEMMA ProfileChanges ==
  ASSUME PricesTypeOK, NEW saw, NEW new \in Value \cup {Incomplete}, ChangeProfile(saw, new),
         UNCHANGED <<refresh, backend>>
  PROVE  PricesTypeOK'
BY SupersededTyped DEF ChangeProfile, PricesTypeOK, siteVars

LEMMA Writes ==
  ASSUME WritersTyped, NEW w \in Writers, NEW rec \in WriterRow, Write(w, rec),
         rec.pc # "idle" => rec.new \in Value
  PROVE  WritersTyped'
BY DEF Write, WritersTyped

LEMMA NotWritingTyped == NotWriting \in WriterRow /\ NotWriting.pc = "idle"
BY DEF NotWriting, WriterRow

LEMMA PricesInitTyped == PricesInit => PricesTypeOK /\ WritersTyped
<1> SUFFICES ASSUME PricesInit PROVE PricesTypeOK /\ WritersTyped
  OBVIOUS
<1>1. hdo \in Calendar
  BY PricesAssumption DEF PricesInit, Calendar
<1>2. PricesTypeOK
  BY <1>1 DEF PricesInit, PricesTypeOK
<1>3. WritersTyped
  BY NotWritingTyped DEF PricesInit, WritersTyped
<1>4. QED BY <1>2, <1>3

\* The askers write curves and defaults, and nothing of the writers.
LEMMA AskersTyped ==
  ASSUME PricesTypeOK, WritersTyped, NEW a \in Askers, Ask(a) \/ AskerStep(a) \/ CurveFails(a)
  PROVE  PricesTypeOK' /\ WritersTyped'
<1>1. UNCHANGED <<hdo, confirmed, writer, refresh, backend>>
  BY DEF Ask, AskerStep, CurveFails, PrepareAnalysisDefaults, ReadProfile, FindCurve, ReviveIdenticalCurve,
         CreateCurve, SelectCurves, siteVars
<1>2. profile' \in Value \cup {Incomplete}
  BY DEF Ask, AskerStep, CurveFails, PrepareAnalysisDefaults, ReadProfile, FindCurve, ReviveIdenticalCurve,
         CreateCurve, SelectCurves, siteVars, PricesTypeOK
<1>3. curve' \in [Fingerprint -> {"NONE", "READY", "SUPERSEDED"}]
  <2>1. curve \in [Fingerprint -> {"NONE", "READY", "SUPERSEDED"}]
    BY DEF PricesTypeOK
  <2>2. CASE ReviveIdenticalCurve(a)
    BY <2>1, <2>2 DEF ReviveIdenticalCurve, Revived
  <2>3. CASE CreateCurve(a)
    <3>1. \A key : Created(key) \in [Fingerprint -> {"NONE", "READY", "SUPERSEDED"}]
      BY <2>1, SupersededTyped DEF Created
    <3>2. QED BY <2>1, <2>3, <3>1 DEF CreateCurve
  <2>4. CASE UNCHANGED curve
    BY <2>1, <2>4
  <2>5. QED BY <2>2, <2>3, <2>4 DEF Ask, AskerStep, CurveFails, PrepareAnalysisDefaults, ReadProfile, FindCurve,
                                   SelectCurves, siteVars
<1>4. QED BY <1>1, <1>2, <1>3 DEF PricesTypeOK, WritersTyped

LEMMA WriterMoves ==
  ASSUME PricesTypeOK, WritersTyped, NEW w \in Writers, WriterStep(w)
  PROVE  PricesTypeOK' /\ WritersTyped'
<1>1. /\ profile \in Value \cup {Incomplete} /\ confirmed \in Value \cup {Unconfirmed}
      /\ backend \in Value \cup {Incomplete} /\ writer[w] \in WriterRow
      /\ writer[w].pc # "idle" => writer[w].new \in Value
  BY DEF PricesTypeOK, WritersTyped
<1>2. CASE OpenSave(w)
  <2>1. PICK new \in Value, confirms \in BOOLEAN :
          Write(w, [pc |-> "save", saw |-> profile, new |-> new, confirms |-> confirms])
    BY <1>2 DEF OpenSave
  <2>2. [pc |-> "save", saw |-> profile, new |-> new, confirms |-> confirms] \in WriterRow
    BY <1>1 DEF WriterRow
  <2>3. WritersTyped'
    BY <2>1, <2>2, Writes
  <2>4. QED BY <1>2, <2>3 DEF OpenSave, siteVars, PricesTypeOK
<1>3. CASE SaveProfile(w)
  <2>1. PricesTypeOK'
    BY <1>1, <1>3, ProfileChanges DEF SaveProfile, WriterRow
  <2>2. [writer[w] EXCEPT !.pc = "ready"] \in WriterRow /\ [writer[w] EXCEPT !.pc = "ready"].new = writer[w].new
    BY <1>1 DEF WriterRow
  <2>3. QED BY <1>1, <1>3, <2>1, <2>2, Writes, NotWritingTyped DEF SaveProfile
<1>4. CASE CheckReadiness(w)
  <2>1. [writer[w] EXCEPT !.pc = "confirm"] \in WriterRow /\ [writer[w] EXCEPT !.pc = "confirm"].new = writer[w].new
    BY <1>1 DEF WriterRow
  <2>2. WritersTyped'
    BY <1>1, <1>4, <2>1, Writes, NotWritingTyped DEF CheckReadiness
  <2>3. QED BY <1>4, <2>2 DEF CheckReadiness, siteVars, PricesTypeOK
<1>5. CASE ConfirmValues(w)
  BY <1>1, <1>5, Writes, NotWritingTyped DEF ConfirmValues, PricesTypeOK
<1>6. CASE OpenTurnon(w)
  <2>1. profile \in Value
    BY <1>1, <1>6 DEF OpenTurnon
  <2>2. [pc |-> "sync", saw |-> profile, new |-> profile, confirms |-> TRUE] \in WriterRow
    BY <2>1 DEF WriterRow
  <2>3. WritersTyped'
    BY <1>6, <2>1, <2>2, Writes DEF OpenTurnon
  <2>4. QED BY <1>6, <2>3 DEF OpenTurnon, siteVars, PricesTypeOK
<1>7. CASE SyncLegacyControlProfile(w)
  <2>1. [writer[w] EXCEPT !.pc = "confirm"] \in WriterRow /\ [writer[w] EXCEPT !.pc = "confirm"].new = writer[w].new
    BY <1>1 DEF WriterRow
  <2>2. WritersTyped' /\ backend' \in Value \cup {Incomplete}
    BY <1>1, <1>7, <2>1, Writes, NotWritingTyped DEF SyncLegacyControlProfile
  <2>3. QED BY <1>7, <2>2 DEF SyncLegacyControlProfile, siteVars, PricesTypeOK
<1>8. QED BY <1>2, <1>3, <1>4, <1>5, <1>6, <1>7 DEF WriterStep

LEMMA PricesTyped ==
  PricesTypeOK /\ WritersTyped /\ [PricesNext]_pricesVars => PricesTypeOK' /\ WritersTyped'
<1> SUFFICES ASSUME PricesTypeOK, WritersTyped, [PricesNext]_pricesVars PROVE PricesTypeOK' /\ WritersTyped'
  OBVIOUS
<1>1. CASE OpenRefresh \/ RefreshLegacyValues
  BY <1>1 DEF OpenRefresh, RefreshLegacyValues, siteVars, PricesTypeOK, WritersTyped
<1>2. CASE ImportExactHdoCalendar
  <2>1. hdo' \in Calendar
    BY <1>2, ValueParts DEF ImportExactHdoCalendar, PricesTypeOK, Calendar
  <2>2. curve' \in [Fingerprint -> {"NONE", "READY", "SUPERSEDED"}]
    BY <1>2, SupersededTyped DEF ImportExactHdoCalendar, PricesTypeOK
  <2>3. QED BY <1>2, <2>1, <2>2 DEF ImportExactHdoCalendar, PricesTypeOK, WritersTyped
<1>3. CASE UNCHANGED pricesVars
  BY <1>3 DEF pricesVars, siteVars, PricesTypeOK, WritersTyped
<1>4. QED BY <1>1, <1>2, <1>3, AskersTyped, WriterMoves DEF PricesNext

(***************************************************************************)
(* The types of the documents.                                             *)
(***************************************************************************)
Requests == {"NONE", "REQUESTED", "RECEIVED", "PROCESSING", "NEEDS_INPUT", "CONFIRMED", "CANCELED"}

LEMMA WaitsTyped == Waits \in Holding /\ Waits.pc = "idle" /\ Waits.doc \notin Docs
BY InvoicesAssumption DEF Waits, Holding, NoDocument

LEMMA HeldTyped ==
  ASSUME NEW c \in Holding, c.pc # "idle"
  PROVE  /\ c.doc \in Docs /\ c.pc \in {"parse", "wait", "persist", "failed"}
         /\ \A pc \in {"parse", "wait", "persist", "failed"} :
              /\ [c EXCEPT !.pc = pc] \in Holding /\ [c EXCEPT !.pc = pc].pc = pc /\ [c EXCEPT !.pc = pc].doc = c.doc
BY WaitsTyped DEF Holding

LEMMA InvoicesParts ==
  ASSUME InvoicesTyped
  PROVE  /\ request \in Requests /\ doc \in [Docs -> DocRow] /\ uploading \subseteq Docs
         /\ Cardinality(Stored) <= MaxDocuments
         /\ coordinator \in Holding /\ operator \in Holding /\ reviewing \in ReviewingRow
         /\ parses \in [Docs -> Nat] /\ byHand \in [Docs -> Nat] /\ deaths \in Nat /\ hands \in Nat
BY DEF InvoicesTyped, InvoicesTypeOK, Requests

LEMMA InvoicesWhole ==
  ASSUME request' \in Requests, doc' \in [Docs -> DocRow], uploading' \subseteq Docs,
         Cardinality(Stored)' <= MaxDocuments,
         coordinator' \in Holding, operator' \in Holding, reviewing' \in ReviewingRow,
         parses' \in [Docs -> Nat], byHand' \in [Docs -> Nat], deaths' \in Nat, hands' \in Nat
  PROVE  InvoicesTyped'
<1>1. \A d \in Docs : doc'[d].version \in {"none", "draft", "failed", "manual"} /\ doc'[d].data \in {"empty", "draft", "manual"}
  BY DEF DocRow
<1>2. QED BY <1>1 DEF InvoicesTyped, InvoicesTypeOK, Requests

\* Nothing is stored that was not, unless there was room.
LEMMA StoredStays ==
  ASSUME InvoicesTyped, \A d \in Docs : doc'[d].stored => doc[d].stored
  PROVE  Cardinality(Stored)' <= MaxDocuments
<1>1. Stored' \subseteq Stored /\ IsFiniteSet(Stored)
  <2>1. Stored \subseteq Docs
    BY DEF Stored
  <2>2. QED BY <2>1, InvoicesAssumption, FS_Subset DEF Stored
<1>2. /\ Cardinality(Stored') <= Cardinality(Stored) /\ Cardinality(Stored) \in Nat
      /\ IsFiniteSet(Stored')
  BY <1>1, FS_Subset, FS_CardinalityType
<1>3. Cardinality(Stored') \in Nat
  BY <1>2, FS_CardinalityType
<1>4. QED BY <1>2, <1>3, InvoicesParts, InvoicesAssumption

LEMMA StoredGrows ==
  ASSUME InvoicesTyped, NEW d \in Docs, Cardinality(Stored) < MaxDocuments,
         \A e \in Docs \ {d} : doc'[e].stored = doc[e].stored
  PROVE  Cardinality(Stored)' <= MaxDocuments
<1>1. IsFiniteSet(Stored)
  <2>1. Stored \subseteq Docs
    BY DEF Stored
  <2>2. QED BY <2>1, InvoicesAssumption, FS_Subset
<1>2. IsFiniteSet(Stored \cup {d}) /\ Cardinality(Stored \cup {d}) <= Cardinality(Stored) + 1 /\ Cardinality(Stored) \in Nat
  <2>1. Cardinality(Stored) \in Nat
    BY <1>1, FS_CardinalityType
  <2>2. /\ IsFiniteSet(Stored \cup {d})
        /\ Cardinality(Stored \cup {d}) = IF d \in Stored THEN Cardinality(Stored) ELSE Cardinality(Stored) + 1
    BY <1>1, FS_AddElement
  <2>3. QED BY <2>1, <2>2
<1>3. Stored' \subseteq Stored \cup {d}
  BY DEF Stored
<1>4. /\ Cardinality(Stored') <= Cardinality(Stored \cup {d}) /\ Cardinality(Stored') \in Nat
      /\ Cardinality(Stored \cup {d}) \in Nat
  BY <1>2, <1>3, FS_Subset, FS_CardinalityType
<1>5. QED BY <1>2, <1>4, InvoicesAssumption

\* What is written over a document.
LEMMA ReadRow ==
  ASSUME doc \in [Docs -> DocRow], NEW d \in Docs,
         doc' = [doc EXCEPT ![d].read = TRUE, ![d].version = "draft", ![d].data = "draft"]
  PROVE  /\ doc' \in [Docs -> DocRow] /\ \A e \in Docs \ {d} : doc'[e] = doc[e]
         /\ doc'[d].read /\ doc'[d].stored = doc[d].stored
<1> DEFINE x == [doc[d] EXCEPT !.read = TRUE, !.version = "draft", !.data = "draft"]
<1>1. x \in DocRow /\ x.read /\ x.stored = doc[d].stored
  BY DEF DocRow
<1>2. doc' = [doc EXCEPT ![d] = x]
  OBVIOUS
<1> HIDE DEF x
<1>3. QED BY <1>1, <1>2

LEMMA ManualRow ==
  ASSUME doc \in [Docs -> DocRow], NEW d \in Docs,
         doc' = [doc EXCEPT ![d].version = "manual", ![d].data = "manual"]
  PROVE  /\ doc' \in [Docs -> DocRow] /\ \A e \in Docs \ {d} : doc'[e] = doc[e]
         /\ doc'[d].stored = doc[d].stored
<1> DEFINE x == [doc[d] EXCEPT !.version = "manual", !.data = "manual"]
<1>1. x \in DocRow /\ x.stored = doc[d].stored
  BY DEF DocRow
<1>2. doc' = [doc EXCEPT ![d] = x]
  OBVIOUS
<1> HIDE DEF x
<1>3. QED BY <1>1, <1>2

LEMMA FailedRow ==
  ASSUME doc \in [Docs -> DocRow], NEW d \in Docs, doc' = Marked(d)
  PROVE  /\ doc' \in [Docs -> DocRow] /\ \A e \in Docs \ {d} : doc'[e] = doc[e]
         /\ doc'[d].version = "failed" /\ doc'[d].stored = doc[d].stored
<1> DEFINE x == [doc[d] EXCEPT !.version = "failed"]
<1>1. x \in DocRow /\ x.stored = doc[d].stored /\ x.version = "failed"
  BY DEF DocRow
<1>2. doc' = [doc EXCEPT ![d] = x]
  BY DEF Marked
<1> HIDE DEF x
<1>3. QED BY <1>1, <1>2

LEMMA StoredRow ==
  ASSUME doc \in [Docs -> DocRow], NEW d \in Docs, doc' = [doc EXCEPT ![d].stored = TRUE]
  PROVE  /\ doc' \in [Docs -> DocRow] /\ \A e \in Docs \ {d} : doc'[e] = doc[e]
         /\ doc'[d].version = doc[d].version /\ doc'[d].read = doc[d].read
<1> DEFINE x == [doc[d] EXCEPT !.stored = TRUE]
<1>1. x \in DocRow /\ x.version = doc[d].version /\ x.read = doc[d].read
  BY DEF DocRow
<1>2. doc' = [doc EXCEPT ![d] = x]
  OBVIOUS
<1> HIDE DEF x
<1>3. QED BY <1>1, <1>2

LEMMA PurgedRow ==
  ASSUME doc \in [Docs -> DocRow], NEW d \in Docs,
         doc' = [doc EXCEPT ![d].stored = FALSE, ![d].purged = TRUE, ![d].data = "empty"]
  PROVE  /\ doc' \in [Docs -> DocRow] /\ \A e \in Docs \ {d} : doc'[e] = doc[e]
         /\ doc'[d].version = doc[d].version /\ doc'[d].read = doc[d].read /\ ~doc'[d].stored
<1> DEFINE x == [doc[d] EXCEPT !.stored = FALSE, !.purged = TRUE, !.data = "empty"]
<1>1. x \in DocRow /\ x.version = doc[d].version /\ x.read = doc[d].read /\ ~x.stored
  BY DEF DocRow
<1>2. doc' = [doc EXCEPT ![d] = x]
  OBVIOUS
<1> HIDE DEF x
<1>3. QED BY <1>1, <1>2

LEMMA InvoicesInitInv == InvoicesInit /\ PricesInit => InvoiceInv
<1> SUFFICES ASSUME InvoicesInit, PricesInit PROVE InvoiceInv
  OBVIOUS
<1>1. Missing \in DocRow /\ Missing.version = "none" /\ ~Missing.stored
  BY DEF Missing, DocRow
<1>2. doc \in [Docs -> DocRow] /\ \A d \in Docs : ~doc[d].stored
  BY <1>1 DEF InvoicesInit
<1>3. Stored = {} /\ Cardinality(Stored) <= MaxDocuments
  <2>1. Stored = {}
    BY <1>2 DEF Stored
  <2>2. Cardinality({}) = 0
    BY FS_EmptySet
  <2>3. QED BY <2>1, <2>2, InvoicesAssumption
<1>4. NotReviewing \in ReviewingRow /\ NotReviewing.pc = "idle"
  BY DEF NotReviewing, ReviewingRow
<1>5. /\ request = "NONE" /\ uploading = {} /\ coordinator = Waits /\ operator = Waits
      /\ reviewing = NotReviewing /\ deaths = 0 /\ hands = 0
      /\ parses = [d \in Docs |-> 0] /\ byHand = [d \in Docs |-> 0]
  BY DEF InvoicesInit
<1>6. parses \in [Docs -> Nat] /\ byHand \in [Docs -> Nat] /\ \A d \in Docs : parses[d] = 0 /\ byHand[d] = 0
  BY <1>5
<1>7. InvoicesTyped
  <2>1. \A d \in Docs : doc[d].version \in {"none", "draft", "failed", "manual"} /\ doc[d].data \in {"empty", "draft", "manual"}
    BY <1>2 DEF DocRow
  <2>2. QED BY <1>2, <1>3, <1>4, <1>5, <1>6, <2>1, WaitsTyped DEF InvoicesTyped, InvoicesTypeOK
<1>8. ASSUME NEW d \in Docs PROVE Fits(d)
  <2>1. ~Open(d) /\ ~About(d)
    BY <1>4, <1>5, WaitsTyped DEF Open, About
  <2>2. QED BY <1>5, <1>6, <2>1 DEF Fits
<1>9. QED BY <1>7, <1>8, PricesInitTyped DEF InvoiceInv

\* A step that asks no more of a document than the step before.
LEMMA FitsStays ==
  ASSUME InvoicesTyped, InvoicesTyped', NEW d \in Docs, Fits(d),
         parses'[d] = parses[d], deaths <= deaths', byHand[d] <= byHand'[d],
         Open(d)' => Open(d), Tight(d)' => Tight(d)
  PROVE  Fits(d)'
<1>1. /\ parses[d] \in Nat /\ byHand[d] \in Nat /\ byHand'[d] \in Nat
      /\ deaths \in Nat /\ deaths' \in Nat
  BY DEF InvoicesTyped
<1> HIDE DEF Open, Tight
<1>2. QED BY <1>1 DEF Fits

\* What is counted as work by hand.
LEMMA HandsTyped ==
  ASSUME InvoicesTyped, NEW d \in Docs \cup {NoDocument}, ByHand(d)
  PROVE  /\ hands' \in Nat /\ byHand' \in [Docs -> Nat]
         /\ \A e \in Docs : byHand'[e] = IF e = d THEN byHand[e] + 1 ELSE byHand[e]
<1>1. hands \in Nat /\ byHand \in [Docs -> Nat]
  BY InvoicesParts
<1>2. CASE d = NoDocument
  BY <1>1, <1>2, InvoicesAssumption DEF ByHand, NoDocument
<1>3. CASE d # NoDocument
  BY <1>1, <1>3 DEF ByHand
<1>4. QED BY <1>2, <1>3

LEMMA ParseTyped ==
  ASSUME InvoicesTyped, NEW d \in Docs, parses' = [parses EXCEPT ![d] = @ + 1]
  PROVE  /\ parses' \in [Docs -> Nat]
         /\ \A e \in Docs : parses'[e] = IF e = d THEN parses[e] + 1 ELSE parses[e]
BY InvoicesParts

LEMMA RequestTyped ==
  ASSUME request \in Requests, (\E st \in Requests : SetRequest(st)) \/ request' = request
  PROVE  request' \in Requests
BY DEF SetRequest

LEMMA RequestNames ==
  ASSUME NEW st, SetRequest(st), st \in {"REQUESTED", "RECEIVED", "PROCESSING", "NEEDS_INPUT", "CONFIRMED", "CANCELED"}
  PROVE  request' \in Requests
BY DEF SetRequest, Requests

(***************************************************************************)
(* The steps of the customer and of the retention.                         *)
(***************************************************************************)
LEMMA UploadSteps ==
  ASSUME InvoicesTyped, \A d \in Docs : Fits(d),
         CreateInvoiceRequest \/ ClaimGetsOld \/ (\E d \in Docs : OpenUpload(d) \/ StoreDocument(d) \/ PurgeExpiredEnergyInvoiceDocuments(d))
  PROVE  InvoicesTyped' /\ \A d \in Docs : Fits(d)'
<1>1. UNCHANGED <<coordinator, operator, reviewing, parses, deaths>>
  BY DEF CreateInvoiceRequest, ClaimGetsOld, OpenUpload, StoreDocument, PurgeExpiredEnergyInvoiceDocuments
<1>2. request' \in Requests
  <2>1. CASE CreateInvoiceRequest
    BY <2>1, RequestNames DEF CreateInvoiceRequest
  <2>2. CASE \E d \in Docs : StoreDocument(d)
    BY <2>2, RequestNames, InvoicesParts DEF StoreDocument, docVars
  <2>3. CASE UNCHANGED request
    BY <2>3, InvoicesParts, SMTT(20)
  <2>4. QED BY <2>1, <2>2, <2>3 DEF ClaimGetsOld, OpenUpload, PurgeExpiredEnergyInvoiceDocuments, docVars
<1>3. uploading' \subseteq Docs
  BY InvoicesParts DEF CreateInvoiceRequest, ClaimGetsOld, OpenUpload, StoreDocument, PurgeExpiredEnergyInvoiceDocuments
<1>4. hands' \in Nat /\ byHand' = byHand
  BY HandsTyped, InvoicesParts DEF CreateInvoiceRequest, ClaimGetsOld, OpenUpload, StoreDocument,
     PurgeExpiredEnergyInvoiceDocuments, ByHand
<1>5. /\ doc' \in [Docs -> DocRow] /\ Cardinality(Stored)' <= MaxDocuments
      /\ \A e \in Docs : doc'[e].version = doc[e].version /\ doc'[e].read = doc[e].read
  <2>1. doc \in [Docs -> DocRow]
    BY InvoicesParts
  <2>2. CASE UNCHANGED doc
    BY <2>1, <2>2, StoredStays
  <2>3. ASSUME NEW d \in Docs, doc' = [doc EXCEPT ![d].stored = TRUE], ~(Cardinality(Stored) >= MaxDocuments)
        PROVE  /\ doc' \in [Docs -> DocRow] /\ Cardinality(Stored)' <= MaxDocuments
               /\ \A e \in Docs : doc'[e].version = doc[e].version /\ doc'[e].read = doc[e].read
    <3>1. Cardinality(Stored) \in Nat
      <4>1. Stored \subseteq Docs
        BY DEF Stored
      <4>2. QED BY <4>1, InvoicesAssumption, FS_Subset, FS_CardinalityType
    <3>2. Cardinality(Stored) < MaxDocuments
      BY <2>3, <3>1, InvoicesAssumption
    <3>3. QED BY <2>1, <2>3, <3>2, StoredRow, StoredGrows
  <2>4. ASSUME NEW d \in Docs, doc' = [doc EXCEPT ![d].stored = FALSE, ![d].purged = TRUE, ![d].data = "empty"]
        PROVE  /\ doc' \in [Docs -> DocRow] /\ Cardinality(Stored)' <= MaxDocuments
               /\ \A e \in Docs : doc'[e].version = doc[e].version /\ doc'[e].read = doc[e].read
    BY <2>1, <2>4, PurgedRow, StoredStays
  <2>5. QED BY <2>2, <2>3, <2>4 DEF CreateInvoiceRequest, ClaimGetsOld, OpenUpload, StoreDocument,
               PurgeExpiredEnergyInvoiceDocuments, docVars
<1>6. InvoicesTyped'
  BY <1>1, <1>2, <1>3, <1>4, <1>5, InvoicesParts, InvoicesWhole
<1>7. ASSUME NEW d \in Docs PROVE Fits(d)'
  BY <1>1, <1>4, <1>5 DEF Fits, Open, Tight, About, Held, Settled
<1>8. QED BY <1>6, <1>7, SMTT(20)

(***************************************************************************)
(* The steps of the coordinator.                                           *)
(***************************************************************************)
\* A failure or a draft of a document; a draft settles it.
LEMMA PersistTyped ==
  ASSUME InvoicesTyped, NEW d \in Docs, PersistInvoiceAiDraft(d)
  PROVE  /\ request' \in Requests /\ doc' \in [Docs -> DocRow] /\ Cardinality(Stored)' <= MaxDocuments
         /\ doc'[d].read /\ \A e \in Docs \ {d} : doc'[e] = doc[e]
<1>1. doc \in [Docs -> DocRow] /\ request \in Requests
  BY InvoicesParts
<1>2. CASE doc[d].read
  BY <1>1, <1>2, StoredStays DEF PersistInvoiceAiDraft, docVars
<1>3. CASE ~doc[d].read
  <2>1. /\ doc' = [doc EXCEPT ![d].read = TRUE, ![d].version = "draft", ![d].data = "draft"]
        /\ request' \in Requests
    BY <1>3, RequestNames DEF PersistInvoiceAiDraft
  <2>2. QED BY <1>1, <2>1, ReadRow, StoredStays
<1>4. QED BY <1>2, <1>3

LEMMA ClaimStep ==
  ASSUME InvoicesTyped, \A d \in Docs : Fits(d), ClaimNext
  PROVE  InvoicesTyped' /\ \A d \in Docs : Fits(d)'
<1>1. PICK d \in Docs : Unread(d) /\ coordinator' = [pc |-> "parse", doc |-> d]
  BY DEF ClaimNext
<1>2. /\ UNCHANGED <<doc, uploading, operator, reviewing, parses, deaths, byHand, hands>>
      /\ coordinator = Waits
  BY InvoicesParts DEF ClaimNext, Holding
<1>3. coordinator' \in Holding /\ coordinator'.pc = "parse" /\ coordinator'.doc = d
  BY <1>1 DEF Holding
<1>4. InvoicesTyped'
  <2>1. request' \in Requests
    BY RequestNames DEF ClaimNext
  <2>2. Cardinality(Stored)' <= MaxDocuments
    BY <1>2, StoredStays
  <2>3. QED BY <1>2, <1>3, <2>1, <2>2, InvoicesParts, InvoicesWhole
<1>5. ASSUME NEW e \in Docs PROVE Fits(e)'
  <2>1. Tight(e)' => Tight(e)
    BY <1>1, <1>2, <1>3, WaitsTyped DEF Tight, About, Held, Settled, Unread
  <2>2. QED BY <1>2, <1>4, <2>1, FitsStays, InvoicesParts DEF Open
<1>6. QED BY <1>4, <1>5

LEMMA ParseStep ==
  ASSUME InvoicesTyped, \A d \in Docs : Fits(d), ParseWithIsolatedWorker
  PROVE  InvoicesTyped' /\ \A d \in Docs : Fits(d)'
<1> PICK d : d = coordinator.doc
  OBVIOUS
<1>1. /\ d \in Docs /\ coordinator.pc = "parse" /\ coordinator \in Holding
      /\ \A pc \in {"parse", "wait", "persist", "failed"} :
           /\ [coordinator EXCEPT !.pc = pc] \in Holding
           /\ [coordinator EXCEPT !.pc = pc].pc = pc /\ [coordinator EXCEPT !.pc = pc].doc = d
  <2>1. coordinator.pc = "parse"
    BY DEF ParseWithIsolatedWorker
  <2>2. coordinator \in Holding
    BY InvoicesParts
  <2>3. QED BY <2>1, <2>2, HeldTyped
<1>2. UNCHANGED <<request, doc, uploading, operator, reviewing, deaths, byHand, hands>>
  BY DEF ParseWithIsolatedWorker, docVars
<1>3. Cardinality(Stored)' <= MaxDocuments
  BY <1>2, StoredStays
<1>4. CASE parsing
  <2>1. coordinator' \in Holding /\ coordinator'.pc = "failed" /\ coordinator'.doc = d /\ parses' = parses
    BY <1>1, <1>4 DEF ParseWithIsolatedWorker
  <2>2. InvoicesTyped'
    BY <1>2, <1>3, <2>1, InvoicesParts, InvoicesWhole
  <2>3. ASSUME NEW e \in Docs PROVE Fits(e)'
    <3>1. Tight(e)' => Tight(e)
      BY <1>1, <1>2, <2>1 DEF Tight, About, Held, Settled
    <3>2. QED BY <1>2, <2>1, <2>2, <3>1, FitsStays, InvoicesParts DEF Open
  <2>4. QED BY <2>2, <2>3
<1>5. CASE ~parsing
  <2>1. coordinator' \in Holding /\ coordinator'.pc = "wait" /\ coordinator'.doc = d
    BY <1>1, <1>5 DEF ParseWithIsolatedWorker
  <2>2. /\ parses' \in [Docs -> Nat]
        /\ \A e \in Docs : parses'[e] = IF e = d THEN parses[e] + 1 ELSE parses[e]
    BY <1>1, <1>5, ParseTyped DEF ParseWithIsolatedWorker
  <2>3. InvoicesTyped'
    BY <1>2, <1>3, <2>1, <2>2, InvoicesParts, InvoicesWhole
  <2>4. ASSUME NEW e \in Docs PROVE Fits(e)'
    <3>1. Open(e)' <=> Open(e)
      BY <1>2 DEF Open
    <3>2. CASE e = d
      <4>1. Tight(e) /\ ~Tight(e)'
        BY <1>1, <2>1, <3>2 DEF Tight, About, Held
      <4>2. parses'[e] = parses[e] + 1 /\ parses[e] \in Nat /\ deaths' = deaths /\ byHand'[e] = byHand[e]
            /\ deaths \in Nat /\ byHand[e] \in Nat
        BY <1>2, <2>2, <3>2, InvoicesParts
      <4> HIDE DEF Open, Tight
      <4>3. QED BY <3>1, <4>1, <4>2 DEF Fits
    <3>3. CASE e # d
      <4>1. (Tight(e)' => Tight(e)) /\ parses'[e] = parses[e]
        BY <1>1, <1>2, <2>1, <2>2, <3>3 DEF Tight, About, Held, Settled
      <4>2. QED BY <1>2, <2>3, <3>1, <4>1, FitsStays, InvoicesParts
    <3>4. QED BY <3>2, <3>3
  <2>5. QED BY <2>3, <2>4
<1>6. QED BY <1>4, <1>5

\* The answer of the parser, or none.
LEMMA AnswerStep ==
  ASSUME InvoicesTyped, \A d \in Docs : Fits(d), ParseInvoice \/ ParserTimeout
  PROVE  InvoicesTyped' /\ \A d \in Docs : Fits(d)'
<1>1. UNCHANGED <<request, doc, uploading, operator, reviewing, parses, deaths, byHand, hands>>
  BY DEF ParseInvoice, ParserTimeout, docVars
<1>2. \/ coordinator' = coordinator
      \/ /\ coordinator.pc = "wait" /\ coordinator' \in Holding
         /\ coordinator'.doc = coordinator.doc /\ coordinator'.pc \in {"persist", "failed"}
  <2>1. CASE ParserTimeout
    BY <2>1, InvoicesParts, HeldTyped DEF ParserTimeout
  <2>2. CASE ParseInvoice /\ coordinator.pc = "wait"
    <3>1. coordinator' \in [pc : {"persist", "failed"}, doc : {coordinator.doc}] /\ coordinator.doc \in Docs
      BY <2>2, InvoicesParts, HeldTyped DEF ParseInvoice, RunOutcome
    <3>2. QED BY <2>2, <3>1 DEF Holding
  <2>3. CASE ParseInvoice /\ coordinator.pc # "wait"
    BY <2>3 DEF ParseInvoice
  <2>4. QED BY <2>1, <2>2, <2>3
<1>3. InvoicesTyped'
  <2>1. Cardinality(Stored)' <= MaxDocuments
    BY <1>1, StoredStays
  <2>2. QED BY <1>1, <1>2, <2>1, InvoicesParts, InvoicesWhole
<1>4. ASSUME NEW e \in Docs PROVE Fits(e)'
  <2>1. Tight(e)' => Tight(e)
    BY <1>1, <1>2 DEF Tight, About, Held, Settled
  <2>2. QED BY <1>1, <1>3, <2>1, FitsStays, InvoicesParts DEF Open
<1>5. QED BY <1>3, <1>4

LEMMA StoreStep ==
  ASSUME InvoicesTyped, \A d \in Docs : Fits(d), StoreDraft
  PROVE  InvoicesTyped' /\ \A d \in Docs : Fits(d)'
<1> PICK d : d = coordinator.doc
  OBVIOUS
<1>1. /\ d \in Docs /\ coordinator.pc = "persist"
      /\ [coordinator EXCEPT !.pc = "failed"] \in Holding
      /\ [coordinator EXCEPT !.pc = "failed"].pc = "failed" /\ [coordinator EXCEPT !.pc = "failed"].doc = d
  BY InvoicesParts, HeldTyped DEF StoreDraft
<1>2. UNCHANGED <<uploading, operator, reviewing, parses, deaths, byHand, hands>>
  BY DEF StoreDraft
<1>3. CASE doc[d].stored
  <2>1. PersistInvoiceAiDraft(d) /\ coordinator' = Waits
    BY <1>3 DEF StoreDraft
  <2>2. /\ request' \in Requests /\ doc' \in [Docs -> DocRow] /\ Cardinality(Stored)' <= MaxDocuments
        /\ doc'[d].read /\ \A e \in Docs \ {d} : doc'[e] = doc[e]
    BY <1>1, <2>1, PersistTyped
  <2>3. InvoicesTyped'
    BY <1>2, <2>1, <2>2, InvoicesParts, InvoicesWhole, WaitsTyped
  <2>4. ASSUME NEW e \in Docs PROVE Fits(e)'
    <3>1. Tight(e)' => Tight(e)
      BY <1>1, <2>1, <2>2, WaitsTyped DEF Tight, About, Held, Settled
    <3>2. QED BY <1>2, <2>3, <3>1, FitsStays, InvoicesParts DEF Open
  <2>5. QED BY <2>3, <2>4
<1>4. CASE ~doc[d].stored
  <2>1. /\ UNCHANGED docVars /\ coordinator' \in Holding
        /\ coordinator'.pc = "failed" /\ coordinator'.doc = d
    BY <1>1, <1>4 DEF StoreDraft
  <2>2. InvoicesTyped'
    <3>1. Cardinality(Stored)' <= MaxDocuments
      BY <2>1, StoredStays DEF docVars
    <3>2. QED BY <1>2, <2>1, <3>1, InvoicesParts, InvoicesWhole DEF docVars
  <2>3. ASSUME NEW e \in Docs PROVE Fits(e)'
    <3>1. Tight(e)' => Tight(e)
      BY <1>1, <2>1 DEF Tight, About, Held, Settled, docVars
    <3>2. QED BY <1>2, <2>2, <3>1, FitsStays, InvoicesParts DEF Open
  <2>4. QED BY <2>2, <2>3
<1>5. QED BY <1>3, <1>4

LEMMA MarkStep ==
  ASSUME InvoicesTyped, \A d \in Docs : Fits(d), MarkFailed
  PROVE  InvoicesTyped' /\ \A d \in Docs : Fits(d)'
<1> PICK d : d = coordinator.doc
  OBVIOUS
<1>1. d \in Docs /\ coordinator.pc = "failed" /\ coordinator' = Waits
  BY InvoicesParts, HeldTyped DEF MarkFailed
<1>2. UNCHANGED <<uploading, operator, reviewing, parses, deaths, byHand, hands>>
  BY DEF MarkFailed
<1>3. /\ doc' \in [Docs -> DocRow] /\ Cardinality(Stored)' <= MaxDocuments
      /\ doc'[d].version = "failed" /\ \A e \in Docs \ {d} : doc'[e] = doc[e]
  <2>1. doc' = Marked(d) /\ doc \in [Docs -> DocRow]
    BY InvoicesParts DEF MarkFailed
  <2>2. QED BY <1>1, <2>1, FailedRow, StoredStays
<1>4. request' \in Requests
  BY RequestNames, InvoicesParts DEF MarkFailed
<1>5. InvoicesTyped'
  BY <1>1, <1>2, <1>3, <1>4, InvoicesParts, InvoicesWhole, WaitsTyped
<1>6. ASSUME NEW e \in Docs PROVE Fits(e)'
  <2>1. Tight(e)' => Tight(e)
    BY <1>1, <1>3, WaitsTyped DEF Tight, About, Held, Settled
  <2>2. QED BY <1>2, <1>5, <2>1, FitsStays, InvoicesParts DEF Open
<1>7. QED BY <1>5, <1>6

\* A death may leave any document to be parsed again.
LEMMA DeathSteps ==
  ASSUME InvoicesTyped, \A d \in Docs : Fits(d), CoordinatorDies \/ OperatorDies
  PROVE  InvoicesTyped' /\ \A d \in Docs : Fits(d)'
<1>1. /\ UNCHANGED <<request, doc, uploading, reviewing, parses, byHand, hands>>
      /\ deaths' = deaths + 1 /\ coordinator' \in Holding /\ operator' \in Holding
  BY InvoicesParts, WaitsTyped DEF CoordinatorDies, OperatorDies, docVars
<1>2. InvoicesTyped'
  <2>1. Cardinality(Stored)' <= MaxDocuments
    BY <1>1, StoredStays
  <2>2. QED BY <1>1, <2>1, InvoicesParts, InvoicesWhole
<1>3. ASSUME NEW e \in Docs PROVE Fits(e)'
  <2>1. Open(e)' <=> Open(e)
    BY <1>1 DEF Open
  <2>2. parses[e] \in Nat /\ byHand[e] \in Nat /\ deaths \in Nat
    BY InvoicesParts
  <2> HIDE DEF Open, Tight
  <2>3. QED BY <1>1, <2>1, <2>2 DEF Fits
<1>4. QED BY <1>2, <1>3

(***************************************************************************)
(* The steps of the operator and the reviews.                              *)
(***************************************************************************)
LEMMA ExportStep ==
  ASSUME InvoicesTyped, \A d \in Docs : Fits(d), ExportNext
  PROVE  InvoicesTyped' /\ \A d \in Docs : Fits(d)'
<1>1. PICK d \in Docs : /\ operator' \in [pc : RunOutcome, doc : {d}]
                        /\ parses' = [parses EXCEPT ![d] = @ + 1] /\ ByHand(d)
  BY DEF ExportNext
<1>2. UNCHANGED <<doc, uploading, coordinator, reviewing, deaths>> /\ request' \in Requests
  BY RequestNames DEF ExportNext
<1>3. /\ parses' \in [Docs -> Nat] /\ byHand' \in [Docs -> Nat] /\ hands' \in Nat
      /\ \A e \in Docs : /\ parses'[e] = IF e = d THEN parses[e] + 1 ELSE parses[e]
                         /\ byHand'[e] = IF e = d THEN byHand[e] + 1 ELSE byHand[e]
  BY <1>1, ParseTyped, HandsTyped
<1>4. operator' \in Holding
  BY <1>1 DEF Holding, RunOutcome
<1>5. InvoicesTyped'
  <2>1. Cardinality(Stored)' <= MaxDocuments
    BY <1>2, StoredStays
  <2>2. QED BY <1>2, <1>3, <1>4, <2>1, InvoicesParts, InvoicesWhole
<1>6. ASSUME NEW e \in Docs PROVE Fits(e)'
  <2>1. (Open(e)' <=> Open(e)) /\ (Tight(e)' <=> Tight(e))
    BY <1>2 DEF Open, Tight, About, Held, Settled
  <2>2. parses[e] \in Nat /\ byHand[e] \in Nat /\ deaths \in Nat
    BY InvoicesParts
  <2> HIDE DEF Open, Tight
  <2>3. QED BY <1>2, <1>3, <2>1, <2>2 DEF Fits
<1>7. QED BY <1>5, <1>6

LEMMA OperatorSteps ==
  ASSUME InvoicesTyped, \A d \in Docs : Fits(d), ImportDraftByHand \/ MarkFailedByHand
  PROVE  InvoicesTyped' /\ \A d \in Docs : Fits(d)'
<1> PICK d : d = operator.doc
  OBVIOUS
<1>1. d \in Docs /\ [operator EXCEPT !.pc = "failed"] \in Holding
  BY InvoicesParts, HeldTyped DEF ImportDraftByHand, MarkFailedByHand
<1>2. UNCHANGED <<uploading, coordinator, reviewing, parses, deaths, byHand, hands>>
  BY DEF ImportDraftByHand, MarkFailedByHand
<1>3. /\ request' \in Requests /\ doc' \in [Docs -> DocRow] /\ Cardinality(Stored)' <= MaxDocuments
      /\ operator' \in Holding
      /\ (doc'[d] = doc[d] \/ doc'[d].read) /\ \A e \in Docs \ {d} : doc'[e] = doc[e]
  <2>1. CASE ImportDraftByHand /\ doc[d].stored
    BY <1>1, <2>1, PersistTyped, WaitsTyped DEF ImportDraftByHand
  <2>2. CASE ImportDraftByHand /\ ~doc[d].stored
    BY <1>1, <2>2, InvoicesParts, StoredStays DEF ImportDraftByHand, docVars
  <2>3. CASE MarkFailedByHand
    BY <1>1, <2>3, InvoicesParts, StoredStays, RequestNames, WaitsTyped DEF MarkFailedByHand
  <2>4. QED BY <2>1, <2>2, <2>3
<1>4. InvoicesTyped'
  BY <1>2, <1>3, InvoicesParts, InvoicesWhole
<1>5. ASSUME NEW e \in Docs PROVE Fits(e)'
  <2>1. Tight(e)' => Tight(e)
    BY <1>2, <1>3 DEF Tight, About, Held, Settled
  <2>2. QED BY <1>2, <1>4, <2>1, FitsStays, InvoicesParts DEF Open
<1>6. QED BY <1>4, <1>5

LEMMA OpenReviewStep ==
  ASSUME InvoicesTyped, PricesTypeOK, \A d \in Docs : Fits(d), ReviewByAdministrator \/ ConfirmCustomerInvoice
  PROVE  InvoicesTyped' /\ \A d \in Docs : Fits(d)'
<1>1. PICK status \in {"RECEIVED", "PROCESSING", "NEEDS_INPUT", "CONFIRMED", "CANCELED"}, d \in Docs \cup {NoDocument} :
        OpenReview(status, d)
  BY DEF ReviewByAdministrator, ConfirmCustomerInvoice, Stored
<1>2. UNCHANGED <<request, doc, uploading, coordinator, operator, parses, deaths>> /\ reviewing.pc = "idle"
  BY <1>1 DEF OpenReview, docVars
<1>3. /\ byHand' \in [Docs -> Nat] /\ hands' \in Nat
      /\ \A e \in Docs : byHand'[e] = IF e = d THEN byHand[e] + 1 ELSE byHand[e]
  BY <1>1, HandsTyped DEF OpenReview
<1>4. reviewing' \in ReviewingRow /\ reviewing'.doc = d
  <2>1. PICK new \in Value : reviewing' = [pc |-> "write", saw |-> profile, new |-> new, status |-> status, doc |-> d]
    BY <1>1 DEF OpenReview
  <2>2. profile \in Value \cup {Incomplete}
    BY DEF PricesTypeOK
  <2>3. QED BY <2>1, <2>2 DEF ReviewingRow
<1>5. InvoicesTyped'
  <2>1. Cardinality(Stored)' <= MaxDocuments
    BY <1>2, StoredStays
  <2>2. QED BY <1>2, <1>3, <1>4, <2>1, InvoicesParts, InvoicesWhole
<1>6. ASSUME NEW e \in Docs PROVE Fits(e)'
  <2>1. /\ ~Open(e) /\ (Open(e)' => e = d) /\ (Tight(e)' <=> Tight(e))
    BY <1>2, <1>4 DEF Open, Tight, About, Held, Settled
  <2>2. parses[e] \in Nat /\ byHand[e] \in Nat /\ deaths \in Nat
    BY InvoicesParts
  <2> HIDE DEF Open, Tight
  <2>3. QED BY <1>2, <1>3, <2>1, <2>2 DEF Fits
<1>7. QED BY <1>5, <1>6

LEMMA ReviewStep1 ==
  ASSUME InvoicesTyped, \A d \in Docs : Fits(d), ReviewEnergyInvoice
  PROVE  InvoicesTyped' /\ \A d \in Docs : Fits(d)'
<1> PICK d : d = reviewing.doc
  OBVIOUS
<1>1. /\ UNCHANGED <<uploading, coordinator, operator, parses, deaths, byHand, hands>>
      /\ reviewing.pc = "write" /\ reviewing' = NotReviewing
      /\ doc' = IF d = NoDocument THEN doc ELSE [doc EXCEPT ![d].version = "manual", ![d].data = "manual"]
  BY DEF ReviewEnergyInvoice
<1>2. d \in Docs \cup {NoDocument} /\ request' \in Requests
  BY RequestNames, InvoicesParts DEF ReviewEnergyInvoice, ReviewingRow
<1>3. /\ doc' \in [Docs -> DocRow] /\ Cardinality(Stored)' <= MaxDocuments
      /\ \A e \in Docs : e # d => doc'[e] = doc[e]
  <2>1. doc \in [Docs -> DocRow]
    BY InvoicesParts
  <2>2. CASE d = NoDocument
    BY <1>1, <2>1, <2>2, StoredStays
  <2>3. CASE d # NoDocument
    BY <1>1, <1>2, <2>1, <2>3, ManualRow, StoredStays
  <2>4. QED BY <2>2, <2>3
<1>4. reviewing' \in ReviewingRow /\ reviewing'.pc = "idle"
  BY <1>1 DEF NotReviewing, ReviewingRow
<1>5. InvoicesTyped'
  BY <1>1, <1>2, <1>3, <1>4, InvoicesParts, InvoicesWhole
<1>6. ASSUME NEW e \in Docs PROVE Fits(e)'
  <2>1. ~Open(e)' /\ (e = d => Open(e)) /\ (e # d => (Tight(e)' <=> Tight(e)))
    BY <1>1, <1>3, <1>4 DEF Open, Tight, About, Held, Settled
  <2>2. parses[e] \in Nat /\ byHand[e] \in Nat /\ deaths \in Nat
    BY InvoicesParts
  <2> HIDE DEF Open, Tight
  <2>3. QED BY <1>1, <2>1, <2>2 DEF Fits
<1>7. QED BY <1>5, <1>6

\* A document is parsed once, and again only after a death or work by hand, for every number of
\* documents, deaths, reviews and edits of the profile.
THEOREM ParsesAreExplained == InvoicesSpec => []ParsesExplained
<1>1. InvoiceInv /\ [InvoicesNext]_<<invoiceVars, pricesVars>> => InvoiceInv'
  <2> SUFFICES ASSUME InvoiceInv, [InvoicesNext]_<<invoiceVars, pricesVars>> PROVE InvoiceInv'
    OBVIOUS
  <2>1. PricesTypeOK /\ WritersTyped /\ InvoicesTyped /\ \A d \in Docs : Fits(d)
    BY DEF InvoiceInv
  <2>2. CASE DocumentsNext /\ UNCHANGED pricesVars
    <3>1. PricesTypeOK' /\ WritersTyped'
      BY <2>1, <2>2, PricesTyped
    <3>2. InvoicesTyped' /\ \A d \in Docs : Fits(d)'
      BY <2>1, <2>2, UploadSteps, ClaimStep, ParseStep, AnswerStep, StoreStep, MarkStep, DeathSteps, ExportStep,
         OperatorSteps, OpenReviewStep DEF DocumentsNext, CoordinatorStep, OperatorStep
    <3>3. QED BY <3>1, <3>2 DEF InvoiceInv
  <2>3. CASE ReviewEnergyInvoice /\ UNCHANGED <<pricing, writer, refresh, backend, changes>>
    <3>1. PricesTypeOK'
      BY <2>1, <2>3, ProfileChanges, InvoicesParts DEF ReviewEnergyInvoice, ReviewingRow
    <3>2. WritersTyped'
      BY <2>1, <2>3 DEF WritersTyped
    <3>3. QED BY <2>1, <2>3, <3>1, <3>2, ReviewStep1 DEF InvoiceInv
  <2>4. CASE (PricesNext \/ UNCHANGED pricesVars) /\ UNCHANGED invoiceVars
    <3>1. PricesTypeOK' /\ WritersTyped'
      BY <2>1, <2>4, PricesTyped
    <3>2. InvoicesTyped' /\ \A d \in Docs : Fits(d)'
      BY <2>1, <2>4 DEF invoiceVars, docVars, InvoicesTyped, InvoicesTypeOK, Stored, Fits, Open, Tight, About, Held, Settled
    <3>3. QED BY <3>1, <3>2 DEF InvoiceInv
  <2>5. QED BY <2>2, <2>3, <2>4 DEF InvoicesNext
<1>2. InvoiceInv => ParsesExplained
  <2> SUFFICES ASSUME InvoiceInv, NEW d \in Docs PROVE parses[d] <= 1 + deaths + byHand[d]
    BY DEF InvoiceInv, InvoicesTyped, ParsesExplained
  <2>1. parses[d] \in Nat /\ deaths \in Nat /\ byHand[d] \in Nat /\ Fits(d)
    BY InvoicesParts DEF InvoiceInv
  <2> HIDE DEF Open, Tight
  <2>2. QED BY <2>1 DEF Fits
<1>3. QED BY <1>1, <1>2, InvoicesInitInv, PTL DEF InvoicesSpec

=============================================================================
