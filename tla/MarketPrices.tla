---------------------------- MODULE MarketPrices ----------------------------
(***************************************************************************)
(* The series of spot prices (src/src/lib/pricing/market-sync.ts,          *)
(* market-series-plan.ts, backend-market-source.ts).                       *)
(*                                                                         *)
(* The job runner publishes what the control backend knows of the market,  *)
(* and an analysis whose measurements are not covered publishes what the   *)
(* customer's own connection can fetch.  Either one extends the published  *)
(* series in place when it has the same start and source; else it archives *)
(* the published series and creates its own, or puts an archived series    *)
(* with the same content back.  Analyses read the published series that    *)
(* reaches furthest.                                                       *)
(*                                                                         *)
(* A series is known by its source and the days it covers; the prices are  *)
(* left out.                                                               *)
(***************************************************************************)
EXTENDS Integers, FiniteSets

CONSTANTS
  LastDay,      \* bound: how far the market goes
  MaxSeries,    \* bound: rows of MarketPriceSeries
  MaxCoverages, \* bound: analyses that find their measurements not covered
  MaxOutages    \* bound: failures of a publication

ASSUME MarketAssumption ==
  LastDay \in Nat \ {0} /\ MaxSeries \in Nat /\ MaxCoverages \in Nat /\ MaxOutages \in Nat

VARIABLES
  day,          \* the last day the backend knows prices of, 0 when it knows none
  firstDay,     \* the first one, 400 days ago or the start of its data
  series,       \* the rows, by id
  publication,  \* what each publisher is about to publish, and what it has found
  fresh,        \* rows written less than MARKET_SYNC_INTERVAL_MINUTES ago
  coverages,
  outages

marketVars == <<day, firstDay, series, publication, fresh, coverages, outages>>

Publishers == {"backend", "legacy"}
Day == 1 .. LastDay
SeriesId == 1 .. MaxSeries
NoSeries == 0

NoRow == [status |-> "NONE", source |-> "backend", from |-> 1, to |-> 1]
NotPublishing == [pc |-> "idle", from |-> 1, to |-> 1, same |-> NoSeries, current |-> NoSeries]

MarketInit ==
  /\ day = 0
  /\ firstDay = 1
  /\ series = [n \in SeriesId |-> NoRow]
  /\ publication = [p \in Publishers |-> NotPublishing]
  /\ fresh = {}
  /\ coverages = 0
  /\ outages = 0

PublishedSeries == {n \in SeriesId : series[n].status = "PUBLISHED"}
NewIds == {n \in SeriesId : series[n].status = "NONE" /\ \A m \in 1 .. n - 1 : series[m].status # "NONE"}

\* latestPublishedMarketSeries: of several, the one that ends last.
Latest == {n \in PublishedSeries : \A m \in PublishedSeries : series[m].to <= series[n].to}

HoldPublication(p, rec) == publication' = [publication EXCEPT ![p] = rec]

DayPasses ==
  /\ day < LastDay
  /\ day' = day + 1
  /\ firstDay' \in {firstDay, firstDay + 1} \cap (1 .. day + 1)
  /\ UNCHANGED <<series, publication, fresh, coverages, outages>>

IntervalPasses ==
  /\ fresh # {}
  /\ fresh' = {}
  /\ UNCHANGED <<day, firstDay, series, publication, coverages, outages>>

\* Skipped while a published series of the backend is fresh; without prices there is nothing to publish.
SyncBackendMarketPrices ==
  /\ publication["backend"].pc = "idle"
  /\ day > 0
  /\ ~ \E n \in PublishedSeries \cap fresh : series[n].source = "backend"
  /\ HoldPublication("backend", [NotPublishing EXCEPT !.pc = "find", !.from = firstDay, !.to = day])
  /\ UNCHANGED <<day, firstDay, series, fresh, coverages, outages>>

\* An analysis of the days from .. to.  The fetch goes back to the start of the latest series, and
\* may end anywhere after the analysis, also before the backend's prices do.
FetchFrom(from) == IF \E n \in Latest : series[n].from < from THEN {series[n].from : n \in Latest} ELSE {from}

EnsureOteMarketCoverage ==
  /\ publication["legacy"].pc = "idle"
  /\ coverages < MaxCoverages /\ coverages' = coverages + 1
  /\ \E from, to \in 1 .. day :
       /\ from <= to
       /\ ~ \E n \in PublishedSeries : series[n].from <= from /\ to <= series[n].to
       /\ \E start \in FetchFrom(from), end \in to .. day :
            HoldPublication("legacy", [NotPublishing EXCEPT !.pc = "find", !.from = start, !.to = end])
  /\ UNCHANGED <<day, firstDay, series, fresh, outages>>

\* A published series with the same content is only touched.
FindSame(p) ==
  LET mine == publication[p]
      same == {n \in SeriesId : series[n].status # "NONE" /\ series[n].source = p
                                /\ series[n].from = mine.from /\ series[n].to = mine.to} IN
  /\ mine.pc = "find"
  /\ \/ /\ same \cap PublishedSeries # {}
        /\ fresh' = fresh \cup (same \cap PublishedSeries)
        /\ HoldPublication(p, NotPublishing)
     \/ /\ same \cap PublishedSeries = {}
        /\ \E n \in IF same = {} THEN {NoSeries} ELSE same : HoldPublication(p, [mine EXCEPT !.pc = "current", !.same = n])
        /\ UNCHANGED fresh
  /\ UNCHANGED <<day, firstDay, series, coverages, outages>>

FindCurrent(p) ==
  /\ publication[p].pc = "current"
  /\ \E n \in IF Latest = {} THEN {NoSeries} ELSE Latest :
       HoldPublication(p, [publication[p] EXCEPT !.pc = "write", !.current = n])
  /\ UNCHANGED <<day, firstDay, series, fresh, coverages, outages>>

\* planMarketSeriesPublish
Extends(p) ==
  LET current == publication[p].current IN
  current # NoSeries /\ series[current].from = publication[p].from /\ series[current].source = p

\* By the id found before, whatever has become of the row.
ExtendSeries(p) ==
  LET mine == publication[p] IN
  /\ mine.pc = "write" /\ Extends(p)
  /\ series' = [series EXCEPT ![mine.current].to = mine.to]
  /\ fresh' = fresh \cup {mine.current}
  /\ HoldPublication(p, NotPublishing)
  /\ UNCHANGED <<day, firstDay, coverages, outages>>

Archived == [n \in SeriesId |-> IF series[n].status = "PUBLISHED" THEN [series[n] EXCEPT !.status = "ARCHIVED"]
                                ELSE series[n]]

\* Mutant: the series with the same content stays archived.
LeftArchived(n) == Archived

PutBack(n) == [Archived EXCEPT ![n].status = "PUBLISHED"]

\* The archived series with the same content comes back.
RepublishSame(p) ==
  LET mine == publication[p] IN
  /\ mine.pc = "write" /\ ~Extends(p) /\ mine.same # NoSeries
  /\ series' = PutBack(mine.same)
  /\ fresh' = fresh \cup {mine.same}
  /\ HoldPublication(p, NotPublishing)
  /\ UNCHANGED <<day, firstDay, coverages, outages>>

CreateSeries(p) ==
  LET mine == publication[p] IN
  /\ mine.pc = "write" /\ ~Extends(p) /\ mine.same = NoSeries
  /\ \E n \in NewIds :
       /\ series' = [Archived EXCEPT ![n] = [status |-> "PUBLISHED", source |-> p, from |-> mine.from, to |-> mine.to]]
       /\ fresh' = fresh \cup {n}
  /\ HoldPublication(p, NotPublishing)
  /\ UNCHANGED <<day, firstDay, coverages, outages>>

\* The backend or the customer's cloud does not answer, or the transaction fails.
PublicationFails(p) ==
  /\ publication[p].pc # "idle"
  /\ outages < MaxOutages /\ outages' = outages + 1
  /\ HoldPublication(p, NotPublishing)
  /\ UNCHANGED <<day, firstDay, series, fresh, coverages>>

PublishStep(p) == FindSame(p) \/ FindCurrent(p) \/ ExtendSeries(p) \/ RepublishSame(p) \/ CreateSeries(p)

MarketNext ==
  \/ DayPasses \/ IntervalPasses
  \/ SyncBackendMarketPrices \/ EnsureOteMarketCoverage
  \/ \E p \in Publishers : PublishStep(p) \/ PublicationFails(p)

\* The job runner calls the synchronization every minute, and a publication that has begun goes on.
MarketFairness ==
  /\ \A p \in Publishers : WF_marketVars(PublishStep(p))
  /\ WF_marketVars(SyncBackendMarketPrices)
  /\ WF_marketVars(IntervalPasses)

MarketSpec == MarketInit /\ [][MarketNext]_marketVars /\ MarketFairness

(***************************************************************************)
(* Properties                                                              *)
(***************************************************************************)

MarketTypeOK ==
  /\ day \in 0 .. LastDay /\ firstDay \in Day
  /\ series \in [SeriesId -> [status : {"NONE", "PUBLISHED", "ARCHIVED"}, source : Publishers, from : Day, to : Day]]
  /\ fresh \subseteq SeriesId

\* Analyses get to see every price the backend knows, while customers' analyses publish shorter
\* series of their own, extend each other's rows and fail in the middle.
MarketCatchesUp ==
  /\ []MarketTypeOK
  /\ day > 0 ~> \E n \in Latest : series[n].to >= day

=============================================================================
