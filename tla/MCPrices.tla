------------------------------ MODULE MCPrices ------------------------------
(***************************************************************************)
(* The profile with its price curves and invoices, the catalog and the     *)
(* market, for TLC.  Only the profile is shared (Invoices extends          *)
(* SitePrices), so a behaviour plays one part.  The profile is played      *)
(* three times, with those who ask for prices, with one of them and the    *)
(* exact calendars, and with the confirmations; the catalog is played      *)
(* twice, under review and synchronized.                                   *)
(***************************************************************************)
EXTENDS Invoices, Catalog, MarketPrices

CONSTANTS Scenes, ReviewedItem, FirstReviewer, LoneAsker, OneDoc
VARIABLE scene

allVars == <<scene, invoiceVars, pricesVars, catalogVars, marketVars>>

MCInit ==
  /\ scene \in Scenes
  /\ PricesInit /\ InvoicesInit
  /\ CatalogInit
  /\ MarketInit

\* The confirmations touch no price and no value: they are played without those who ask for prices.
\* The lone asker meets the calendars and writes defaults; the others find nothing a default is for.
Prices ==
  /\ PricesNext
  /\ scene # "profile" => \A w \in Writers : ~writer'[w].confirms
  /\ scene = "profile" => UNCHANGED pricing
  /\ IF scene = "calendars" THEN \A a \in Askers \ {LoneAsker} : UNCHANGED pricing[a] 
     ELSE UNCHANGED hdo /\ (UNCHANGED <<writer, refresh>> => UNCHANGED profile)

\* One value is enough for a review to change the profile or not.  Contents are interchangeable: one
\* is enough for the script of an operator and for a retention that ends, and comes first.
Documents ==
  \/ /\ DocumentsNext /\ reviewing'.new <= 1 /\ UNCHANGED pricesVars
     /\ operator'.doc \in {OneDoc, NoDocument}
     /\ \A d \in Docs \ {OneDoc} : ~doc'[d].purged
     /\ uploading' # {} /\ OneDoc \notin uploading' => doc[OneDoc] # Missing
  \/ ReviewEnergyInvoice /\ UNCHANGED <<pricing, writer, refresh, backend, changes>>

\* Reviews of one item, all of whose versions may start on any day.  Drafts come first: a review looks
\* at no draft but its own.  Administrators are interchangeable: the first at work is always the same.
\* A document that is rejected only keeps reviews from opening.
Reviews ==
  /\ \/ Drafts /\ review = [r \in Reviewers |-> NoReview] /\ \A v \in Version : document[v] \in {"NONE", "DRAFT"}
     \/ Administration
  /\ (\E r \in Reviewers \ {FirstReviewer} : review[r].pc = "idle" /\ review'[r].pc # "idle")
       => review[FirstReviewer].pc # "idle"
  /\ \A v \in Version : document'[v] # "REJECTED" /\ (v[1] # ReviewedItem => UNCHANGED <<version[v], document[v]>>)

\* One draft at most meets the snapshots of Costs, which use the first two days.  One item is enough
\* to be odd or to have a draft: the order in which a synchronization takes the items is open.
Costs ==
  /\ Synchronization \/ (reviews = 0 /\ Drafts)
  /\ \A v \in Version : v[2] > 2 => UNCHANGED <<version[v], document[v]>>
  /\ reviews' # reviews => \A v \in Version : v[1] # ReviewedItem => UNCHANGED version[v]
  /\ \A i \in Items : upstream'[i].from <= 2 /\ (i # ReviewedItem => ~upstream'[i].odd)

MCNext ==
  /\ UNCHANGED scene
  /\ \/ scene \in {"prices", "calendars", "profile"} /\ Prices /\ UNCHANGED <<invoiceVars, catalogVars, marketVars>>
     \/ scene = "invoices" /\ Documents /\ UNCHANGED <<catalogVars, marketVars>>
     \/ scene = "reviews" /\ Reviews /\ UNCHANGED <<invoiceVars, pricesVars, marketVars>>
     \/ scene = "costs" /\ Costs /\ UNCHANGED <<invoiceVars, pricesVars, marketVars>>
     \/ scene = "market" /\ MarketNext /\ UNCHANGED <<invoiceVars, pricesVars, catalogVars>>

\* The fairness of each part, in its own scene.  It is stated action by action: as implications TLC
\* would multiply it out.
Played(s, A) == scene = s /\ A

MCSpec ==
  /\ MCInit /\ [][MCNext]_allVars
  /\ \A a \in Askers : WF_pricesVars(scene \in {"prices", "calendars"} /\ AskerStep(a))
  /\ WF_invoiceVars(Played("invoices", CoordinatorStep))
  /\ WF_invoiceVars(Played("invoices", ClaimGetsOld))
  /\ WF_catalogVars(Played("costs", SyncStep))
  /\ WF_catalogVars(Played("costs", StartSync))
  /\ WF_catalogVars(Played("costs", IntervalElapses))
  /\ \A p \in Publishers : WF_marketVars(Played("market", PublishStep(p)))
  /\ WF_marketVars(Played("market", SyncBackendMarketPrices))
  /\ WF_marketVars(Played("market", IntervalPasses))

=============================================================================
