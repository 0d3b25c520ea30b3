---------------------------- MODULE PlantsProofs ----------------------------
(***************************************************************************)
(* A plant, for every number of clients, tokens, requests, processes and   *)
(* saves: the token pair of its account (LegacyAccount), the summary of    *)
(* its data (Telemetry) and the form that saves itself (Screens).  The     *)
(* three share no state; each has an invariant of its own.                 *)
(***************************************************************************)
EXTENDS LegacyAccount, Telemetry, Screens, TLAPS

(***************************************************************************)
(* The form.  What the last save has sent is the form, unless an edit      *)
(* waits for its timer, and a check mark is the answer to the last save.   *)
(***************************************************************************)
PatchRow == [state : {"none", "sent", "stored", "refused", "answered", "rejected"}, form : 0 .. MaxEdits]

FormInv ==
  /\ FormTypeOK
  /\ \A n \in 1 .. MaxSaves : n > saveSequence => patch[n].state = "none"
  /\ saveSequence = 0 => message # "saved" /\ ~pending
  /\ saveSequence > 0 /\ ~saveTimer => patch[saveSequence].form = edit
  /\ saveSequence > 0 /\ ~pending /\ message = "saved" => patch[saveSequence].state = "answered"

LEMMA PatchMoves ==
  ASSUME FormTypeOK, NEW n \in 1 .. MaxSaves, NEW st \in {"stored", "refused", "answered", "rejected"},
         patch' = [patch EXCEPT ![n].state = st]
  PROVE  /\ patch' \in [1 .. MaxSaves -> PatchRow]
         /\ patch'[n].state = st /\ \A i \in 1 .. MaxSaves \ {n} : patch'[i] = patch[i]
         /\ \A i \in 1 .. MaxSaves : patch'[i].form = patch[i].form
<1>1. patch \in [1 .. MaxSaves -> PatchRow]
  BY DEF FormTypeOK, PatchRow
<1> DEFINE x == [patch[n] EXCEPT !.state = st]
<1>2. patch' = [patch EXCEPT ![n] = x]
  BY <1>1
<1>3. x \in PatchRow /\ x.state = st /\ x.form = patch[n].form
  BY <1>1 DEF PatchRow
<1> HIDE DEF x
<1>4. QED BY <1>1, <1>2, <1>3

LEMMA FormInit1 == FormInit => FormInv
<1> SUFFICES ASSUME FormInit PROVE FormInv
  OBVIOUS
<1>1. MaxEdits \in Nat /\ MaxSaves \in Nat
  BY FormAssumption
<1>2. Unsent \in PatchRow /\ Unsent.state = "none"
  BY <1>1 DEF Unsent, PatchRow
<1>3. patch = [n \in 1 .. MaxSaves |-> Unsent]
  BY DEF FormInit
<1> HIDE DEF Unsent
<1>4. patch \in [1 .. MaxSaves -> PatchRow] /\ \A n \in 1 .. MaxSaves : patch[n].state = "none"
  BY <1>2, <1>3
<1>5. /\ edit \in 0 .. MaxEdits /\ profile \in 0 .. MaxEdits /\ saveTimer \in BOOLEAN
      /\ saveSequence = 0 /\ saveSequence \in 0 .. MaxSaves /\ message = "none" /\ pending = FALSE
  <2>1. edit = 0 /\ profile = 0 /\ saveTimer = FALSE /\ saveSequence = 0 /\ message = "none" /\ pending = FALSE
    BY DEF FormInit
  <2>2. 0 \in 0 .. MaxEdits /\ 0 \in 0 .. MaxSaves
    BY <1>1
  <2>3. saveTimer \in BOOLEAN
    BY <2>1
  <2>4. QED BY ONLY <2>1, <2>2, <2>3
<1>6. FormTypeOK
  BY <1>4, <1>5 DEF FormTypeOK, PatchRow
<1>7. QED BY <1>4, <1>5, <1>6 DEF FormInv

LEMMA FormStep == FormInv /\ [FormNext]_formVars => FormInv'
<1> SUFFICES ASSUME FormInv, [FormNext]_formVars PROVE FormInv'
  OBVIOUS
<1>1. /\ FormTypeOK /\ patch \in [1 .. MaxSaves -> PatchRow] /\ MaxEdits \in Nat /\ MaxSaves \in Nat
      /\ edit \in 0 .. MaxEdits /\ profile \in 0 .. MaxEdits /\ saveSequence \in 0 .. MaxSaves
  BY FormAssumption DEF FormInv, FormTypeOK, PatchRow
<1>2. CASE Edit
  BY <1>1, <1>2 DEF Edit, FormInv, FormTypeOK, PatchRow
<1>3. CASE SaveProfile
  <2> DEFINE n == saveSequence + 1
             x == [state |-> "sent", form |-> edit]
  <2>1. /\ n \in 1 .. MaxSaves /\ saveSequence' = n /\ saveTimer' = FALSE /\ pending' = TRUE
        /\ UNCHANGED <<edit, message, profile>> /\ patch' = [patch EXCEPT ![n] = x]
    BY <1>1, <1>3 DEF SaveProfile
  <2>2. x \in PatchRow /\ x.form = edit
    BY <1>1 DEF PatchRow
  <2> HIDE DEF x
  <2>3. /\ patch' \in [1 .. MaxSaves -> PatchRow] /\ patch'[n] = x
        /\ \A i \in 1 .. MaxSaves \ {n} : patch'[i] = patch[i]
    BY <1>1, <2>1, <2>2
  <2>4. n > saveSequence /\ n > 0 /\ \A i \in 1 .. MaxSaves : i > n => i > saveSequence /\ i # n
    BY <1>1
  <2> HIDE DEF n
  <2>5. FormTypeOK'
    <3>1. /\ edit' \in 0 .. MaxEdits /\ profile' \in 0 .. MaxEdits /\ saveSequence' \in 0 .. MaxSaves
          /\ message' \in {"none", "saving", "saved", "failed"} /\ saveTimer' = FALSE /\ pending' = TRUE
      BY <1>1, <2>1 DEF FormTypeOK
    <3>2. QED BY <2>3, <3>1 DEF FormTypeOK, PatchRow
  <2>6. \A i \in 1 .. MaxSaves : i > n => patch'[i].state = "none"
    BY <2>3, <2>4 DEF FormInv
  <2>7. QED BY <2>1, <2>2, <2>3, <2>4, <2>5, <2>6 DEF FormInv
<1>4. ASSUME NEW n \in 1 .. MaxSaves, HandlePatch(n) PROVE FormInv'
  <2>1. PICK st \in {"stored", "refused"} : patch' = [patch EXCEPT ![n].state = st]
    BY <1>4 DEF HandlePatch
  <2>2. /\ UNCHANGED <<edit, saveTimer, saveSequence, message, pending>>
        /\ profile' \in 0 .. MaxEdits /\ patch[n].state = "sent"
    BY <1>1, <1>4 DEF HandlePatch, PatchRow
  <2>3. QED BY <1>1, <2>1, <2>2, PatchMoves DEF FormInv, FormTypeOK, PatchRow
<1>5. ASSUME NEW n \in 1 .. MaxSaves, AnswerPatch(n) PROVE FormInv'
  <2> DEFINE st == IF patch[n].state = "stored" THEN "answered" ELSE "rejected"
  <2>1. /\ UNCHANGED <<edit, saveTimer, saveSequence, profile>> /\ patch[n].state \in {"stored", "refused"}
        /\ patch' = [patch EXCEPT ![n].state = st]
        /\ IF n = saveSequence
           THEN ((patch[n].state = "stored" /\ message' = "saved") \/ message' = "failed") /\ pending' = FALSE
           ELSE UNCHANGED <<message, pending>>
    BY <1>1, <1>5 DEF AnswerPatch, Latest
  <2>2. st \in {"answered", "rejected"} /\ (patch[n].state = "stored" => st = "answered")
    OBVIOUS
  <2> HIDE DEF st
  <2>3. /\ patch' \in [1 .. MaxSaves -> PatchRow]
        /\ patch'[n].state = st /\ \A i \in 1 .. MaxSaves \ {n} : patch'[i] = patch[i]
        /\ \A i \in 1 .. MaxSaves : patch'[i].form = patch[i].form
    BY <1>1, <2>1, <2>2, PatchMoves
  <2>4. CASE n = saveSequence
    <3>1. message' \in {"saved", "failed"} /\ pending' = FALSE /\ (message' = "saved" => st = "answered")
      BY <2>1, <2>2, <2>4
    <3>2. FormTypeOK'
      BY <1>1, <2>1, <2>3, <3>1 DEF FormTypeOK, PatchRow
    <3>3. \A i \in 1 .. MaxSaves : i > saveSequence => patch'[i].state = "none"
      BY <2>3, <2>4, <1>1 DEF FormInv
    <3>4. QED BY <1>1, <2>1, <2>3, <2>4, <3>1, <3>2, <3>3 DEF FormInv
  <2>5. CASE n # saveSequence
    BY <1>1, <2>1, <2>2, <2>3, <2>5 DEF FormInv, FormTypeOK, PatchRow
  <2>6. QED BY <2>4, <2>5
<1>6. CASE UNCHANGED formVars
  BY <1>6 DEF formVars, FormInv, FormTypeOK
<1>7. QED BY <1>2, <1>3, <1>4, <1>5, <1>6 DEF FormNext

LEMMA FormShown == FormInv => SavedIsLatest
<1> SUFFICES ASSUME FormInv, message = "saved", ~saveTimer, ~pending
             PROVE  \E n \in 1 .. MaxSaves : patch[n] = [state |-> "answered", form |-> edit]
  BY DEF SavedIsLatest, FormInv
<1>1. saveSequence \in 1 .. MaxSaves
  BY FormAssumption DEF FormInv, FormTypeOK
<1>2. patch[saveSequence].form = edit /\ patch[saveSequence].state = "answered" /\ patch[saveSequence] \in PatchRow
  BY <1>1 DEF FormInv, FormTypeOK, PatchRow
<1>3. patch[saveSequence] = [state |-> "answered", form |-> edit]
  BY <1>2 DEF PatchRow
<1>4. QED BY <1>1, <1>3

\* The check mark of the profile (TechnicalProfileWorkspace.tsx) means that what is in the form has
\* been stored: for any number of edits and saves, answered in any order, refused or lost.
THEOREM SavedIsStored == FormSpec => []SavedIsLatest
<1>1. FormSpec => []FormInv
  BY FormInit1, FormStep, PTL DEF FormSpec
<1>2. QED BY <1>1, FormShown, PTL

(***************************************************************************)
(* The summary.  A promise that has been queried contains what the cache   *)
(* that keeps it has been invalidated for, and what was committed when a   *)
(* request that awaits it began; a promise that is pending will.           *)
(***************************************************************************)
PromiseRow == [state : {"none", "pending", "queried", "fulfilled", "rejected"}, commits : Nat]
WriteRow == [pc : {"idle", "committed", "done"}, server : Servers, at : Nat]
RequestRow == [pc : {"idle", "awaiting"}, server : Servers, on : 0 .. MaxPromises, atLeast : Nat]

\* The promise p[i] has at least n transactions, now or when it is queried.
Serves(p, i, n) ==
  /\ p[i].state # "none"
  /\ p[i].state \in {"queried", "fulfilled"} => p[i].commits >= n

Asks(r) ==
  request[r].pc = "awaiting" =>
    /\ request[r].on # 0 /\ request[r].atLeast <= commits
    /\ Serves(promise, request[r].on, request[r].atLeast)

Keeps(s) == visible[s] <= commits /\ (qualityCache[s] # 0 => Serves(promise, qualityCache[s], visible[s]))

SummaryInv ==
  /\ QualityTypeOK
  /\ \A w \in Writes : write[w].at <= commits
  /\ \A s \in Servers : Keeps(s)
  /\ \A r \in Summaries : Asks(r)

LEMMA QualityTypes ==
  ASSUME SummaryInv
  PROVE  /\ commits \in Nat
         /\ write \in [Writes -> WriteRow] /\ promise \in [1 .. MaxPromises -> PromiseRow]
         /\ qualityCache \in [Servers -> 0 .. MaxPromises] /\ request \in [Summaries -> RequestRow]
         /\ visible \in [Servers -> Nat] /\ MaxPromises \in Nat
BY SummariesAssumption DEF SummaryInv, QualityTypeOK, WriteRow, PromiseRow, RequestRow

LEMMA QualityTyped ==
  ASSUME commits' \in Nat,
         write' \in [Writes -> WriteRow], promise' \in [1 .. MaxPromises -> PromiseRow],
         qualityCache' \in [Servers -> 0 .. MaxPromises], request' \in [Summaries -> RequestRow],
         visible' \in [Servers -> Nat]
  PROVE  QualityTypeOK'
BY DEF QualityTypeOK, WriteRow, PromiseRow, RequestRow

LEMMA NullRows ==
  /\ NoWrite \in WriteRow /\ NoWrite.at = 0
  /\ NoRequest \in RequestRow /\ NoRequest.pc = "idle"
<1>1. (CHOOSE s \in Servers : TRUE) \in Servers /\ 0 \in 0 .. MaxPromises
  BY SummariesAssumption
<1> DEFINE first == CHOOSE s \in Servers : TRUE
<1>2. NoWrite = [pc |-> "idle", server |-> first, at |-> 0]
  BY DEF NoWrite
<1>3. NoRequest = [pc |-> "idle", server |-> first, on |-> 0, atLeast |-> 0]
  BY DEF NoRequest
<1> HIDE DEF first
<1>4. first \in Servers
  BY <1>1 DEF first
<1>5. QED BY <1>1, <1>2, <1>3, <1>4 DEF WriteRow, RequestRow

LEMMA QualityInit1 == QualityInit => SummaryInv
<1> SUFFICES ASSUME QualityInit PROVE SummaryInv
  OBVIOUS
<1>1. /\ write = [w \in Writes |-> NoWrite] /\ request = [r \in Summaries |-> NoRequest]
      /\ promise = [i \in 1 .. MaxPromises |-> NoPromise]
      /\ qualityCache = [s \in Servers |-> 0] /\ visible = [s \in Servers |-> 0] /\ commits = 0
  BY DEF QualityInit
<1>2. NoPromise \in PromiseRow
  BY DEF NoPromise, PromiseRow
<1>3. MaxPromises \in Nat /\ 0 \in 0 .. MaxPromises
  BY SummariesAssumption
<1>4. /\ write \in [Writes -> WriteRow] /\ promise \in [1 .. MaxPromises -> PromiseRow]
      /\ qualityCache \in [Servers -> 0 .. MaxPromises] /\ request \in [Summaries -> RequestRow]
      /\ visible \in [Servers -> Nat]
  BY <1>1, <1>2, <1>3, NullRows
<1>5. QualityTypeOK
  BY <1>1, <1>4 DEF QualityTypeOK, WriteRow, PromiseRow, RequestRow
<1>6. /\ \A w \in Writes : write[w].at <= commits
      /\ \A s \in Servers : visible[s] = 0 /\ qualityCache[s] = 0
      /\ \A r \in Summaries : request[r].pc = "idle"
  BY <1>1, NullRows
<1>7. QED BY <1>1, <1>5, <1>6 DEF SummaryInv, Keeps, Asks

\* Transactions and invalidations: no promise and no request changes.
LEMMA WritesServe ==
  ASSUME SummaryInv, UNCHANGED <<promise, request>>,
         commits' \in Nat,
         write' \in [Writes -> WriteRow], qualityCache' \in [Servers -> 0 .. MaxPromises],
         visible' \in [Servers -> Nat], commits <= commits',
         \A w \in Writes : write'[w].at <= commits',
         \A s \in Servers : \/ visible'[s] <= commits' /\ qualityCache'[s] = 0
                            \/ UNCHANGED <<visible[s], qualityCache[s]>>
  PROVE  SummaryInv'
<1>1. QualityTypeOK'
  BY QualityTypes, QualityTyped
<1>2. ASSUME NEW s \in Servers PROVE Keeps(s)'
  <2>1. visible[s] <= commits /\ visible[s] \in Nat /\ commits \in Nat
    BY QualityTypes DEF SummaryInv, Keeps
  <2>2. CASE visible'[s] <= commits' /\ qualityCache'[s] = 0
    BY <2>2 DEF Keeps
  <2>3. CASE UNCHANGED <<visible[s], qualityCache[s]>>
    BY <2>1, <2>3 DEF Keeps, SummaryInv, Serves
  <2>4. QED BY <2>2, <2>3
<1>3. ASSUME NEW r \in Summaries PROVE Asks(r)'
  <2>1. request[r].pc = "awaiting" => request[r].atLeast <= commits'
    BY QualityTypes DEF SummaryInv, Asks, RequestRow
  <2>2. QED BY <2>1 DEF Asks, SummaryInv, Serves
<1>4. QED BY <1>1, <1>2, <1>3 DEF SummaryInv

\* Promises: one moves, and what it contains is whatever is committed.
LEMMA PromisesServe ==
  ASSUME SummaryInv, NEW i \in 1 .. MaxPromises, NEW x \in PromiseRow, promise' = [promise EXCEPT ![i] = x],
         UNCHANGED <<commits, write, qualityCache, request, visible>>,
         x.state # "none",
         x.state \in {"queried", "fulfilled"}
           => x.commits = commits \/ (x.commits = promise[i].commits /\ promise[i].state = "queried")
  PROVE  SummaryInv'
<1>1. promise' \in [1 .. MaxPromises -> PromiseRow] /\ promise'[i] = x
      /\ \A j \in 1 .. MaxPromises \ {i} : promise'[j] = promise[j]
  BY QualityTypes
<1>2. QualityTypeOK'
  BY <1>1, QualityTypes, QualityTyped
<1>3. ASSUME NEW j \in 1 .. MaxPromises, NEW n \in Nat, n <= commits, Serves(promise, j, n)
      PROVE  Serves(promise', j, n)
  <2>1. CASE j = i
    BY <1>1, <1>3, <2>1, QualityTypes DEF Serves, PromiseRow
  <2>2. CASE j # i
    BY <1>1, <1>3, <2>2 DEF Serves
  <2>3. QED BY <2>1, <2>2
<1>4. ASSUME NEW s \in Servers PROVE Keeps(s)'
  <2>1. visible[s] \in Nat /\ visible[s] <= commits /\ qualityCache[s] \in 0 .. MaxPromises /\ MaxPromises \in Nat
    BY QualityTypes DEF SummaryInv, Keeps
  <2>2. ASSUME qualityCache[s] # 0 PROVE Serves(promise', qualityCache[s], visible[s])
    <3>1. qualityCache[s] \in 1 .. MaxPromises
      BY <2>1, <2>2
    <3>2. Serves(promise, qualityCache[s], visible[s])
      BY <2>2 DEF SummaryInv, Keeps
    <3>3. QED BY <1>3, <2>1, <3>1, <3>2
  <2>3. QED BY <2>1, <2>2 DEF Keeps
<1>5. ASSUME NEW r \in Summaries PROVE Asks(r)'
  <2>1. request[r].on \in 0 .. MaxPromises /\ request[r].atLeast \in Nat /\ MaxPromises \in Nat
    BY QualityTypes DEF RequestRow
  <2>2. ASSUME request[r].pc = "awaiting"
        PROVE  /\ request[r].on # 0 /\ request[r].atLeast <= commits
               /\ Serves(promise', request[r].on, request[r].atLeast)
    <3>1. /\ request[r].on # 0 /\ request[r].atLeast <= commits
          /\ Serves(promise, request[r].on, request[r].atLeast)
      BY <2>2 DEF SummaryInv, Asks
    <3>2. request[r].on \in 1 .. MaxPromises
      BY <2>1, <3>1
    <3>3. QED BY <1>3, <2>1, <3>1, <3>2
  <2>3. QED BY <2>2 DEF Asks
<1>6. QED BY <1>2, <1>4, <1>5 DEF SummaryInv

\* Requests and the cache: a request begins or ends, a promise may leave the cache.
LEMMA AnswersServe ==
  ASSUME SummaryInv, NEW r \in Summaries, NEW x \in RequestRow, request' = [request EXCEPT ![r] = x],
         UNCHANGED <<commits, write, promise, visible>>,
         x.pc = "awaiting" => x.on # 0 /\ x.atLeast <= commits /\ Serves(promise, x.on, x.atLeast),
         qualityCache' \in [Servers -> 0 .. MaxPromises],
         \A s \in Servers : qualityCache'[s] \in {0, qualityCache[s]}
  PROVE  SummaryInv'
<1>1. request' \in [Summaries -> RequestRow] /\ request'[r] = x
      /\ \A q \in Summaries \ {r} : request'[q] = request[q]
  BY QualityTypes
<1>2. QualityTypeOK'
  BY <1>1, QualityTypes, QualityTyped
<1>3. ASSUME NEW s \in Servers PROVE Keeps(s)'
  BY DEF Keeps, SummaryInv
<1>4. ASSUME NEW q \in Summaries PROVE Asks(q)'
  BY <1>1 DEF Asks, SummaryInv
<1>5. QED BY <1>2, <1>3, <1>4 DEF SummaryInv

LEMMA GetServes ==
  ASSUME SummaryInv, NEW r \in Summaries, NEW s \in Servers, GetEnergyDataQuality(r, s)
  PROVE  SummaryInv'
<1>1. /\ visible[s] \in Nat /\ visible[s] <= commits /\ qualityCache[s] \in 0 .. MaxPromises
      /\ qualityCache[s] # 0 => Serves(promise, qualityCache[s], visible[s])
  BY QualityTypes DEF SummaryInv, Keeps
<1>2. CASE qualityCache[s] # 0
  <2> DEFINE x == [pc |-> "awaiting", server |-> s, on |-> qualityCache[s], atLeast |-> visible[s]]
  <2>1. request' = [request EXCEPT ![r] = x]
        /\ UNCHANGED <<commits, write, promise, visible, qualityCache>>
    BY <1>2 DEF GetEnergyDataQuality
  <2>2. x \in RequestRow /\ x.on = qualityCache[s] /\ x.atLeast = visible[s]
    BY <1>1 DEF RequestRow
  <2> HIDE DEF x
  <2>3. QED BY <1>1, <1>2, <2>1, <2>2, AnswersServe, QualityTypes
<1>3. CASE qualityCache[s] = 0
  <2>1. PICK i \in 1 .. MaxPromises :
          /\ \A j \in 1 .. MaxPromises : (promise[j].state = "none") <=> (j >= i)
          /\ promise' = [promise EXCEPT ![i].state = "pending"]
          /\ qualityCache' = [qualityCache EXCEPT ![s] = i]
          /\ request' = [request EXCEPT ![r] = [pc |-> "awaiting", server |-> s, on |-> i, atLeast |-> visible[s]]]
    BY <1>3 DEF GetEnergyDataQuality
  <2> DEFINE x == [pc |-> "awaiting", server |-> s, on |-> i, atLeast |-> visible[s]]
             y == [promise[i] EXCEPT !.state = "pending"]
  <2>2. /\ request' = [request EXCEPT ![r] = x]
        /\ UNCHANGED <<commits, write, visible>>
        /\ promise[i].state = "none" /\ MaxPromises \in Nat
    BY <2>1, QualityTypes DEF GetEnergyDataQuality
  <2>3. promise' = [promise EXCEPT ![i] = y]
    BY <2>1
  <2>4. y \in PromiseRow /\ y.state = "pending"
    BY QualityTypes DEF PromiseRow
  <2>5. x \in RequestRow /\ x.on = i /\ x.atLeast = visible[s] /\ i # 0
    BY <1>1, <2>2 DEF RequestRow
  <2> HIDE DEF x, y
  <2>6. /\ promise' \in [1 .. MaxPromises -> PromiseRow] /\ promise'[i].state = "pending"
        /\ \A j \in 1 .. MaxPromises \ {i} : promise'[j] = promise[j]
    BY <2>3, <2>4, QualityTypes
  <2>7. /\ request' \in [Summaries -> RequestRow] /\ request'[r] = x
        /\ \A q \in Summaries \ {r} : request'[q] = request[q]
    BY <2>2, <2>5, QualityTypes
  <2>8. /\ qualityCache' \in [Servers -> 0 .. MaxPromises] /\ qualityCache'[s] = i
        /\ \A t \in Servers \ {s} : qualityCache'[t] = qualityCache[t]
    BY <2>1, <2>2, QualityTypes
  <2>9. QualityTypeOK'
    BY <2>2, <2>6, <2>7, <2>8, QualityTypes, QualityTyped
  <2>10. ASSUME NEW j, NEW n \in Nat, Serves(promise, j, n), j \in 1 .. MaxPromises
         PROVE  Serves(promise', j, n)
    BY <2>2, <2>6, <2>10 DEF Serves
  <2>11. Serves(promise', i, visible[s])
    BY <2>6 DEF Serves
  <2>12. ASSUME NEW t \in Servers PROVE Keeps(t)'
    <3>1. visible[t] \in Nat /\ visible[t] <= commits /\ qualityCache[t] \in 0 .. MaxPromises
      BY QualityTypes DEF SummaryInv, Keeps
    <3>2. CASE t = s
      BY <2>2, <2>8, <2>11, <3>1, <3>2 DEF Keeps
    <3>3. CASE t # s
      <4>1. ASSUME qualityCache[t] # 0 PROVE Serves(promise', qualityCache[t], visible[t])
        <5>1. qualityCache[t] \in 1 .. MaxPromises /\ Serves(promise, qualityCache[t], visible[t])
          BY <2>2, <3>1, <4>1 DEF SummaryInv, Keeps
        <5>2. QED BY <2>10, <3>1, <5>1
      <4>2. QED BY <2>2, <2>8, <3>1, <3>3, <4>1 DEF Keeps
    <3>4. QED BY <3>2, <3>3
  <2>13. ASSUME NEW q \in Summaries PROVE Asks(q)'
    <3>1. CASE q = r
      BY <1>1, <2>2, <2>5, <2>7, <2>11, <3>1 DEF Asks
    <3>2. CASE q # r
      <4>1. request[q].on \in 0 .. MaxPromises /\ request[q].atLeast \in Nat
        BY QualityTypes DEF RequestRow
      <4>2. ASSUME request[q].pc = "awaiting"
            PROVE  /\ request[q].on # 0 /\ request[q].atLeast <= commits
                   /\ Serves(promise', request[q].on, request[q].atLeast)
        <5>1. /\ request[q].on # 0 /\ request[q].atLeast <= commits
              /\ Serves(promise, request[q].on, request[q].atLeast)
          BY <4>2 DEF SummaryInv, Asks
        <5>2. request[q].on \in 1 .. MaxPromises
          BY <2>2, <4>1, <5>1
        <5>3. QED BY <2>10, <4>1, <5>1, <5>2
      <4>3. QED BY <2>2, <2>7, <3>2, <4>2 DEF Asks
    <3>3. QED BY <3>1, <3>2
  <2>14. QED BY <2>2, <2>9, <2>12, <2>13 DEF SummaryInv
<1>4. QED BY <1>2, <1>3

LEMMA RowWritten ==
  ASSUME SummaryInv, NEW w \in Writes, NEW x \in WriteRow, write' = [write EXCEPT ![w] = x],
         NEW n \in Nat, commits <= n, x.at <= n
  PROVE  write' \in [Writes -> WriteRow] /\ \A v \in Writes : write'[v].at <= n
<1>1. /\ write' \in [Writes -> WriteRow] /\ write'[w] = x
      /\ \A v \in Writes \ {w} : write'[v] = write[v]
  BY QualityTypes
<1>2. ASSUME NEW v \in Writes PROVE write[v].at <= n
  BY QualityTypes DEF SummaryInv, WriteRow
<1>3. QED BY <1>1, <1>2

LEMMA WriteServes ==
  ASSUME SummaryInv, NEW w \in Writes,
         Invalidate(w) \/ \E s \in Servers : WriteIntervals(w, s)
  PROVE  SummaryInv'
<1>1. write[w] \in WriteRow /\ write[w].at <= commits /\ write[w].at \in Nat /\ commits \in Nat
  BY QualityTypes DEF SummaryInv, WriteRow
<1>2. ASSUME NEW s \in Servers, WriteIntervals(w, s) PROVE SummaryInv'
  <2> DEFINE x == [pc |-> "committed", server |-> s, at |-> commits']
  <2>1. /\ write' = [write EXCEPT ![w] = x] /\ commits' = commits + 1
        /\ UNCHANGED <<promise, qualityCache, request, visible>>
    BY <1>2 DEF WriteIntervals
  <2>2. x \in WriteRow /\ x.at = commits' /\ commits' \in Nat /\ commits <= commits'
    BY <1>1, <2>1 DEF WriteRow
  <2> HIDE DEF x
  <2>3. write' \in [Writes -> WriteRow] /\ \A v \in Writes : write'[v].at <= commits'
    <3>1. x.at <= commits'
      BY <2>2
    <3>2. QED BY <2>1, <2>2, <3>1, RowWritten
  <2>4. QED BY <1>1, <2>1, <2>2, <2>3, WritesServe, QualityTypes
<1>3. CASE Invalidate(w)
  <2> DEFINE s == write[w].server
             x == [NoWrite EXCEPT !.pc = "done"]
             v == IF write[w].at > visible[s] THEN write[w].at ELSE visible[s]
  <2>1. /\ write' = [write EXCEPT ![w] = x] /\ qualityCache' = [qualityCache EXCEPT ![s] = 0]
        /\ visible' = [visible EXCEPT ![s] = v]
        /\ UNCHANGED <<commits, promise, request>>
    BY <1>3, QualityTypes DEF Invalidate, InvalidateEnergyDataQualityCache
  <2>2. x \in WriteRow /\ x.at = 0
    BY NullRows DEF WriteRow
  <2> HIDE DEF x
  <2>3. s \in Servers
    BY <1>1 DEF WriteRow
  <2>4. v \in Nat /\ v <= commits
    BY <1>1, <2>3, QualityTypes DEF SummaryInv, Keeps
  <2> HIDE DEF s, v
  <2>5. write' \in [Writes -> WriteRow] /\ \A u \in Writes : write'[u].at <= commits
    <3>1. x.at <= commits /\ commits <= commits
      BY <1>1, <2>2
    <3>2. QED BY <1>1, <2>1, <2>2, <3>1, RowWritten
  <2>6. /\ qualityCache' \in [Servers -> 0 .. MaxPromises] /\ visible' \in [Servers -> Nat]
        /\ qualityCache'[s] = 0 /\ visible'[s] = v
        /\ \A t \in Servers \ {s} : qualityCache'[t] = qualityCache[t] /\ visible'[t] = visible[t]
    BY <2>1, <2>3, <2>4, QualityTypes
  <2>7. ASSUME NEW t \in Servers
        PROVE  \/ visible'[t] <= commits' /\ qualityCache'[t] = 0
               \/ UNCHANGED <<visible[t], qualityCache[t]>>
    BY <2>1, <2>3, <2>4, <2>6
  <2>8. QED BY <1>1, <2>1, <2>5, <2>6, <2>7, WritesServe, QualityTypes
<1>4. QED BY <1>2, <1>3

LEMMA PromiseServes ==
  ASSUME SummaryInv, NEW i \in 1 .. MaxPromises, QueryIntervals(i) \/ ComputeEnergyDataQuality(i)
  PROVE  SummaryInv'
<1>1. promise[i] \in PromiseRow /\ commits \in Nat
  BY QualityTypes
<1>2. CASE QueryIntervals(i)
  <2> DEFINE x == [state |-> "queried", commits |-> commits]
  <2>1. promise' = [promise EXCEPT ![i] = x]
        /\ UNCHANGED <<commits, write, qualityCache, request, visible>>
    BY <1>2 DEF QueryIntervals
  <2>2. x \in PromiseRow /\ x.state = "queried" /\ x.commits = commits
    BY <1>1 DEF PromiseRow
  <2> HIDE DEF x
  <2>3. QED BY <2>1, <2>2, PromisesServe
<1>3. CASE ComputeEnergyDataQuality(i)
  <2>1. PICK st \in {"fulfilled", "rejected"} :
          /\ promise' = [promise EXCEPT ![i].state = st]
          /\ st = "fulfilled" => promise[i].state = "queried"
    BY <1>3 DEF ComputeEnergyDataQuality
  <2> DEFINE x == [promise[i] EXCEPT !.state = st]
  <2>2. promise' = [promise EXCEPT ![i] = x]
        /\ UNCHANGED <<commits, write, qualityCache, request, visible>>
    BY <1>3, <2>1 DEF ComputeEnergyDataQuality
  <2>3. x \in PromiseRow /\ x.state = st /\ x.commits = promise[i].commits
    BY <1>1 DEF PromiseRow
  <2> HIDE DEF x
  <2>4. QED BY <2>1, <2>2, <2>3, PromisesServe
<1>4. QED BY <1>2, <1>3

LEMMA AnswerServes ==
  ASSUME SummaryInv, NEW r \in Summaries, AnswerQuality(r)
  PROVE  SummaryInv'
<1> DEFINE i == request[r].on
           s == request[r].server
           c == IF promise[i].state = "rejected" /\ qualityCache[s] = i THEN 0 ELSE qualityCache[s]
<1>1. /\ qualityCache' = [qualityCache EXCEPT ![s] = c] /\ request' = [request EXCEPT ![r] = NoRequest]
      /\ UNCHANGED <<commits, write, promise, visible>>
  BY QualityTypes DEF AnswerQuality
<1>2. s \in Servers /\ c \in {0, qualityCache[s]} /\ c \in 0 .. MaxPromises
  BY QualityTypes DEF RequestRow
<1> HIDE DEF i, s, c
<1>3. /\ qualityCache' \in [Servers -> 0 .. MaxPromises] /\ qualityCache'[s] = c
      /\ \A t \in Servers \ {s} : qualityCache'[t] = qualityCache[t]
  BY <1>1, <1>2, QualityTypes
<1>4. QED BY <1>1, <1>2, <1>3, NullRows, AnswersServe

LEMMA QualityStep == SummaryInv /\ [QualityNext]_qualityVars => SummaryInv'
<1> SUFFICES ASSUME SummaryInv, [QualityNext]_qualityVars PROVE SummaryInv'
  OBVIOUS
<1>1. ASSUME NEW w \in Writes,
             Invalidate(w) \/ \E s \in Servers : WriteIntervals(w, s)
      PROVE  SummaryInv'
  BY <1>1, WriteServes
<1>2. ASSUME NEW r \in Summaries, AnswerQuality(r) \/ \E s \in Servers : GetEnergyDataQuality(r, s)
      PROVE  SummaryInv'
  BY <1>2, AnswerServes, GetServes
<1>3. ASSUME NEW i \in 1 .. MaxPromises, QueryIntervals(i) \/ ComputeEnergyDataQuality(i) PROVE SummaryInv'
  BY <1>3, PromiseServes
<1>4. ASSUME NEW s \in Servers, CacheExpires(s) PROVE SummaryInv'
  <2>1. /\ qualityCache' = [qualityCache EXCEPT ![s] = 0]
        /\ UNCHANGED <<commits, write, promise, request, visible>>
    BY <1>4 DEF CacheExpires
  <2>2. /\ qualityCache' \in [Servers -> 0 .. MaxPromises] /\ qualityCache'[s] = 0
        /\ \A t \in Servers \ {s} : qualityCache'[t] = qualityCache[t]
    BY <2>1, QualityTypes
  <2>3. /\ commits <= commits' /\ \A w \in Writes : write'[w].at <= commits'
        /\ \A t \in Servers : visible[t] <= commits
    BY <2>1, QualityTypes DEF SummaryInv, Keeps
  <2>4. ASSUME NEW t \in Servers
        PROVE  \/ visible'[t] <= commits' /\ qualityCache'[t] = 0
               \/ UNCHANGED <<visible[t], qualityCache[t]>>
    BY <2>1, <2>2, <2>3
  <2>5. QED BY <2>1, <2>2, <2>3, <2>4, WritesServe, QualityTypes
<1>5. CASE UNCHANGED qualityVars
  <2>1. UNCHANGED <<commits, write, promise, qualityCache, request, visible>>
    BY <1>5 DEF qualityVars
  <2>2. commits <= commits' /\ \A w \in Writes : write'[w].at <= commits'
    BY <2>1, QualityTypes DEF SummaryInv
  <2>3. QED BY <2>1, <2>2, WritesServe, QualityTypes
<1>6. QED BY <1>1, <1>2, <1>3, <1>4, <1>5 DEF QualityNext

\* A summary shows every write its process had invalidated the cache for when the request began
\* (data-quality.ts): for any number of processes, writes and requests, promises that are shared,
\* pending while a write commits, or rejected.
THEOREM SummariesAreFresh == QualitySpec => []QualityIsFresh
<1>1. QualitySpec => []SummaryInv
  BY QualityInit1, QualityStep, PTL DEF QualitySpec
<1>2. SummaryInv => QualityIsFresh
  BY DEF SummaryInv, QualityIsFresh, Asks, Serves
<1>3. QED BY <1>1, <1>2, PTL

(***************************************************************************)
(* The pair of tokens.  What a client has rotated away is never accepted   *)
(* again (Rotates).  Who began with the accepted token finds it stored     *)
(* still, and who has rotated a pair finds stored what it began with,      *)
(* unless a blind write has given it up (Begun, Owing); and no two clients *)
(* have rotated the same pair (Apart).                                     *)
(***************************************************************************)
ClientRow ==
  [pc : {"idle", "request", "refresh", "again", "store", "caught"}, kind : Kinds \cup {"none"},
   before : Pair, tokens : Pair, left : 0 .. 2, got : 0 .. 2]

\* A request is left to a client that is going to send one.
Turn(k) ==
  k.pc # "idle" =>
    /\ k.kind \in Kinds /\ k.left + k.got <= 2
    /\ k.pc \in {"request", "refresh", "again"} => k.left >= 1

\* No token has a number the backend has not issued.
Numbered ==
  /\ stored.refresh <= issued /\ connecting.refresh <= issued /\ accepted <= issued
  /\ \A c \in Clients : client[c].tokens.refresh <= issued /\ client[c].before.refresh <= issued

Single(p) == p.access = p.refresh

\* A backend that rotates issues both tokens together; one that does not issues no refresh token.
Rotates ==
  /\ rotates => /\ Single(stored) /\ Single(connecting)
                /\ \A c \in Clients : Single(client[c].tokens) /\ Single(client[c].before)
  /\ \A c \in Clients : Rotated(c) => rotates /\ client[c].before.refresh # accepted

\* The pair of a registration is known to nobody before its transaction.
Announced ==
  connecting # NoPair =>
    /\ connecting.refresh = accepted /\ stored.refresh # accepted
    /\ \A c \in Clients : client[c].tokens.refresh # accepted /\ client[c].before.refresh # accepted

Begun ==
  \A c \in Clients : client[c].before.refresh = accepted => stored.refresh = accepted \/ accepted \in lost

Owing ==
  \A c \in Clients :
    Rotated(c) /\ client[c].tokens.refresh = accepted
      => stored.refresh = client[c].before.refresh \/ client[c].before.refresh \in lost

Apart ==
  \A c, d \in Clients : c # d /\ Rotated(c) /\ Rotated(d) => client[c].before.refresh # client[d].before.refresh

AccountInv ==
  /\ PairIsKept /\ \A c \in Clients : Turn(client[c])
  /\ Numbered /\ Rotates /\ Announced /\ Begun /\ Owing /\ Apart

LEMMA AccountTypes ==
  ASSUME AccountTypeOK
  PROVE  /\ MaxTokens \in Nat \ {0} /\ MaxUnanswered \in Nat /\ MaxConnects \in Nat
         /\ stored \in Pair /\ connecting \in Pair /\ client \in [Clients -> ClientRow]
         /\ told \in BOOLEAN /\ rotates \in BOOLEAN
         /\ accepted \in 1 .. MaxTokens /\ fresh \subseteq 1 .. MaxTokens /\ issued \in 1 .. MaxTokens
         /\ unanswered \in 0 .. MaxUnanswered /\ connects \in 0 .. MaxConnects
         /\ lost \subseteq 0 .. MaxTokens
BY AccountAssumption DEF AccountTypeOK, ClientRow

LEMMA AccountTyped ==
  ASSUME stored' \in Pair, connecting' \in Pair, client' \in [Clients -> ClientRow],
         told' \in BOOLEAN, rotates' \in BOOLEAN, accepted' \in 1 .. MaxTokens,
         fresh' \subseteq 1 .. MaxTokens, issued' \in 1 .. MaxTokens,
         unanswered' \in 0 .. MaxUnanswered, connects' \in 0 .. MaxConnects, lost' \subseteq 0 .. MaxTokens
  PROVE  AccountTypeOK'
BY DEF AccountTypeOK, ClientRow

LEMMA PairTypes == \A p \in Pair : p.access \in 0 .. MaxTokens /\ p.refresh \in 0 .. MaxTokens
BY DEF Pair

LEMMA RowTypes == \A k \in ClientRow : k.before \in Pair /\ k.tokens \in Pair
BY DEF ClientRow

\* Two pairs with both tokens alike are one.
LEMMA SamePair == ASSUME NEW p \in Pair, NEW q \in Pair, p.access = q.access, p.refresh = q.refresh PROVE p = q
BY DEF Pair

LEMMA PairValues ==
  /\ NoPair \in Pair /\ NoPair.access = 0 /\ NoPair.refresh = 0
  /\ FirstPair \in Pair /\ FirstPair.access = 1 /\ FirstPair.refresh = 1
  /\ Idle \in ClientRow /\ Idle.pc = "idle" /\ Idle.tokens = NoPair /\ Idle.before = NoPair
<1>1. NoPair \in Pair /\ NoPair.access = 0 /\ NoPair.refresh = 0
  BY AccountAssumption DEF NoPair, Pair
<1>2. FirstPair \in Pair /\ FirstPair.access = 1 /\ FirstPair.refresh = 1
  BY AccountAssumption DEF FirstPair, Pair
<1>3. Idle \in ClientRow /\ Idle.pc = "idle" /\ Idle.tokens = NoPair /\ Idle.before = NoPair
  BY <1>1 DEF Idle, ClientRow
<1>4. QED BY <1>1, <1>2, <1>3

LEMMA AccountInit1 == AccountInit => AccountInv
<1> SUFFICES ASSUME AccountInit PROVE AccountInv
  OBVIOUS
<1>1. /\ stored = FirstPair /\ connecting = NoPair /\ told = FALSE /\ rotates \in BOOLEAN
      /\ accepted = 1 /\ fresh = {1} /\ issued = 1 /\ unanswered = 0 /\ connects = 0 /\ lost = {}
      /\ client = [c \in Clients |-> Idle]
  BY DEF AccountInit
<1>2. /\ client \in [Clients -> ClientRow]
      /\ \A c \in Clients : client[c].pc = "idle" /\ client[c].tokens = NoPair /\ client[c].before = NoPair
  BY <1>1, PairValues
<1>3. AccountTypeOK
  <2>1. 1 \in 1 .. MaxTokens /\ 0 \in 0 .. MaxUnanswered /\ 0 \in 0 .. MaxConnects
    BY AccountAssumption
  <2>2. stored \in Pair /\ connecting \in Pair /\ told \in BOOLEAN /\ lost \subseteq 0 .. MaxTokens
    BY <1>1, PairValues
  <2>3. QED BY <1>1, <1>2, <2>1, <2>2 DEF AccountTypeOK, ClientRow
<1>4. stored.refresh = accepted
  BY <1>1, PairValues
<1>5. PairIsKept /\ \A c \in Clients : Turn(client[c])
  BY <1>2, <1>3, <1>4 DEF PairIsKept, Turn
<1>6. Numbered
  BY <1>1, <1>2, PairValues DEF Numbered
<1>7. \A c \in Clients : ~Rotated(c)
  BY <1>2 DEF Rotated
<1>8. Rotates
  BY <1>1, <1>2, <1>7, PairValues DEF Rotates, Single
<1>9. Announced /\ Begun /\ Owing /\ Apart
  BY <1>1, <1>4, <1>7 DEF Announced, Begun, Owing, Apart
<1>10. QED BY <1>5, <1>6, <1>8, <1>9 DEF AccountInv

\* A request, a refusal or the end of an access token: no pair moves.
LEMMA Waits ==
  ASSUME AccountInv, UNCHANGED <<stored, connecting, told, rotates, accepted, issued, connects, lost>>,
         fresh' \subseteq 1 .. MaxTokens, unanswered' \in 0 .. MaxUnanswered,
         client' \in [Clients -> ClientRow],
         \A c \in Clients : /\ client'[c].pc = "idle" <=> client[c].pc = "idle"
                            /\ UNCHANGED <<client[c].tokens, client[c].before>>
                            /\ Turn(client'[c])
  PROVE  AccountInv'
<1>1. /\ PairIsKept /\ AccountTypeOK /\ Numbered /\ Rotates /\ Announced /\ Begun /\ Owing /\ Apart
  BY DEF AccountInv, PairIsKept
<1>2. AccountTypeOK'
  BY <1>1, AccountTypes, AccountTyped
<1>3. \A c \in Clients : Rotated(c)' <=> Rotated(c)
  BY DEF Rotated
<1>4. PairIsKept'
  BY <1>1, <1>2 DEF PairIsKept
<1>5. Numbered' /\ Announced' /\ Begun'
  BY <1>1 DEF Numbered, Announced, Begun
<1>6. Rotates' /\ Owing' /\ Apart'
  BY <1>1, <1>3 DEF Rotates, Single, Owing, Apart
<1>7. QED BY <1>4, <1>5, <1>6 DEF AccountInv

\* The row of one client changes, its pairs do not.
LEMMA OneWaits ==
  ASSUME AccountInv, NEW c \in Clients, client[c].pc # "idle", NEW x \in ClientRow,
         client' = [client EXCEPT ![c] = x],
         UNCHANGED <<stored, connecting, told, rotates, accepted, fresh, issued, connects, lost>>,
         unanswered' \in 0 .. MaxUnanswered,
         x.pc # "idle", x.tokens = client[c].tokens, x.before = client[c].before, Turn(x)
  PROVE  AccountInv'
<1>1. /\ client' \in [Clients -> ClientRow] /\ client'[c] = x /\ fresh' \subseteq 1 .. MaxTokens
      /\ \A d \in Clients \ {c} : client'[d] = client[d]
  BY AccountTypes DEF AccountInv, PairIsKept
<1>2. \A d \in Clients : /\ client'[d].pc = "idle" <=> client[d].pc = "idle"
                         /\ UNCHANGED <<client[d].tokens, client[d].before>>
                         /\ Turn(client'[d])
  BY <1>1 DEF AccountInv
<1>3. QED BY <1>1, <1>2, Waits

LEMMA EndedRow ==
  ASSUME AccountInv, NEW c \in Clients, client[c].pc \in {"request", "refresh", "again"},
         NEW ok \in BOOLEAN, Ended(c, ok)
  PROVE  \E x \in ClientRow :
           /\ client' = [client EXCEPT ![c] = x]
           /\ x.pc # "idle" /\ x.tokens = client[c].tokens /\ x.before = client[c].before /\ Turn(x)
<1> DEFINE k == client[c]
           got == IF ok THEN k.got + 1 ELSE k.got
           pc == IF ~ok /\ ~Tolerant(k.kind) THEN "caught"
                 ELSE IF k.left > 1 THEN "request"
                 ELSE IF k.kind = "dashboard" /\ got = 0 THEN "caught"
                 ELSE "store"
           a == [k EXCEPT !.left = k.left - 1]
           b == [a EXCEPT !.got = got]
           x == [b EXCEPT !.pc = pc]
<1>1. /\ k \in ClientRow /\ k.left >= 1 /\ k.left + k.got <= 2 /\ k.kind \in Kinds
      /\ k.left \in 0 .. 2 /\ k.got \in 0 .. 2
  BY AccountTypes DEF AccountInv, PairIsKept, Turn, ClientRow
<1>2. client' = [client EXCEPT ![c] = x]
  BY AccountTypes DEF AccountInv, PairIsKept, Ended
<1>3. pc \in {"request", "caught", "store"} /\ (pc = "request" => k.left > 1)
  OBVIOUS
<1>4. got \in 0 .. 2 /\ (k.left - 1) + got <= 2 /\ k.left - 1 \in 0 .. 2
  BY <1>1
<1> HIDE DEF k, got, pc
<1>5. /\ a \in ClientRow /\ a.left = k.left - 1 /\ a.tokens = k.tokens /\ a.before = k.before
      /\ a.kind = k.kind
  BY <1>1, <1>4 DEF ClientRow
<1> HIDE DEF a
<1>6. /\ b \in ClientRow /\ b.left = k.left - 1 /\ b.got = got /\ b.tokens = k.tokens /\ b.before = k.before
      /\ b.kind = k.kind
  BY <1>4, <1>5 DEF ClientRow
<1> HIDE DEF b
<1>7. /\ x \in ClientRow /\ x.left = k.left - 1 /\ x.got = got /\ x.tokens = k.tokens /\ x.before = k.before
      /\ x.kind = k.kind /\ x.pc = pc
  BY <1>3, <1>6 DEF ClientRow
<1> HIDE DEF x
<1>8. Turn(x)
  BY <1>1, <1>3, <1>4, <1>7 DEF Turn
<1>9. QED BY <1>2, <1>3, <1>7, <1>8 DEF k

LEMMA EndedWaits ==
  ASSUME AccountInv, NEW c \in Clients, client[c].pc \in {"request", "refresh", "again"},
         NEW ok \in BOOLEAN, Ended(c, ok),
         UNCHANGED <<stored, connecting, told, rotates, accepted, fresh, issued, connects, lost>>,
         unanswered' \in 0 .. MaxUnanswered
  PROVE  AccountInv'
<1>1. PICK x \in ClientRow :
        /\ client' = [client EXCEPT ![c] = x]
        /\ x.pc # "idle" /\ x.tokens = client[c].tokens /\ x.before = client[c].before /\ Turn(x)
  BY EndedRow
<1>2. QED BY <1>1, OneWaits

LEMMA NotAnsweredWaits ==
  ASSUME AccountInv, NEW c \in Clients, client[c].pc \in {"request", "refresh", "again"}, NotAnswered(c),
         UNCHANGED <<stored, connecting, told, rotates, accepted, fresh, issued, connects, lost>>
  PROVE  AccountInv'
<1>1. /\ Ended(c, FALSE) /\ unanswered < MaxUnanswered /\ unanswered' = unanswered + 1
      /\ unanswered \in 0 .. MaxUnanswered /\ MaxUnanswered \in Nat
  BY AccountTypes DEF NotAnswered, AccountInv, PairIsKept
<1>2. unanswered' \in 0 .. MaxUnanswered
  BY <1>1
<1>3. QED BY <1>1, <1>2, EndedWaits

LEMMA RequestWaits ==
  ASSUME AccountInv, NEW c \in Clients, Request(c)
  PROVE  AccountInv'
<1>1. /\ client[c].pc \in {"request", "again"}
      /\ UNCHANGED <<stored, connecting, told, rotates, accepted, fresh, issued, connects, lost>>
  BY DEF Request, backend
<1>2. unanswered \in 0 .. MaxUnanswered
  BY AccountTypes DEF AccountInv, PairIsKept
<1>3. CASE Answered(c) /\ UNCHANGED unanswered
  BY <1>1, <1>2, <1>3, EndedWaits DEF Answered
<1>4. CASE Unauthorized(c) /\ UNCHANGED unanswered
  <2> DEFINE x == [client[c] EXCEPT !.pc = "refresh"]
  <2>1. client' = [client EXCEPT ![c] = x] /\ client[c].pc = "request" /\ client[c] \in ClientRow
    BY <1>4, AccountTypes DEF Unauthorized, AccountInv, PairIsKept
  <2>2. /\ x \in ClientRow /\ x.pc = "refresh" /\ x.tokens = client[c].tokens /\ x.before = client[c].before
        /\ x.left = client[c].left /\ x.got = client[c].got /\ x.kind = client[c].kind
    BY <2>1 DEF ClientRow
  <2> HIDE DEF x
  <2>3. Turn(x)
    BY <2>1, <2>2 DEF AccountInv, Turn
  <2>4. QED BY <1>1, <1>2, <1>4, <2>1, <2>2, <2>3, OneWaits
<1>5. CASE NotAnswered(c)
  BY <1>1, <1>5, NotAnsweredWaits
<1>6. QED BY <1>3, <1>4, <1>5 DEF Request

LEMMA RefreshedInv ==
  ASSUME AccountInv, NEW c \in Clients, NEW x \in ClientRow, client[c].pc = "refresh",
         client[c].tokens.refresh = accepted, issued < MaxTokens, issued' = issued + 1,
         accepted' = IF rotates THEN issued' ELSE accepted, fresh' = fresh \cup {issued'},
         client' = [client EXCEPT ![c] = x],
         x.pc = "again", x.tokens = [access |-> issued', refresh |-> accepted'],
         x.before = client[c].before, Turn(x),
         UNCHANGED <<stored, connecting, told, rotates, unanswered, connects, lost>>
  PROVE  AccountInv'
<1>1. /\ PairIsKept /\ AccountTypeOK /\ Numbered /\ Rotates /\ Announced /\ Begun /\ Owing /\ Apart
      /\ \A d \in Clients : Turn(client[d])
  BY DEF AccountInv, PairIsKept
<1>2. /\ client' \in [Clients -> ClientRow] /\ client'[c] = x
      /\ \A d \in Clients \ {c} : client'[d] = client[d]
  BY <1>1, AccountTypes
<1>3. issued \in 1 .. MaxTokens /\ accepted \in 1 .. MaxTokens /\ MaxTokens \in Nat /\ fresh \subseteq 1 .. MaxTokens
  BY <1>1, AccountTypes
<1>4. issued' \in 1 .. MaxTokens /\ accepted' \in 1 .. MaxTokens /\ accepted' <= issued' /\ issued <= issued'
  BY <1>1, <1>3 DEF Numbered
<1>5. AccountTypeOK'
  BY <1>1, <1>2, <1>3, <1>4, AccountTypes, AccountTyped
<1>6. x.tokens.access = issued' /\ x.tokens.refresh = accepted'
  OBVIOUS
<1>7. PairIsKept'
  BY <1>2, <1>5, <1>6 DEF PairIsKept
<1>8. \A d \in Clients : Turn(client'[d])
  BY <1>1, <1>2
<1>9. /\ stored.refresh \in 0 .. MaxTokens /\ connecting.refresh \in 0 .. MaxTokens
      /\ \A d \in Clients : client[d].tokens.refresh \in 0 .. MaxTokens /\ client[d].before.refresh \in 0 .. MaxTokens
  BY <1>1, AccountTypes, PairTypes, RowTypes
<1>10. Numbered'
  BY <1>1, <1>2, <1>3, <1>4, <1>6, <1>9 DEF Numbered
<1>11. ~rotates => accepted' = accepted
  OBVIOUS
\* Nobody has seen a token that was just issued.
<1>12. rotates => /\ stored.refresh # accepted' /\ connecting.refresh # accepted'
                  /\ \A d \in Clients : client[d].before.refresh # accepted' /\ client[d].tokens.refresh # accepted'
  BY <1>1, <1>3, <1>9 DEF Numbered
<1>13. Rotated(c)' => rotates
  BY <1>1, <1>2, <1>6 DEF Rotates, Rotated
<1>14. \A d \in Clients \ {c} : Rotated(d)' <=> Rotated(d)
  BY <1>2 DEF Rotated
<1>15. Rotates'
  <2>1. rotates => Single(x.tokens)
    BY <1>6 DEF Single
  <2>2. rotates => \A d \in Clients : Single(client'[d].tokens) /\ Single(client'[d].before)
    BY <1>1, <1>2, <2>1 DEF Rotates
  <2>3. ASSUME NEW d \in Clients, Rotated(d)' PROVE rotates /\ client'[d].before.refresh # accepted'
    <3>1. rotates
      BY <1>1, <1>13, <1>14, <2>3 DEF Rotates
    <3>2. QED BY <1>2, <1>12, <3>1
  <2>4. QED BY <1>1, <2>2, <2>3 DEF Rotates, Single
<1>16. Announced'
  BY <1>1 DEF Announced
<1>17. Begun'
  BY <1>1, <1>2, <1>11, <1>12 DEF Begun
<1>18. Owing'
  <2>1. ASSUME NEW d \in Clients \ {c}, Rotated(d)', client'[d].tokens.refresh = accepted' PROVE FALSE
    <3>1. rotates
      BY <1>1, <1>14, <2>1 DEF Rotates
    <3>2. QED BY <1>2, <1>12, <2>1, <3>1
  <2>2. ASSUME Rotated(c)' PROVE stored.refresh = x.before.refresh \/ x.before.refresh \in lost
    <3>1. CASE Rotated(c)
      BY <1>1, <3>1 DEF Owing
    <3>2. CASE ~Rotated(c)
      BY <1>1, <3>2 DEF Begun, Rotated
    <3>3. QED BY <3>1, <3>2
  <2>3. QED BY <1>2, <2>1, <2>2 DEF Owing
<1>19. Apart'
  <2>1. ASSUME NEW d \in Clients \ {c}, Rotated(d), Rotated(c)' PROVE client[d].before.refresh # x.before.refresh
    <3>1. CASE Rotated(c)
      BY <1>1, <2>1, <3>1 DEF Apart
    <3>2. CASE ~Rotated(c)
      BY <1>1, <2>1, <3>2 DEF Rotates, Rotated
    <3>3. QED BY <3>1, <3>2
  <2>2. QED BY <1>1, <1>2, <1>14, <2>1 DEF Apart
<1>20. QED BY <1>7, <1>8, <1>10, <1>15, <1>16, <1>17, <1>18, <1>19 DEF AccountInv

LEMMA RefreshInv ==
  ASSUME AccountInv, NEW c \in Clients, Refresh(c)
  PROVE  AccountInv'
<1>1. client[c].pc = "refresh" /\ UNCHANGED <<stored, connecting, told, rotates, connects, lost>>
  BY DEF Refresh
<1>2. CASE /\ client[c].tokens.refresh = accepted /\ issued < MaxTokens /\ issued' = issued + 1
           /\ accepted' = IF rotates THEN issued' ELSE accepted
           /\ fresh' = fresh \cup {issued'}
           /\ client' = [client EXCEPT ![c].pc = "again", ![c].tokens = [access |-> issued', refresh |-> accepted']]
           /\ UNCHANGED unanswered
  <2> DEFINE p == [access |-> issued', refresh |-> accepted']
             a == [client[c] EXCEPT !.pc = "again"]
             x == [a EXCEPT !.tokens = p]
  <2>1. /\ client \in [Clients -> ClientRow] /\ client[c] \in ClientRow
        /\ issued' \in 1 .. MaxTokens /\ accepted' \in 1 .. MaxTokens /\ MaxTokens \in Nat
    BY <1>2, AccountTypes DEF AccountInv, PairIsKept
  <2>2. client' = [client EXCEPT ![c] = x]
    BY <1>2, <2>1
  <2>3. p \in Pair
    BY <2>1 DEF Pair
  <2>4. p = [access |-> issued', refresh |-> accepted']
    OBVIOUS
  <2> HIDE DEF p
  <2>5. /\ a \in ClientRow /\ a.pc = "again" /\ a.before = client[c].before /\ a.kind = client[c].kind
        /\ a.left = client[c].left /\ a.got = client[c].got
    BY <2>1 DEF ClientRow
  <2> HIDE DEF a
  <2>6. /\ x \in ClientRow /\ x.pc = "again" /\ x.before = client[c].before /\ x.kind = client[c].kind
        /\ x.left = client[c].left /\ x.got = client[c].got /\ x.tokens = p
    BY <2>3, <2>5 DEF ClientRow
  <2> HIDE DEF x
  <2>7. Turn(x)
    BY <1>1, <2>6 DEF AccountInv, Turn
  <2>8. QED BY <1>1, <1>2, <2>2, <2>4, <2>6, <2>7, RefreshedInv
<1>3. CASE client[c].tokens.refresh # accepted /\ Ended(c, FALSE) /\ UNCHANGED <<accepted, fresh, issued, unanswered>>
  <2>1. unanswered' \in 0 .. MaxUnanswered
    BY <1>3, AccountTypes DEF AccountInv, PairIsKept
  <2>2. QED BY <1>1, <1>3, <2>1, EndedWaits
<1>4. CASE NotAnswered(c) /\ UNCHANGED <<accepted, fresh, issued>>
  BY <1>1, <1>4, NotAnsweredWaits
<1>5. QED BY <1>2, <1>3, <1>4 DEF Refresh

LEMMA BeginInv ==
  ASSUME AccountInv, NEW c \in Clients, NEW kind, Begin(c, kind)
  PROVE  AccountInv'
<1> DEFINE x == [pc |-> "request", kind |-> kind, before |-> stored, tokens |-> stored,
                 left |-> Requests(kind), got |-> 0]
<1>1. /\ PairIsKept /\ AccountTypeOK /\ Numbered /\ Rotates /\ Announced /\ Begun /\ Owing /\ Apart
      /\ \A d \in Clients : Turn(client[d])
  BY DEF AccountInv, PairIsKept
<1>2. /\ kind \in Kinds /\ client[c].pc = "idle" /\ client' = [client EXCEPT ![c] = x]
      /\ UNCHANGED <<stored, connecting, told, rotates, accepted, fresh, issued, unanswered, connects, lost>>
  BY DEF Begin, backend
<1>3. Requests(kind) \in {1, 2} /\ stored \in Pair
  BY <1>1, AccountTypes DEF Requests
<1>4. /\ x \in ClientRow /\ x.pc = "request" /\ x.before = stored /\ x.tokens = stored
      /\ x.kind = kind /\ x.left = Requests(kind) /\ x.got = 0
  BY <1>2, <1>3 DEF ClientRow
<1> HIDE DEF x
<1>5. /\ client' \in [Clients -> ClientRow] /\ client'[c] = x
      /\ \A d \in Clients \ {c} : client'[d] = client[d]
  BY <1>1, <1>2, <1>4, AccountTypes
<1>6. AccountTypeOK'
  BY <1>1, <1>2, <1>5, AccountTypes, AccountTyped
<1>7. \A d \in Clients : Turn(client'[d])
  BY <1>1, <1>2, <1>3, <1>4, <1>5 DEF Turn
<1>8. PairIsKept'
  BY <1>1, <1>2, <1>5, <1>6 DEF PairIsKept
<1>9. ~Rotated(c)' /\ \A d \in Clients \ {c} : Rotated(d)' <=> Rotated(d)
  BY <1>4, <1>5 DEF Rotated
<1>10. Numbered'
  BY <1>1, <1>2, <1>4, <1>5 DEF Numbered
<1>11. Rotates'
  BY <1>1, <1>2, <1>4, <1>5, <1>9 DEF Rotates, Single
<1>12. Announced' /\ Begun'
  BY <1>1, <1>2, <1>4, <1>5 DEF Announced, Begun
<1>13. Owing' /\ Apart'
  BY <1>1, <1>2, <1>5, <1>9 DEF Owing, Apart
<1>14. QED BY <1>7, <1>8, <1>10, <1>11, <1>12, <1>13 DEF AccountInv

\* What is stored changes only to what was rotated from it, or is given up.
LEMMA FinishStores ==
  ASSUME AccountInv, NEW c \in Clients, Finish(c), stored'.refresh # stored.refresh
  PROVE  /\ stored' = client[c].tokens
         /\ (stored = client[c].before /\ Rotated(c)) \/ stored.refresh \in lost'
<1> DEFINE k == client[c]
<1>1. stored' = k.tokens /\ k.tokens # k.before /\ (k.kind = "import" => stored = k.before)
  BY DEF Finish, StoreTokens
<1>2. CASE stored = k.before
  BY <1>1, <1>2 DEF Rotated
<1>3. CASE stored # k.before
  <2>1. k.kind # "import" /\ k.pc = "store" /\ k.tokens.refresh # stored.refresh
    BY <1>1, <1>3 DEF Finish
  <2>2. stored.refresh \in 0 .. MaxTokens /\ MaxTokens \in Nat
    BY AccountTypes, PairTypes DEF AccountInv, PairIsKept
  <2>3. stored.refresh \in GivenUp(c)
    BY <1>1, <1>3, <2>1, <2>2 DEF GivenUp
  <2>4. QED BY <1>1, <2>3 DEF Finish
<1>4. QED BY <1>2, <1>3

\* A client that holds the accepted token when it finishes stores it, finds it stored, or gives it up.
LEMMA HolderFinishes ==
  ASSUME AccountInv, NEW c \in Clients, Finish(c), client[c].tokens.refresh = accepted
  PROVE  stored'.refresh = accepted \/ accepted \in lost'
<1> DEFINE k == client[c]
<1>1. /\ AccountTypeOK /\ Rotates /\ Begun /\ Owing
      /\ k.pc \in {"store", "caught"} /\ lost' = lost \cup GivenUp(c)
  BY DEF AccountInv, PairIsKept, Finish
<1>2. /\ stored \in Pair /\ k.before \in Pair /\ k.tokens \in Pair /\ accepted \in 1 .. MaxTokens
  BY <1>1, AccountTypes, RowTypes
<1>3. CASE stored' = k.tokens
  BY <1>3
<1>4. ASSUME stored' # k.tokens PROVE stored' = stored
  BY <1>4 DEF Finish, StoreTokens
<1>5. CASE stored' # k.tokens /\ ~Rotated(c)
  BY <1>1, <1>4, <1>5 DEF Begun, Rotated
<1>6. CASE stored' # k.tokens /\ Rotated(c)
  <2>1. k.tokens # k.before
    BY <1>6 DEF Rotated
  <2>2. CASE k.kind # "import"
    <3>1. k.pc = "caught"
      BY <1>1, <1>6, <2>1, <2>2 DEF Finish, StoreTokens
    <3>2. accepted \in GivenUp(c)
      BY <1>2, <1>6, <2>2, <3>1 DEF GivenUp
    <3>3. QED BY <1>1, <3>2
  <2>3. CASE k.kind = "import"
    <3>1. stored # k.before
      BY <1>6, <2>1, <2>3 DEF Finish, StoreTokens
    <3>2. stored.access = stored.refresh /\ k.before.access = k.before.refresh
      BY <1>1, <1>6 DEF Rotates, Single
    <3>3. stored.refresh # k.before.refresh
      BY <1>2, <3>1, <3>2, SamePair
    <3>4. k.before.refresh \in lost
      BY <1>1, <1>6, <3>3 DEF Owing
    <3>5. accepted \in GivenUp(c)
      BY <1>2, <1>6, <2>3, <3>1, <3>4 DEF GivenUp
    <3>6. QED BY <1>1, <3>5
  <2>4. QED BY <2>2, <2>3
<1>7. QED BY <1>3, <1>5, <1>6

LEMMA FinishInv ==
  ASSUME AccountInv, NEW c \in Clients, Finish(c)
  PROVE  AccountInv'
<1> DEFINE k == client[c]
<1>1. /\ PairIsKept /\ AccountTypeOK /\ Numbered /\ Rotates /\ Announced /\ Begun /\ Owing /\ Apart
      /\ \A d \in Clients : Turn(client[d])
  BY DEF AccountInv, PairIsKept
<1>2. /\ client' = [client EXCEPT ![c] = Idle] /\ stored' \in {k.tokens, stored}
      /\ lost' = lost \cup GivenUp(c)
      /\ UNCHANGED <<connecting, told, rotates, accepted, fresh, issued, unanswered, connects>>
  BY DEF Finish, StoreTokens, backend
<1>3. /\ client' \in [Clients -> ClientRow] /\ client'[c] = Idle
      /\ \A d \in Clients \ {c} : client'[d] = client[d]
  BY <1>1, <1>2, AccountTypes, PairValues
<1>4. lost \subseteq lost' /\ lost' \subseteq 0 .. MaxTokens /\ accepted \in 1 .. MaxTokens
  BY <1>1, <1>2, AccountTypes DEF GivenUp
<1>5. stored' \in Pair /\ stored \in Pair
  BY <1>1, <1>2, AccountTypes, RowTypes
<1>6. AccountTypeOK'
  BY <1>1, <1>2, <1>3, <1>4, <1>5, AccountTypes, AccountTyped
<1>7. \A d \in Clients : Turn(client'[d])
  BY <1>1, <1>3, PairValues DEF Turn
<1>8. ~Rotated(c)' /\ \A d \in Clients \ {c} : Rotated(d)' <=> Rotated(d)
  BY <1>3, PairValues DEF Rotated
\* A stored token that is accepted is not replaced, unless it is given up.
<1>9. ASSUME stored.refresh = accepted PROVE stored'.refresh = accepted \/ accepted \in lost'
  <2>1. CASE stored'.refresh = stored.refresh
    BY <1>9, <2>1
  <2>2. CASE stored'.refresh # stored.refresh
    <3>1. (stored = k.before /\ Rotated(c)) \/ accepted \in lost'
      BY <1>4, <1>9, <2>2, FinishStores
    <3>2. ~(stored = k.before /\ Rotated(c))
      BY <1>1, <1>9 DEF Rotates
    <3>3. QED BY <3>1, <3>2
  <2>3. QED BY <2>1, <2>2
<1>10. PairIsKept'
  <2>1. CASE told \/ connecting.refresh = accepted \/ accepted \in lost
    BY <1>2, <1>4, <1>6, <2>1 DEF PairIsKept
  <2>2. CASE stored.refresh = accepted
    BY <1>2, <1>6, <1>9, <2>2 DEF PairIsKept
  <2>3. CASE k.tokens.refresh = accepted
    BY <1>2, <1>6, <2>3, HolderFinishes DEF PairIsKept
  <2>4. ASSUME NEW d \in Clients \ {c}, client[d].pc # "idle", client[d].tokens.refresh = accepted
        PROVE  PairIsKept'
    BY <1>2, <1>3, <1>6, <2>4 DEF PairIsKept
  <2>5. QED BY <1>1, <2>1, <2>2, <2>3, <2>4 DEF PairIsKept
<1>11. Numbered'
  <2>1. issued \in Nat
    BY <1>1, AccountTypes
  <2>2. QED BY <1>1, <1>2, <1>3, <2>1, PairValues DEF Numbered
<1>12. Rotates'
  <2>1. rotates => Single(stored')
    BY <1>1, <1>2 DEF Rotates, Single
  <2>2. ASSUME rotates, NEW d \in Clients PROVE Single(client'[d].tokens) /\ Single(client'[d].before)
    <3>1. CASE d = c
      BY <1>3, <3>1, PairValues DEF Single
    <3>2. CASE d # c
      BY <1>1, <1>3, <2>2, <3>2 DEF Rotates
    <3>3. QED BY <3>1, <3>2
  <2>3. QED BY <1>1, <1>2, <1>3, <1>8, <2>1, <2>2 DEF Rotates, Single
<1>13. Announced'
  <2>1. accepted # 0 /\ Idle.tokens.refresh = 0 /\ Idle.before.refresh = 0
    BY <1>4, PairValues
  <2>2. QED BY <1>1, <1>2, <1>3, <2>1 DEF Announced
<1>14. Begun'
  <2>1. ASSUME NEW d \in Clients, client'[d].before.refresh = accepted
        PROVE  stored'.refresh = accepted \/ accepted \in lost'
    <3>1. d # c
      BY <1>3, <1>4, <2>1, PairValues
    <3>2. stored.refresh = accepted \/ accepted \in lost
      BY <1>1, <1>3, <2>1, <3>1 DEF Begun
    <3>3. QED BY <1>4, <1>9, <3>2
  <2>2. QED BY <1>2, <2>1 DEF Begun
<1>15. Owing'
  <2>1. ASSUME NEW d \in Clients, Rotated(d)', client'[d].tokens.refresh = accepted
        PROVE  stored'.refresh = client'[d].before.refresh \/ client'[d].before.refresh \in lost'
    <3>1. d # c /\ Rotated(d) /\ client'[d] = client[d]
      BY <1>3, <1>8, <2>1
    <3>2. stored.refresh = client[d].before.refresh \/ client[d].before.refresh \in lost
      BY <1>1, <2>1, <3>1 DEF Owing
    <3>3. CASE stored'.refresh = stored.refresh \/ client[d].before.refresh \in lost
      BY <1>4, <3>1, <3>2, <3>3
    <3>4. CASE stored'.refresh # stored.refresh /\ stored.refresh = client[d].before.refresh
      <4>1. ~(stored = k.before /\ Rotated(c))
        BY <1>1, <3>1, <3>4 DEF Apart
      <4>2. QED BY <3>1, <3>4, <4>1, FinishStores
    <3>5. QED BY <3>2, <3>3, <3>4
  <2>2. QED BY <1>2, <2>1 DEF Owing
<1>16. Apart'
  BY <1>1, <1>3, <1>8 DEF Apart
<1>17. QED BY <1>7, <1>10, <1>11, <1>12, <1>13, <1>14, <1>15, <1>16 DEF AccountInv

LEMMA ConnectInv ==
  ASSUME AccountInv, PlantsRegistered \/ AccountConnected \/ ConnectFails
  PROVE  AccountInv'
<1>1. /\ PairIsKept /\ AccountTypeOK /\ Numbered /\ Rotates /\ Announced /\ Begun /\ Owing /\ Apart
      /\ \A d \in Clients : Turn(client[d])
  BY DEF AccountInv, PairIsKept
<1>2. client' = client /\ rotates' = rotates /\ lost' = lost
  BY DEF PlantsRegistered, AccountConnected, ConnectFails, backend
<1>3. (\A d \in Clients : Turn(client'[d])) /\ (\A d \in Clients : Rotated(d)' <=> Rotated(d))
  BY <1>1, <1>2 DEF Rotated
<1>4. Apart'
  BY <1>1, <1>2, <1>3 DEF Apart
<1>5. CASE PlantsRegistered
  <2>1. /\ connecting = NoPair /\ connects < MaxConnects /\ issued < MaxTokens
        /\ connects' = connects + 1 /\ issued' = issued + 1 /\ accepted' = issued'
        /\ fresh' = fresh \cup {issued'} /\ connecting' = [access |-> issued', refresh |-> issued']
        /\ UNCHANGED <<stored, told, unanswered>>
    BY <1>5 DEF PlantsRegistered
  <2>2. /\ issued \in 1 .. MaxTokens /\ MaxTokens \in Nat /\ fresh \subseteq 1 .. MaxTokens
        /\ connects \in 0 .. MaxConnects /\ MaxConnects \in Nat
    BY <1>1, AccountTypes
  <2>3. issued' \in 1 .. MaxTokens /\ connects' \in 0 .. MaxConnects
    BY <2>1, <2>2
  <2>4. connecting' \in Pair /\ connecting'.access = issued' /\ connecting'.refresh = issued'
    BY <2>1, <2>3, <2>2 DEF Pair
  <2>5. AccountTypeOK'
    BY <1>1, <1>2, <2>1, <2>2, <2>3, <2>4, AccountTypes, AccountTyped
  <2>6. PairIsKept'
    BY <2>1, <2>4, <2>5 DEF PairIsKept
  <2>7. /\ stored.refresh \in 0 .. MaxTokens
        /\ \A d \in Clients : client[d].tokens.refresh \in 0 .. MaxTokens /\ client[d].before.refresh \in 0 .. MaxTokens
    BY <1>1, AccountTypes, PairTypes, RowTypes
  <2>8. /\ stored.refresh # issued'
        /\ \A d \in Clients : client[d].tokens.refresh # issued' /\ client[d].before.refresh # issued'
    BY <1>1, <2>1, <2>2, <2>7 DEF Numbered
  <2>9. Numbered'
    BY <1>1, <1>2, <2>1, <2>2, <2>4, <2>7 DEF Numbered
  <2>10. Rotates'
    BY <1>1, <1>2, <1>3, <2>1, <2>4, <2>8 DEF Rotates, Single
  <2>11. Announced' /\ Begun' /\ Owing'
    BY <1>2, <2>1, <2>4, <2>8 DEF Announced, Begun, Owing
  <2>12. QED BY <1>3, <1>4, <2>6, <2>9, <2>10, <2>11 DEF AccountInv
<1>6. CASE AccountConnected
  <2>1. /\ connecting # NoPair /\ stored' = connecting /\ connecting' = NoPair /\ told' = FALSE
        /\ UNCHANGED <<accepted, fresh, issued, unanswered, connects>>
    BY <1>6 DEF AccountConnected, backend
  <2>2. AccountTypeOK'
    BY <1>1, <1>2, <2>1, AccountTypes, AccountTyped, PairValues
  <2>3. /\ stored'.refresh = accepted
        /\ \A d \in Clients : client[d].tokens.refresh # accepted /\ client[d].before.refresh # accepted
    BY <1>1, <2>1 DEF Announced
  <2>4. PairIsKept'
    BY <2>1, <2>2, <2>3 DEF PairIsKept
  <2>5. Numbered'
    BY <1>1, <1>2, <2>1, AccountTypes, PairValues DEF Numbered
  <2>6. Rotates'
    BY <1>1, <1>2, <1>3, <2>1, PairValues DEF Rotates, Single
  <2>7. Announced' /\ Begun' /\ Owing'
    BY <1>2, <2>1, <2>3 DEF Announced, Begun, Owing
  <2>8. QED BY <1>3, <1>4, <2>4, <2>5, <2>6, <2>7 DEF AccountInv
<1>7. CASE ConnectFails
  <2>1. /\ connecting # NoPair /\ connecting' = NoPair /\ told' = TRUE
        /\ UNCHANGED <<stored, accepted, fresh, issued, unanswered, connects>>
    BY <1>7 DEF ConnectFails, backend
  <2>2. AccountTypeOK'
    BY <1>1, <1>2, <2>1, AccountTypes, AccountTyped, PairValues
  <2>3. PairIsKept'
    BY <2>1, <2>2 DEF PairIsKept
  <2>4. Numbered'
    BY <1>1, <1>2, <2>1, AccountTypes, PairValues DEF Numbered
  <2>5. Rotates'
    BY <1>1, <1>2, <1>3, <2>1, PairValues DEF Rotates, Single
  <2>6. Announced' /\ Begun' /\ Owing'
    BY <1>1, <1>2, <1>3, <2>1 DEF Announced, Begun, Owing
  <2>7. QED BY <1>3, <1>4, <2>3, <2>4, <2>5, <2>6 DEF AccountInv
<1>8. QED BY <1>5, <1>6, <1>7

LEMMA AccountStep ==
  ASSUME AccountInv, [AccountNext]_accountVars
  PROVE  AccountInv'
<1>1. ASSUME UNCHANGED <<stored, client, connecting, told, rotates, accepted, issued, unanswered, connects, lost>>,
             fresh' \subseteq fresh
      PROVE  AccountInv'
  <2>1. /\ client' \in [Clients -> ClientRow] /\ fresh' \subseteq 1 .. MaxTokens
        /\ unanswered' \in 0 .. MaxUnanswered
    BY <1>1, AccountTypes DEF AccountInv, PairIsKept
  <2>2. \A d \in Clients : /\ client'[d].pc = "idle" <=> client[d].pc = "idle"
                           /\ UNCHANGED <<client[d].tokens, client[d].before>>
                           /\ Turn(client'[d])
    BY <1>1 DEF AccountInv
  <2>3. QED BY <1>1, <2>1, <2>2, Waits
<1>2. CASE AccessExpires
  BY <1>1, <1>2 DEF AccessExpires
<1>3. CASE UNCHANGED accountVars
  BY <1>1, <1>3 DEF accountVars
<1>4. ASSUME NEW c \in Clients, BeginSome(c) PROVE AccountInv'
  BY <1>4, BeginInv DEF BeginSome, GetEnergyDashboard, ImportChunk, RequestBackendHistoryBackfill,
     RefreshLegacyValues, EnsureMarketCoverage, IssueInverterCommand, SyncControlProfile
<1>5. ASSUME NEW c \in Clients, Request(c) \/ Refresh(c) \/ Finish(c) PROVE AccountInv'
  BY <1>5, RequestWaits, RefreshInv, FinishInv
<1>6. CASE PlantsRegistered \/ AccountConnected \/ ConnectFails
  BY <1>6, ConnectInv
<1>7. QED BY <1>2, <1>3, <1>4, <1>5, <1>6 DEF AccountNext

\* The refresh token the backend accepts is stored, in the hands of a client at work or of the connection
\* being made, unless the user was told that connecting failed or the code gave it up in a way that
\* GivenUp names (history-import.ts:71-75, energy/service.ts:117-135): for any number of clients of every
\* kind, tokens, requests that are not answered, expirations and registrations.
THEOREM PairIsNeverLost == AccountSpec => []PairIsKept
<1>1. AccountInv /\ [AccountNext]_accountVars => AccountInv'
  BY AccountStep
<1>2. AccountSpec => []AccountInv
  BY <1>1, AccountInit1, PTL DEF AccountSpec
<1>3. AccountInv => PairIsKept
  BY DEF AccountInv
<1>4. QED BY <1>2, <1>3, PTL

=============================================================================
