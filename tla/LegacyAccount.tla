--------------------------- MODULE LegacyAccount ---------------------------
(***************************************************************************)
(* The token pair of a connected energy account and everybody who uses it  *)
(* (legacy-client.ts and its callers).  A client reads the pair from the   *)
(* connection, sends its requests with it, refreshes it when the access    *)
(* token is refused, and stores the pair it ends with, each kind of client *)
(* in its own way.  The backend may rotate the refresh token with every    *)
(* refresh; it then refuses the one before (history-import.ts:71-75).      *)
(*                                                                         *)
(* A client that is killed between a refresh and its store loses the pair  *)
(* whatever the code does: deaths are left out.                            *)
(*                                                                         *)
(* A token is the number of the answer that issued it.  The contents of    *)
(* requests and the rows the clients write besides the pair are left out.  *)
(***************************************************************************)
EXTENDS Naturals

CONSTANTS
  Clients,       \* processes that may hold the pair at one time
  Kinds,         \* the kinds of client that appear
  MaxTokens,     \* bound: answers of the backend that issue tokens
  MaxUnanswered,   \* bound: requests the backend does not answer
  MaxConnects    \* bound: times the user connects the account again

ASSUME AccountAssumption == MaxTokens \in Nat \ {0} /\ MaxUnanswered \in Nat /\ MaxConnects \in Nat

VARIABLES
  stored,        \* EnergyConnection: the pair, both tokens encrypted
  client,
  connecting,    \* connectLegacyEnergyAccount between registration and transaction
  told,          \* the user was last told that connecting has failed
  rotates,       \* external: whether a refresh issues a new refresh token
  accepted,      \* external: the refresh token the backend accepts
  fresh,         \* external: access tokens that are not expired
  issued, unanswered, connects,
  lost           \* refresh tokens that were given up in one of the ways the code has for that

accountVars == <<stored, client, connecting, told, rotates, accepted, fresh, issued, unanswered, connects, lost>>
backend == <<rotates, accepted, fresh, issued>>

-----------------------------------------------------------------------------
Pair == [access: 0..MaxTokens, refresh: 0..MaxTokens]
NoPair == [access |-> 0, refresh |-> 0]
FirstPair == [access |-> 1, refresh |-> 1]
Idle == [pc |-> "idle", kind |-> "none", before |-> NoPair, tokens |-> NoPair, left |-> 0, got |-> 0]

\* Requests of a client, as few as distinguish one, all and some of them: an import, the profile
\* and the market prices need one; a command is followed by its verification, the values of a
\* profile by the question whether they were taken over.
Requests(kind) == IF kind \in {"import", "profile", "market"} THEN 1 ELSE 2

\* getEnergyDashboard and requestBackendHistoryBackfill go on after a request that failed.
Tolerant(kind) == kind \in {"dashboard", "backfill"}

AccountInit ==
  /\ stored = FirstPair
  /\ client = [c \in Clients |-> Idle]
  /\ connecting = NoPair /\ told = FALSE
  /\ rotates \in BOOLEAN
  /\ accepted = 1 /\ fresh = {1} /\ issued = 1
  /\ unanswered = 0 /\ connects = 0
  /\ lost = {}

\* Access tokens reach the end of their life (accessTokenExpiresAt), which is
\* longer than the one request that follows a refresh.
AccessExpires ==
  /\ fresh' = {client[c].tokens.access : c \in {x \in Clients : client[x].pc = "again"}} \cap fresh
  /\ fresh' # fresh
  /\ UNCHANGED <<stored, client, connecting, told, rotates, accepted, issued, unanswered, connects, lost>>

-----------------------------------------------------------------------------
(* A client, from the read of the connection to what it stores.             *)

\* tokensFromConnection
Begin(c, kind) ==
  /\ kind \in Kinds
  /\ client[c].pc = "idle"
  /\ client' = [client EXCEPT ![c] =
       [pc |-> "request", kind |-> kind, before |-> stored, tokens |-> stored,
        left |-> Requests(kind), got |-> 0]]
  /\ UNCHANGED <<stored, connecting, told, backend, unanswered, connects, lost>>

GetEnergyDashboard(c) == Begin(c, "dashboard")
ImportChunk(c) == Begin(c, "import")
RequestBackendHistoryBackfill(c) == Begin(c, "backfill")
RefreshLegacyValues(c) == Begin(c, "profile")
EnsureMarketCoverage(c) == Begin(c, "market")
IssueInverterCommand(c) == Begin(c, "command")
SyncControlProfile(c) == Begin(c, "sync")

BeginSome(c) ==
  \/ GetEnergyDashboard(c) \/ ImportChunk(c) \/ RequestBackendHistoryBackfill(c)
  \/ RefreshLegacyValues(c) \/ EnsureMarketCoverage(c)
  \/ IssueInverterCommand(c) \/ SyncControlProfile(c)

\* What follows the end of a request: the next one, the store, or the catch.
Ended(c, ok) ==
  LET k == client[c]
      got == IF ok THEN k.got + 1 ELSE k.got IN
  client' = [client EXCEPT ![c].left = @ - 1, ![c].got = got, ![c].pc =
    IF ~ok /\ ~Tolerant(k.kind) THEN "caught"
    ELSE IF k.left > 1 THEN "request"
    ELSE IF k.kind = "dashboard" /\ got = 0 THEN "caught"
    ELSE "store"]

NotAnswered(c) ==
  /\ unanswered < MaxUnanswered /\ unanswered' = unanswered + 1
  /\ Ended(c, FALSE)

Answered(c) == client[c].tokens.access \in fresh /\ Ended(c, TRUE)

\* authenticatedEncryptedRequest and its like: a 401 asks for a refresh, once.
Unauthorized(c) ==
  /\ client[c].pc = "request" /\ client[c].tokens.access \notin fresh
  /\ client' = [client EXCEPT ![c].pc = "refresh"]

Request(c) ==
  /\ client[c].pc \in {"request", "again"}
  /\ \/ (Answered(c) \/ Unauthorized(c)) /\ UNCHANGED unanswered
     \/ NotAnswered(c)
  /\ UNCHANGED <<stored, connecting, told, backend, connects, lost>>

\* refresh: the answer carries a new access token and, it may be, a new refresh token.
Refresh(c) ==
  LET k == client[c] IN
  /\ k.pc = "refresh"
  /\ \/ /\ k.tokens.refresh = accepted
        /\ issued < MaxTokens
        /\ issued' = issued + 1
        /\ accepted' = IF rotates THEN issued' ELSE accepted
        /\ fresh' = fresh \cup {issued'}
        /\ client' = [client EXCEPT ![c].pc = "again",
             ![c].tokens = [access |-> issued', refresh |-> accepted']]
        /\ UNCHANGED unanswered
     \/ /\ k.tokens.refresh # accepted
        /\ Ended(c, FALSE)
        /\ UNCHANGED <<accepted, fresh, issued, unanswered>>
     \/ NotAnswered(c) /\ UNCHANGED <<accepted, fresh, issued>>
  /\ UNCHANGED <<stored, connecting, told, rotates, connects, lost>>

StoreTokensOfSuccess(c) ==  \* mutant: the import stores the pair only when it was answered
  LET k == client[c] IN
  stored' = IF k.tokens # k.before /\ (k.kind = "import" => stored = k.before /\ k.pc = "store")
            THEN k.tokens ELSE stored

\* The history import compares the ciphertext of the refresh token, which every
\* store renews; all the others write over whatever is there.
StoreTokens(c) ==
  LET k == client[c] IN
  stored' = IF k.tokens # k.before /\ (k.kind = "import" => stored = k.before)
            THEN k.tokens ELSE stored

Rotated(c) == client[c].tokens.refresh # client[c].before.refresh

\* The ways in which the code gives up a pair: a client other than the history import fails after it
\* has rotated the pair; such a client writes over a pair that it has not seen; and the import, which
\* writes over none, keeps back what it has rotated from a pair that was written over.
GivenUp(c) ==
  LET k == client[c] IN
  {t \in 0..MaxTokens :
     \/ k.pc = "caught" /\ k.kind # "import" /\ Rotated(c) /\ t = k.tokens.refresh
     \/ /\ k.pc = "store" /\ k.kind # "import" /\ k.tokens # k.before
        /\ stored # k.before /\ k.tokens.refresh # stored.refresh /\ t = stored.refresh
     \/ /\ k.kind = "import" /\ Rotated(c) /\ stored # k.before
        /\ k.before.refresh \in lost /\ t = k.tokens.refresh}

\* After a failure only the history import, in its finally, stores the pair.
Finish(c) ==
  /\ client[c].pc \in {"store", "caught"}
  /\ IF client[c].pc = "store" \/ client[c].kind = "import"
     THEN StoreTokens(c) ELSE UNCHANGED stored
  /\ lost' = lost \cup GivenUp(c)
  /\ client' = [client EXCEPT ![c] = Idle]
  /\ UNCHANGED <<connecting, told, backend, unanswered, connects>>

-----------------------------------------------------------------------------
(* The user connects the account again.                                     *)

\* registerPlants: the registration is committed by the backend, whose new pair
\* replaces the one before.
PlantsRegistered ==
  /\ connecting = NoPair /\ connects < MaxConnects /\ issued < MaxTokens
  /\ connects' = connects + 1
  /\ issued' = issued + 1 /\ accepted' = issued' /\ fresh' = fresh \cup {issued'}
  /\ connecting' = [access |-> issued', refresh |-> issued']
  /\ UNCHANGED <<stored, client, told, rotates, unanswered, lost>>

\* connectLegacyEnergyAccount: the pair is written with the plants and the evidence.
AccountConnected ==
  /\ connecting # NoPair
  /\ stored' = connecting
  /\ connecting' = NoPair
  /\ told' = FALSE
  /\ UNCHANGED <<client, backend, unanswered, connects, lost>>

\* The answer of the registration is lost or is not accepted, a plant belongs to
\* somebody else, or the transaction fails: the new pair is gone.
ConnectFails ==
  /\ connecting # NoPair
  /\ connecting' = NoPair
  /\ told' = TRUE
  /\ UNCHANGED <<stored, client, backend, unanswered, connects, lost>>

AccountNext ==
  \/ AccessExpires
  \/ \E c \in Clients : BeginSome(c) \/ Request(c) \/ Refresh(c) \/ Finish(c)
  \/ PlantsRegistered
  \/ AccountConnected \/ ConnectFails

AccountSpec == AccountInit /\ [][AccountNext]_accountVars

-----------------------------------------------------------------------------
AccountTypeOK ==
  /\ stored \in Pair /\ connecting \in Pair
  /\ client \in [Clients ->
       [pc: {"idle", "request", "refresh", "again", "store", "caught"}, kind: Kinds \cup {"none"},
        before: Pair, tokens: Pair, left: 0..2, got: 0..2]]
  /\ told \in BOOLEAN /\ rotates \in BOOLEAN
  /\ accepted \in 1..MaxTokens /\ fresh \subseteq 1..MaxTokens /\ issued \in 1..MaxTokens
  /\ unanswered \in 0..MaxUnanswered /\ connects \in 0..MaxConnects
  /\ lost \subseteq 0..MaxTokens

\* "Persist the rotated pair even when that endpoint then rejects the request;
\* otherwise every retry starts with the invalidated pair and can never recover
\* without reconnecting the SolaX account" (history-import.ts:71-75): the refresh
\* token the backend accepts is always stored, or in the hands of a client at
\* work, or of the connection being made.  The history import keeps this through
\* every failure, and no refresh with an older pair breaks it, whoever runs
\* beside it.  It is lost only when the user was told that connecting the account
\* has failed, or in a way GivenUp names, of which none is a loss by the import
\* while nobody writes over the pair it began with.
PairIsKept ==
  /\ AccountTypeOK
  /\ \/ told
     \/ accepted \in {stored.refresh, connecting.refresh}
     \/ \E c \in Clients : client[c].pc # "idle" /\ client[c].tokens.refresh = accepted
     \/ accepted \in lost

=============================================================================
