------------------------------ MODULE KeyAgent ------------------------------
(***************************************************************************)
(* The agent that reads the API key of a SolaX account from the portal     *)
(* (src/scripts/solax-key-agent).                                          *)
(*                                                                         *)
(* An extraction logs in and runs the current locator.  When that fails,   *)
(* it logs in once more, explores the portal, has a locator written and    *)
(* tries it in the same session, a few times; the locator that found the   *)
(* key is promoted: the one before is archived, the new one is written     *)
(* beside it and renamed.  The server admits an extraction while none is   *)
(* under way, which it finds out before the request has arrived in full.   *)
(*                                                                         *)
(* A locator is known by the layout of the portal it is written for.       *)
(***************************************************************************)
EXTENDS Naturals, FiniteSets

CONSTANTS
  Extractions,   \* requests to the server
  MaxAttempts,   \* maxAttempts of a discovery
  MaxMoves,      \* bound: how often SolaX moves the key
  AgentFaults    \* bound: crashes of the agent

ASSUME KeyAgentAssumption ==
  MaxAttempts \in Nat \ {0} /\ MaxMoves \in Nat /\ AgentFaults \in Nat

VARIABLES
  portal,        \* the layout of the portal
  active,        \* the flag of the server
  extraction,    \* what each extraction holds
  current,       \* current.mjs
  next,          \* current.next.mjs
  history,       \* the locators in the history directory
  validated,     \* locators that have found a key in a session
  promoted,      \* locators that were renamed to current.mjs
  superseded,    \* locators that were replaced by one
  overlapped,    \* two extractions have been under way at one time
  agentFaults

agentVars == <<portal, active, extraction, current, next, history, validated, promoted, superseded,
               overlapped, agentFaults>>

Locators == 0 .. MaxMoves
Default == 0    \* locator.default.mjs

\* A file: what was written into it last, and the extractions that have it open for writing.
Missing == [state |-> "missing", script |-> Default, open |-> {}]
NotExtracting == [pc |-> "idle", logins |-> 0, attempt |-> 0, saw |-> Default, script |-> Default]

UnderWay == {e \in Extractions : extraction[e].pc \notin {"idle", "receiving"}}

AgentInit ==
  /\ portal = 0 /\ active = FALSE
  /\ extraction = [e \in Extractions |-> NotExtracting]
  /\ current = Missing /\ next = Missing
  /\ history = {} /\ validated = {} /\ promoted = {} /\ superseded = {}
  /\ overlapped = FALSE /\ agentFaults = 0

Extract(e, pc) == extraction' = [extraction EXCEPT ![e].pc = pc]

\* An answer, whether the key was found or not; the flag is cleared for all.
Answer(e) ==
  /\ extraction' = [extraction EXCEPT ![e] = NotExtracting]
  /\ active' = FALSE

(***************************************************************************)
(* The server                                                              *)
(***************************************************************************)

\* A request that finds the flag set is answered 429 and changes nothing.
HandleRequest(e) ==
  /\ extraction[e].pc = "idle" /\ ~active
  /\ Extract(e, "receiving")
  /\ UNCHANGED <<portal, active, current, next, history, validated, promoted, superseded, overlapped, agentFaults>>

\* The body is there: the flag is set, and cleared at once by a request that names no account.
EndOfRequest(e) ==
  /\ extraction[e].pc = "receiving"
  /\ \/ /\ active' = TRUE
        /\ Extract(e, "ensure")
        /\ overlapped' = (overlapped \/ UnderWay # {})
     \/ Answer(e) /\ UNCHANGED overlapped
  /\ UNCHANGED <<portal, current, next, history, validated, promoted, superseded, agentFaults>>

\* The body is too large, or the connection is lost before its end.
DestroyRequest(e) ==
  /\ extraction[e].pc = "receiving"
  /\ Extract(e, "idle")
  /\ UNCHANGED <<portal, active, current, next, history, validated, promoted, superseded, overlapped, agentFaults>>

(***************************************************************************)
(* Files                                                                   *)
(***************************************************************************)

\* Opened for writing: the file is there and empty.
Opened(file, e) == [file EXCEPT !.state = "empty", !.open = @ \cup {e}]

\* What another writer left beyond the end of the shorter text stays.
Written(file, e, s) ==
  {[state |-> state, script |-> s, open |-> file.open \ {e}] :
     state \in IF file.state = "empty" \/ file.script = s THEN {"whole"} ELSE {"whole", "mixed"}}

(***************************************************************************)
(* The engine                                                              *)
(***************************************************************************)

\* ensureCurrent: the seed is copied where there is no current locator, in whatever state.
EnsureCurrent(e) ==
  /\ extraction[e].pc = "ensure"
  /\ IF current.state = "missing"
     THEN current' = Opened(current, e) /\ Extract(e, "copy")
     ELSE Extract(e, "locate") /\ UNCHANGED current
  /\ UNCHANGED <<portal, active, next, history, validated, promoted, superseded, overlapped, agentFaults>>

\* A file that has been renamed over in the meantime is written for nobody.
CopyDefault(e) ==
  /\ extraction[e].pc = "copy"
  /\ current' \in IF e \in current.open THEN Written(current, e, Default) ELSE {current}
  /\ Extract(e, "locate")
  /\ UNCHANGED <<portal, active, next, history, validated, promoted, superseded, overlapped, agentFaults>>

\* Every session logs in once (withSession).
LogIn(e, rec) == extraction' = [extraction EXCEPT ![e] = [rec EXCEPT !.logins = @ + 1]]

\* The key is where the locator looks for it.
Finds(state, script) == state = "whole" /\ script = portal

\* The current locator in a session of its own.  It may fail for any reason: a refused login, a
\* browser that does not start, a key that is too slow to appear.
RunExtraction(e) ==
  /\ extraction[e].pc = "locate"
  /\ \/ Finds(current.state, current.script) /\ Answer(e)
     \/ LogIn(e, [extraction[e] EXCEPT !.pc = "discover"]) /\ UNCHANGED active
  /\ UNCHANGED <<portal, current, next, history, validated, promoted, superseded, overlapped, agentFaults>>

\* discover: another session, and the evidence of an exploration.
ExploreForToken(e) ==
  /\ extraction[e].pc = "discover"
  /\ \/ Answer(e)
     \/ LogIn(e, [extraction[e] EXCEPT !.pc = "author", !.attempt = 1, !.saw = portal]) /\ UNCHANGED active
  /\ UNCHANGED <<portal, current, next, history, validated, promoted, superseded, overlapped, agentFaults>>

NextAttempt(e) == extraction' = [extraction EXCEPT ![e].pc = "author", ![e].attempt = @ + 1]

\* A locator written from the evidence, right or wrong; none, or one too short, is an attempt too.
InvokeCodexDiscovery(e) ==
  /\ extraction[e].pc = "author"
  /\ IF extraction[e].attempt > MaxAttempts THEN Answer(e)
     ELSE /\ \/ NextAttempt(e)
             \/ \E s \in 0 .. extraction[e].saw :
                  extraction' = [extraction EXCEPT ![e].pc = "validate", ![e].script = s]
          /\ UNCHANGED active
  /\ UNCHANGED <<portal, current, next, history, validated, promoted, superseded, overlapped, agentFaults>>

\* In the same session.
RunLocatorOnPage(e) ==
  LET s == extraction[e].script IN
  /\ extraction[e].pc = "validate"
  /\ \/ /\ Finds("whole", s)
        /\ extraction' = [extraction EXCEPT ![e] = [NotExtracting EXCEPT !.pc = "archive", !.script = s]]
        /\ validated' = validated \cup {s}
     \/ NextAttempt(e) /\ UNCHANGED validated
  /\ UNCHANGED <<portal, active, current, next, history, promoted, superseded, overlapped, agentFaults>>

(***************************************************************************)
(* promote                                                                 *)
(***************************************************************************)

\* A current locator that is empty is not worth keeping.
Archive(e) ==
  /\ extraction[e].pc = "archive"
  /\ history' = IF current.state = "whole" THEN history \cup {current.script} ELSE history
  /\ Extract(e, "open")
  /\ UNCHANGED <<portal, active, current, next, validated, promoted, superseded, overlapped, agentFaults>>

\* Mutant: the new locator is renamed before it is written (an await is missing).
OpenUnwaited(e) ==
  /\ extraction[e].pc = "open"
  /\ next' = Opened(next, e)
  /\ Extract(e, "rename")
  /\ UNCHANGED <<portal, active, current, history, validated, promoted, superseded, overlapped, agentFaults>>

\* writeFile empties the file and fills it.
OpenNext(e) ==
  /\ extraction[e].pc = "open"
  /\ next' = Opened(next, e)
  /\ Extract(e, "write")
  /\ UNCHANGED <<portal, active, current, history, validated, promoted, superseded, overlapped, agentFaults>>

\* Another extraction may have renamed the open file.
WriteNext(e) ==
  /\ extraction[e].pc = "write"
  /\ next' \in IF e \in next.open THEN Written(next, e, extraction[e].script) ELSE {next}
  /\ current' \in IF e \in current.open THEN Written(current, e, extraction[e].script) ELSE {current}
  /\ Extract(e, "rename")
  /\ UNCHANGED <<portal, active, history, validated, promoted, superseded, overlapped, agentFaults>>

\* The promotion fails where another one has renamed the file.
Rename(e) ==
  /\ extraction[e].pc = "rename"
  /\ IF next.state = "missing" THEN UNCHANGED <<current, next, promoted, superseded>>
     ELSE /\ current' = next /\ next' = Missing
          /\ promoted' = promoted \cup {next.script}
          /\ superseded' = IF current.state = "whole" THEN superseded \cup {current.script} ELSE superseded
  /\ Answer(e)
  /\ UNCHANGED <<portal, history, validated, overlapped, agentFaults>>

(***************************************************************************)
(* The world                                                               *)
(***************************************************************************)

PortalMoves ==
  /\ portal < MaxMoves /\ portal' = portal + 1
  /\ UNCHANGED <<active, extraction, current, next, history, validated, promoted, superseded, overlapped, agentFaults>>

\* The files stay as they are.
AgentCrash ==
  /\ agentFaults < AgentFaults /\ agentFaults' = agentFaults + 1
  /\ extraction' = [e \in Extractions |-> NotExtracting]
  /\ active' = FALSE
  /\ current' = [current EXCEPT !.open = {}] /\ next' = [next EXCEPT !.open = {}]
  /\ UNCHANGED <<portal, history, validated, promoted, superseded, overlapped>>

Promote(e) == Archive(e) \/ OpenNext(e) \/ WriteNext(e) \/ Rename(e)

AgentStep(e) ==
  \/ HandleRequest(e) \/ EndOfRequest(e) \/ DestroyRequest(e)
  \/ EnsureCurrent(e) \/ CopyDefault(e) \/ RunExtraction(e)
  \/ ExploreForToken(e) \/ InvokeCodexDiscovery(e) \/ RunLocatorOnPage(e)
  \/ Promote(e)

AgentNext == (\E e \in Extractions : AgentStep(e)) \/ PortalMoves \/ AgentCrash

AgentSpec == AgentInit /\ [][AgentNext]_agentVars

(***************************************************************************)
(* Properties                                                              *)
(***************************************************************************)

Files == [state : {"missing", "empty", "whole", "mixed"}, script : Locators, open : SUBSET Extractions]

AgentTypeOK ==
  /\ portal \in Locators /\ active \in BOOLEAN
  /\ extraction \in
       [Extractions ->
          [pc : {"idle", "receiving", "ensure", "copy", "locate", "discover", "author", "validate",
                 "archive", "open", "write", "rename"},
           logins : 0 .. 2, attempt : 0 .. MaxAttempts + 1, saw : Locators, script : Locators]]
  /\ current \in Files /\ next \in Files
  /\ history \subseteq Locators /\ validated \subseteq Locators
  /\ promoted \subseteq Locators /\ superseded \subseteq Locators
  /\ overlapped \in BOOLEAN /\ agentFaults \in 0 .. AgentFaults

\* Whenever the agent dies, the current locator is one that has found the key in a session, and
\* whole ("a crash never leaves a half-written current locator behind", engine.mjs:62-63), only the
\* seed of the first run excepted; every locator it has replaced is in the history ("archived, not
\* lost", engine.test.mjs:57).  An extraction logs in at most twice, however many locators it tries
\* (login.mjs:1-4).  All of it holds as long as no two extractions have been under way at one time.
LocatorIsKept ==
  /\ AgentTypeOK
  /\ ~overlapped =>
       /\ promoted # {} => current.state = "whole" /\ current.script \in promoted
       /\ promoted \subseteq validated
       /\ superseded \subseteq history

=============================================================================
