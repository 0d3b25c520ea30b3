------------------------------ MODULE Accounts ------------------------------
(***************************************************************************)
(* Accounts: registration and the verification of the address, sessions,   *)
(* the recovery of passwords, and the administrator's changes of access.   *)
(*   src/src/auth.ts, src/src/lib/auth/guards.ts                           *)
(*   src/src/app/api/auth/...  and  src/src/app/api/admin/users/[id]       *)
(*                                                                         *)
(* A session is a signed token that carries the authVersion of the account *)
(* as it was when the password was compared; every use compares it with    *)
(* the row.  What a request reads first and uses after an await is kept in *)
(* the request.  Passwords are numbered: 1 is the first one.               *)
(***************************************************************************)
EXTENDS Integers, FiniteSets

CONSTANTS
  Users,
  Seeded,      \* the users the seed creates: verified administrators
  Links,       \* tokens mailed for verification or recovery
  Sessions,    \* cookies
  Changes,     \* requests of the administrators' PATCH in flight
  MaxVersion   \* bound: authVersion of an account

\* The seed creates at least one administrator.
ASSUME AccountsAssumption == Seeded \subseteq Users /\ Seeded # {} /\ MaxVersion \in Nat

VARIABLES
  users,     \* User rows
  links,     \* EmailVerification and PasswordReset rows
  sessions,  \* the tokens of the cookies, or logins that compare a password
  recovery,  \* a password/reset request past its first read, by link
  changes    \* PATCH requests past apiAdmin

accountVars == <<users, links, sessions, recovery, changes>>

NoUser == [status |-> "ABSENT", role |-> "USER", verified |-> FALSE, version |-> 0, password |-> 0]
NoLink == [kind |-> "none", user |-> "none", state |-> "none"]
NoSession == [pc |-> "none"]
NoChange == [pc |-> "none"]

AccountsInit ==
  /\ users = [u \in Users |->
               IF u \in Seeded
               THEN [status |-> "ACTIVE", role |-> "ADMIN", verified |-> TRUE, version |-> 0, password |-> 1]
               ELSE NoUser]
  /\ links = [l \in Links |-> NoLink]
  /\ sessions = [c \in Sessions |-> NoSession]
  /\ recovery = {}
  /\ changes = [x \in Changes |-> NoChange]

(***************************************************************************)
(* Registration and verification                                           *)
(***************************************************************************)

Usable(l, kind) == links[l].kind = kind /\ links[l].state = "live"
Retired(kind, u, state) ==
  [l \in Links |-> IF Usable(l, kind) /\ links[l].user = u THEN [links[l] EXCEPT !.state = state] ELSE links[l]]
Fresh(l) == links[l] = NoLink
Issued(l, kind, u) == [kind |-> kind, user |-> u, state |-> "live"]

\* An address that is taken gets the same answer and changes nothing.
Register(u, l) ==
  /\ users[u].status = "ABSENT"
  /\ Fresh(l)
  /\ users' = [users EXCEPT ![u] = [NoUser EXCEPT !.status = "PENDING_VERIFICATION", !.password = 1]]
  /\ links' = [links EXCEPT ![l] = Issued(l, "verify", u)]
  /\ UNCHANGED <<sessions, recovery, changes>>

\* The unconsumed links are deleted, a new one is sent.
ResendVerification(u, l) ==
  /\ users[u].status = "PENDING_VERIFICATION"
  /\ ~users[u].verified
  /\ Fresh(l)
  /\ links' = [Retired("verify", u, "gone") EXCEPT ![l] = Issued(l, "verify", u)]
  /\ UNCHANGED <<users, sessions, recovery, changes>>

AsVerified(row) == [row EXCEPT !.status = "ACTIVE", !.verified = TRUE, !.version = @ + 1]

\* Both updates must find their row, or neither is kept.
VerifyEmail(l) ==
  LET u == links[l].user IN
  /\ Usable(l, "verify")
  /\ users[u].status = "PENDING_VERIFICATION"
  /\ users[u].version < MaxVersion
  /\ links' = [links EXCEPT ![l].state = "consumed"]
  /\ users' = [users EXCEPT ![u] = AsVerified(@)]
  /\ UNCHANGED <<sessions, recovery, changes>>

LinkExpires(l) ==
  /\ links[l].state = "live"
  /\ links' = [links EXCEPT ![l].state = "expired"]
  /\ UNCHANGED <<users, sessions, recovery, changes>>

(***************************************************************************)
(* Sessions                                                                *)
(***************************************************************************)

\* authorize reads the row; the comparison of the password follows.
Authorize(c, u, p) ==
  /\ sessions[c].pc = "none"
  /\ users[u].status = "ACTIVE" /\ users[u].verified
  /\ sessions' = [sessions EXCEPT ![c] =
       [pc |-> "comparing", user |-> u, version |-> users[u].version,
        hash |-> users[u].password, given |-> p]]
  /\ UNCHANGED <<users, links, recovery, changes>>

\* The token carries what was read before the comparison.
Compare(c) ==
  /\ sessions[c].pc = "comparing"
  /\ sessions' = [sessions EXCEPT ![c] =
       IF @.given = @.hash THEN [@ EXCEPT !.pc = "token"] ELSE NoSession]
  /\ UNCHANGED <<users, links, recovery, changes>>

\* The jwt callback: what the row says now.
Accepted(c) ==
  /\ sessions[c].pc = "token"
  /\ users[sessions[c].user].status = "ACTIVE"
  /\ users[sessions[c].user].version = sessions[c].version

SignOut(c) ==
  /\ sessions[c].pc = "token"
  /\ sessions' = [sessions EXCEPT ![c] = NoSession]
  /\ UNCHANGED <<users, links, recovery, changes>>

(***************************************************************************)
(* The recovery of a password                                              *)
(***************************************************************************)

\* The links sent before are consumed; the mail is queued after the transaction.
ForgotPassword(u, l) ==
  /\ users[u].status = "ACTIVE"
  /\ Fresh(l)
  /\ links' = [Retired("reset", u, "consumed") EXCEPT ![l] = Issued(l, "reset", u)]
  /\ UNCHANGED <<users, sessions, recovery, changes>>

\* The request finds the link, whatever its state, and hashes the new password.
OpenReset(l) ==
  /\ links[l].kind = "reset"
  /\ l \notin recovery
  /\ recovery' = recovery \cup {l}
  /\ UNCHANGED <<users, links, sessions, changes>>

\* Mutant: the sessions opened with the old password go on.
WithPasswordOnly(row) == [row EXCEPT !.password = @ + 1]

WithPassword(row) == [row EXCEPT !.password = @ + 1, !.version = @ + 1]

ResetPassword(l) ==
  LET u == links[l].user IN
  /\ l \in recovery
  /\ recovery' = recovery \ {l}
  /\ IF links[l].state = "live"
     THEN /\ users[u].version < MaxVersion
          /\ links' = Retired("reset", u, "consumed")
          /\ users' = [users EXCEPT ![u] = WithPassword(@)]
     ELSE UNCHANGED <<links, users>>
  /\ UNCHANGED <<sessions, changes>>

(***************************************************************************)
(* PATCH /api/admin/users/[id]                                             *)
(***************************************************************************)
Roles == {"USER", "ADMIN", "same"}
States == {"ACTIVE", "DISABLED", "same"}

\* apiAdmin: the session and the role are looked at once, before the transaction.
BeginChange(x, c, u, role, state) ==
  /\ changes[x].pc = "none"
  /\ Accepted(c)
  /\ users[sessions[c].user].role = "ADMIN"
  /\ users[u].status # "ABSENT"
  /\ changes' = [changes EXCEPT ![x] =
       [pc |-> "tx", by |-> sessions[c].user, user |-> u, role |-> role, state |-> state]]
  /\ UNCHANGED <<users, links, sessions, recovery>>

\* Mutant: administrators who are disabled count.
AllAdmins == {u \in Users : users[u].role = "ADMIN"}

ActiveAdmins == {u \in Users : users[u].role = "ADMIN" /\ users[u].status = "ACTIVE"}

TakesAway(r) == r.role = "USER" \/ r.state = "DISABLED"
Allowed(r) ==
  TakesAway(r) => /\ r.user # r.by
                  /\ users[r.user].role = "ADMIN" => Cardinality(ActiveAdmins) > 1

AsPatched(row, r) ==
  [row EXCEPT !.role = IF r.role = "same" THEN @ ELSE r.role,
              !.status = IF r.state = "same" THEN @ ELSE r.state,
              !.version = @ + 1]

ChangeAccess(x) ==
  LET r == changes[x] IN
  /\ r.pc = "tx"
  /\ changes' = [changes EXCEPT ![x] = NoChange]
  /\ IF Allowed(r)
     THEN /\ users[r.user].version < MaxVersion
          /\ users' = [users EXCEPT ![r.user] = AsPatched(@, r)]
     ELSE UNCHANGED users
  /\ UNCHANGED <<links, sessions, recovery>>

Passwords ==
  \/ \E u \in Users, l \in Links : Register(u, l) \/ ResendVerification(u, l) \/ ForgotPassword(u, l)
  \/ \E l \in Links : VerifyEmail(l) \/ LinkExpires(l) \/ OpenReset(l) \/ ResetPassword(l)

Cookies ==
  \/ \E c \in Sessions, u \in Users : \E p \in {users[u].password, users[u].password - 1} : Authorize(c, u, p)
  \/ \E c \in Sessions : Compare(c) \/ SignOut(c)

Access ==
  \/ \E x \in Changes, c \in Sessions, u \in Users, role \in Roles, state \in States :
       BeginChange(x, c, u, role, state)
  \/ \E x \in Changes : ChangeAccess(x)

AccountsNext == Passwords \/ Cookies \/ Access

AccountsSpec == AccountsInit /\ [][AccountsNext]_accountVars

(***************************************************************************)
(* Properties                                                              *)
(***************************************************************************)
AccountsTypeOK ==
  /\ users \in [Users -> [status : {"ABSENT", "PENDING_VERIFICATION", "ACTIVE", "DISABLED"},
                          role : {"USER", "ADMIN"}, verified : BOOLEAN,
                          version : 0..MaxVersion, password : 0..(MaxVersion + 1)]]
  /\ \A l \in Links :
       links[l] = NoLink \/
       links[l] \in [kind : {"verify", "reset"}, user : Users,
                     state : {"live", "consumed", "expired", "gone"}]
  /\ \A c \in Sessions :
       sessions[c] = NoSession \/
       sessions[c] \in [pc : {"comparing", "token"}, user : Users, version : 0..MaxVersion,
                        hash : 1..(MaxVersion + 1), given : 0..(MaxVersion + 1)]
  /\ recovery \subseteq Links
  /\ \A x \in Changes :
       changes[x] = NoChange \/
       changes[x] \in [pc : {"tx"}, by : Users, user : Users, role : Roles, state : States]

\* However administrators take away each other's access, a request under way when its sender
\* loses his own included, one active administrator remains.
SomeAdminRemains ==
  /\ AccountsTypeOK
  /\ \E u \in Users : users[u].role = "ADMIN" /\ users[u].status = "ACTIVE"

\* A session that is accepted was opened with the password the account has now: a login that
\* was comparing the old one while it was changed comes to nothing.
SessionKnowsPassword ==
  \A c \in Sessions : Accepted(c) => sessions[c].given = users[sessions[c].user].password

=============================================================================
