------------------------------ MODULE Payments ------------------------------
(***************************************************************************)
(* Orders, GoPay payments and yearly renewals of one customer              *)
(* (src/src/lib/commerce/payment.ts, recurring.ts, cart.ts).               *)
(*                                                                         *)
(* A cart is checked out into a payment; the gateway is asked to create    *)
(* its own payment and its id is stored ("linked").  The truth about the   *)
(* money is at the gateway: a notification or the runner asks it for the   *)
(* state of a payment and settles the local row.  A first payment with     *)
(* consent founds a mandate, from which the runner charges renewals with   *)
(* new payments, one per attempt.  An answer of the gateway that is lost   *)
(* leaves the attempt pending: it must not be repeated.                    *)
(***************************************************************************)
EXTENDS Integers, FiniteSets

CONSTANTS
  Payments, Carts,  \* identities of rows, bounds of how many are created
  Offers,           \* offers of the service, each with its price
  FreeAccess,       \* may orders be free (PAYMENT_PROVIDER=FREE)?
  Served,           \* the customer starts with a service paid under a mandate
  Shoppers,         \* requests of the customer
  Runners,          \* calls of the internal job runner
  Notifiers,        \* handlers of the gateway's notifications
  MaxAttempts,      \* RECURRING_RENEWAL_MAX_ATTEMPTS
  MaxFaults,        \* bound on failing database updates
  None,
  Product, Empty    \* the service without an offer; nothing

Procs == Shoppers \cup Runners \cup Notifiers

ASSUME AttemptsAssumption == MaxAttempts \in Nat \ {0}
ASSUME FaultBoundAssumption == MaxFaults \in Nat
ASSUME NoneAssumption == None \notin Payments \cup Carts
ASSUME ItemsAssumption == Product # Empty /\ Product \notin Offers /\ Empty \notin Offers
ASSUME FreeAccessAssumption == FreeAccess \in BOOLEAN
ASSUME ServedAssumption == Served \in BOOLEAN

VARIABLES
  cart,     \* cart -> its status, the one item it holds and whether that is free
  pay,      \* payment -> its Payment row
  offer,    \* offer -> OFFERED, ACCEPTED or EXPIRED (validUntil passed)
  sub,      \* payment -> status of the subscription it bought
  mandate,  \* first payment -> status of the mandate it founded
  renewal,  \* payment -> the renewal of the subscription it bought
  gw,       \* payment -> state of the gateway's payment (external)
  call,     \* process -> where it is in its call
  faults    \* failed database updates so far

vars == <<cart, pay, offer, sub, mandate, renewal, gw, call, faults>>

-----------------------------------------------------------------------------
(* Rows and local states *)

Item == Offers \cup {Product, Empty}
Cart == [status: {"NONE", "OPEN", "CHECKOUT", "PAID", "CANCELED"},
         item: Item, free: BOOLEAN]
NoCart == [status |-> "NONE", item |-> Empty, free |-> FALSE]

\* Rows start PENDING; CREATED is the schema's default and never written.
\* "renews" is the payment whose subscription this attempt prolongs.
Payment == [status: {"NONE", "PENDING", "PAID", "FAILED", "CANCELED", "REFUNDED"},
            linked: BOOLEAN,
            kind: {"TRIAL", "FREE", "ONE_OFF", "MANDATE_FIRST", "MANDATE_REPEAT"},
            cart: Carts \cup {None}, item: Item,
            renews: Payments \cup {None}, mandate: Payments \cup {None}]
\* Without the gateway: the free period, and anything while access is free.
Manual == {"TRIAL", "FREE"}
NoPayment == [status |-> "NONE", linked |-> FALSE, kind |-> "ONE_OFF", cart |-> None,
              item |-> Empty, renews |-> None, mandate |-> None]

Renewal == [status: {"NONE", "SCHEDULED", "NOTICE_SENT", "CHARGE_PENDING", "RETRY",
                     "PAID", "FAILED", "CANCELED"},
            attempts: 0..MaxAttempts]
NoRenewal == [status |-> "NONE", attempts |-> 0]

\* LAPSED is ACTIVE in the database with validUntil in the past.
MandateStatus == {"NONE", "ACTIVE", "LAPSED", "EXPIRED", "REVOKED"}
Usable == {"ACTIVE", "LAPSED"}

\* TIMEOUTED is settled like CANCELED and PARTIALLY_REFUNDED like PAID.
Gateway == {"NONE", "CREATED", "PAID", "CANCELED", "REFUNDED"}

Pcs == {"idle", "manual", "order", "reopen", "store", "ask", "answer", "settle",
        "refund", "schedule", "charge", "link", "fail", "failing"}
Call == [pc: Pcs, pay: Payments \cup {None}, seen: {"unpaid", "paid"}, answer: Gateway]
Idle == [pc |-> "idle", pay |-> None, seen |-> "unpaid", answer |-> "NONE"]
At(pc, x) == [Idle EXCEPT !.pc = pc, !.pay = x]
\* The payment read before asking: was it known to have been paid?
Asking(x) == [At("ask", x) EXCEPT !.seen =
                 IF pay[x].status \in {"PAID", "REFUNDED"} THEN "paid" ELSE "unpaid"]
IsAt(p, pc) == call[p].pc = pc

Goto(p, pc) == call' = [call EXCEPT ![p].pc = pc]
Return(p) == call' = [call EXCEPT ![p] = Idle]

Attempts(x) == {y \in Payments : pay[y].renews = x}

\* The payment f, made for the cart k, serves the customer at the start.
Paid(f, k) == [NoPayment EXCEPT !.status = "PAID", !.linked = TRUE, !.cart = k,
                                !.kind = "MANDATE_FIRST", !.mandate = f]

InitWith(f, k) ==
  /\ cart = [c \in Carts |-> IF c = k THEN [NoCart EXCEPT !.status = "PAID"] ELSE NoCart]
  /\ pay = [x \in Payments |-> IF x = f THEN Paid(f, k) ELSE NoPayment]
  /\ offer = [o \in Offers |-> "OFFERED"]
  /\ sub = [x \in Payments |-> IF x = f THEN "ACTIVE" ELSE "NONE"]
  /\ mandate = [x \in Payments |-> IF x = f THEN "ACTIVE" ELSE "NONE"]
  /\ renewal = [x \in Payments |-> NoRenewal]
  /\ gw = [x \in Payments |-> IF x = f THEN "PAID" ELSE "NONE"]
  /\ call = [p \in Procs |-> Idle]
  /\ faults = 0

Init ==
  IF Served THEN \E f \in Payments, k \in Carts : InitWith(f, k) ELSE InitWith(None, None)

-----------------------------------------------------------------------------
(* Carts *)

OpenCarts == {c \in Carts : cart[c].status = "OPEN"}

GetOrCreateCart(c) ==
  /\ OpenCarts = {}
  /\ cart[c].status = "NONE"
  /\ cart' = [cart EXCEPT ![c].status = "OPEN"]
  /\ UNCHANGED <<pay, offer, sub, mandate, renewal, gw, call, faults>>

NeverServed == \A x \in Payments : sub[x] = "NONE"

InCart(c, i, free) ==
  cart' = [cart EXCEPT ![c] = [status |-> "OPEN", item |-> i, free |-> free]]

\* prepareServiceOfferOrder: the item of the cart is replaced, under its lock.
OrderOffer(c, o) ==
  /\ cart[c].status = "OPEN"
  /\ offer[o] = "OFFERED"
  /\ InCart(c, o, FALSE)
  /\ UNCHANGED <<pay, offer, sub, mandate, renewal, gw, call, faults>>

\* POST /api/cart: the free period for a new customer.  An offer that is in the
\* cart stays named by the item, only its price becomes zero.
AddProduct(c) ==
  /\ cart[c].status = "OPEN"
  /\ NeverServed
  /\ InCart(c, IF cart[c].item = Empty THEN Product ELSE cart[c].item, TRUE)
  /\ UNCHANGED <<pay, offer, sub, mandate, renewal, gw, call, faults>>

RemoveProduct(c) ==
  /\ cart[c].status = "OPEN"
  /\ cart[c].item # Empty
  /\ InCart(c, Empty, FALSE)
  /\ UNCHANGED <<pay, offer, sub, mandate, renewal, gw, call, faults>>

OfferLapses(o) ==
  /\ offer[o] = "OFFERED"
  /\ offer' = [offer EXCEPT ![o] = "EXPIRED"]
  /\ UNCHANGED <<cart, pay, sub, mandate, renewal, gw, call, faults>>

\* A cart given back becomes the open cart unless the customer has another one.
GivenBackOver(c) == "OPEN"  \* mutant: the other open cart is not looked for
GivenBack(c) == IF OpenCarts \ {c} = {} THEN "OPEN" ELSE "CANCELED"

-----------------------------------------------------------------------------
(* Settlement: finalizePaidPayment, cancelTerminalGopayPayment and           *)
(* recordGopayRefund are one transaction each, under the payment's lock.     *)

MandateConflict(x) ==
  pay[x].kind = "MANDATE_FIRST" /\ \E y \in Payments \ {x} : mandate[y] \in Usable

OfferStillOpen(x) == pay[x].item \in Offers => offer[pay[x].item] = "OFFERED"

SettleableOpenly(x) == OfferStillOpen(x) /\ ~MandateConflict(x)  \* mutant: any cart
SettleableTwice(x) ==  \* mutant: neither the offer nor the earlier trial is looked at
  cart[pay[x].cart].status = "CHECKOUT" /\ ~MandateConflict(x)
\* Anything else rolls the transaction back with an error.
Settleable(x) ==
  /\ cart[pay[x].cart].status = "CHECKOUT"
  /\ OfferStillOpen(x)
  /\ pay[x].kind = "TRIAL" => NeverServed /\ pay[x].item \notin Offers  \* offers have a price
  /\ ~MandateConflict(x)

Renewed == {"CHARGE_PENDING", "RETRY", "NOTICE_SENT"}

Grant(x) ==
  /\ pay' = [pay EXCEPT ![x].status = "PAID",
                        ![x].mandate = IF pay[x].kind = "MANDATE_FIRST" THEN x ELSE @]
  /\ cart' = [cart EXCEPT ![pay[x].cart].status = "PAID"]
  /\ offer' = [o \in Offers |-> IF o = pay[x].item THEN "ACCEPTED" ELSE offer[o]]
  /\ sub' = [sub EXCEPT ![x] = IF pay[x].kind = "TRIAL" THEN "TRIAL" ELSE "ACTIVE"]
  /\ mandate' = [mandate EXCEPT ![x] = IF pay[x].kind = "MANDATE_FIRST" THEN "ACTIVE" ELSE @]
  /\ renewal' = [y \in Payments |->
       IF y = pay[x].renews /\ renewal[y].status \in Renewed
       THEN [renewal[y] EXCEPT !.status = "PAID"] ELSE renewal[y]]

\* A refused charge of a renewal is retried unless it was the last attempt.
AfterFailure(n) == IF n >= MaxAttempts THEN "FAILED" ELSE "RETRY"

\* A renewal that still waits for the charge learns that it failed.
Refused(y) == [renewal[y] EXCEPT !.status = AfterFailure(renewal[y].attempts)]

RevocableAgain == {"PENDING", "CANCELED"}  \* mutant: a second cancellation counts
Revocable == {"PENDING"}
Cancel(x) ==
  IF pay[x].status \in Revocable
  THEN /\ pay' = [pay EXCEPT ![x].status = "CANCELED"]
       /\ renewal' = [y \in Payments |->
            IF y = pay[x].renews /\ renewal[y].status = "CHARGE_PENDING"
            THEN Refused(y) ELSE renewal[y]]
       /\ cart' = [c \in Carts |->
            IF c = pay[x].cart /\ cart[c].status = "CHECKOUT"
            THEN [cart[c] EXCEPT !.status = GivenBack(c)] ELSE cart[c]]
  ELSE UNCHANGED <<pay, renewal, cart>>

RefundMoneyOnly(x) ==  \* mutant: the subscription is forgotten
  IF pay[x].status = "PAID"
  THEN pay' = [pay EXCEPT ![x].status = "REFUNDED"] /\ UNCHANGED sub
  ELSE UNCHANGED <<pay, sub>>
\* The OFF job that the same transaction enqueues is InverterControl's Refund.
Refund(x) ==
  IF pay[x].status = "PAID"
  THEN /\ pay' = [pay EXCEPT ![x].status = "REFUNDED"]
       /\ sub' = [sub EXCEPT ![x] = IF @ = "ACTIVE" THEN "CANCELED" ELSE @]
  ELSE UNCHANGED <<pay, sub>>

-----------------------------------------------------------------------------
(* createCheckout *)

NewPayment(x, c, kind) ==
  /\ pay[x].status = "NONE"
  /\ pay' = [pay EXCEPT ![x] = [NoPayment EXCEPT !.status = "PENDING", !.kind = kind,
                                                 !.cart = c, !.item = cart[c].item]]

Paying(c) == {x \in Payments : pay[x].cart = c /\ pay[x].status = "PENDING"}

\* A priced service needs an offer, unless access is free.
Kinds(c) ==
  {k \in {"TRIAL", "FREE", "ONE_OFF", "MANDATE_FIRST"} :
     CASE k = "TRIAL" -> cart[c].free /\ NeverServed
       [] k = "FREE" -> FreeAccess
       [] OTHER -> ~cart[c].free /\ cart[c].item \in Offers}

\* First transaction.  A cart that is being paid is only redirected again.
CreateCheckout(u, c, x) ==
  /\ call[u] = Idle
  /\ cart[c].status = "OPEN" /\ cart[c].item # Empty
  /\ Paying(c) = {}
  /\ cart' = [cart EXCEPT ![c].status = "CHECKOUT"]
  /\ \E kind \in Kinds(c) :
       /\ NewPayment(x, c, kind)
       /\ call' = [call EXCEPT ![u] = At(IF kind \in Manual THEN "manual" ELSE "order", x)]
  /\ UNCHANGED <<offer, sub, mandate, renewal, gw, faults>>

FinishManual(u) ==
  LET x == call[u].pay IN
  /\ IsAt(u, "manual")
  /\ \/ Settleable(x) /\ Grant(x)
     \/ /\ ~Settleable(x)
        /\ pay' = [pay EXCEPT ![x].status = "FAILED"]
        /\ cart' = [cart EXCEPT ![pay[x].cart].status = IF @ = "CHECKOUT" THEN "CANCELED" ELSE @]
        /\ UNCHANGED <<offer, sub, mandate, renewal>>
  /\ Return(u)
  /\ UNCHANGED <<gw, faults>>

\* No token or a definite refusal: nothing exists at the gateway.
OrderRefused(u) ==
  /\ IsAt(u, "order")
  /\ pay' = [pay EXCEPT ![call[u].pay].status = "FAILED"]
  /\ Goto(u, "reopen")
  /\ UNCHANGED <<cart, offer, sub, mandate, renewal, gw, faults>>

ReopenCart(u) ==
  LET c == pay[call[u].pay].cart IN
  /\ IsAt(u, "reopen")
  /\ cart' = [cart EXCEPT ![c].status = GivenBack(c)]
  /\ Return(u)
  /\ UNCHANGED <<pay, offer, sub, mandate, renewal, gw, faults>>

\* The request reaches the gateway; its answer may get lost ("uncertain").
AskGateway(p, from, next) ==
  /\ IsAt(p, from)
  /\ gw' = [gw EXCEPT ![call[p].pay] = "CREATED"]
  /\ Goto(p, next) \/ Return(p)
  /\ UNCHANGED <<cart, pay, offer, sub, mandate, renewal, faults>>

OrderCreated(u) == AskGateway(u, "order", "store")

StoreId(u) ==
  /\ IsAt(u, "store")
  /\ pay' = [pay EXCEPT ![call[u].pay].linked = TRUE]
  /\ Return(u)
  /\ UNCHANGED <<cart, offer, sub, mandate, renewal, gw, faults>>

\* A process dies, a request to the gateway never leaves, an answer of the
\* gateway is unusable, or storing the id of an order fails: the call ends and
\* what it has committed stays.
Abort(p) ==
  /\ call[p] # Idle
  /\ Return(p)
  /\ UNCHANGED <<cart, pay, offer, sub, mandate, renewal, gw, faults>>

-----------------------------------------------------------------------------
(* reconcileGopay *)

\* reconcilePendingGopayPayments takes linked rows, PENDING ones as well as PAID
\* ones (a refund may come long after); the payment is read before the gateway
\* is asked.
Recover(r, x) ==
  /\ call[r] = Idle
  /\ pay[x].linked /\ pay[x].status \in {"PENDING", "PAID"}
  /\ call' = [call EXCEPT ![r] = Asking(x)]
  /\ UNCHANGED <<cart, pay, offer, sub, mandate, renewal, gw, faults>>

\* A notification carries the id of the gateway's payment and may come at any
\* time, again and again, late or never.
Notify(n, x) ==
  /\ call[n] = Idle
  /\ gw[x] # "NONE"
  /\ pay[x].linked \/ pay[x].status = "PENDING"
  /\ call' = [call EXCEPT ![n] = Asking(x)]
  /\ UNCHANGED <<cart, pay, offer, sub, mandate, renewal, gw, faults>>

Ask(p) ==
  /\ IsAt(p, "ask")
  /\ LET answer == gw[call[p].pay] IN
       call' = [call EXCEPT ![p].pc = "answer", ![p].answer = answer,
                            ![p].seen = IF answer = "REFUNDED" THEN @ ELSE "unpaid"]
  /\ UNCHANGED <<cart, pay, offer, sub, mandate, renewal, gw, faults>>

\* An id learnt from a notification is stored while the payment is pending; if
\* somebody stored it meanwhile the call goes on, otherwise it fails.
Link(p) ==
  LET x == call[p].pay IN
  /\ IsAt(p, "answer")
  /\ \/ pay[x].linked /\ Goto(p, "settle") /\ UNCHANGED pay
     \/ /\ ~pay[x].linked
        /\ pay[x].status = "PENDING"
        /\ pay' = [pay EXCEPT ![x].linked = TRUE]
        /\ Goto(p, "settle")
     \/ ~pay[x].linked /\ pay[x].status # "PENDING" /\ Return(p) /\ UNCHANGED pay
  /\ UNCHANGED <<cart, offer, sub, mandate, renewal, gw, faults>>

SettlePaid(p) ==
  LET x == call[p].pay
      first == call[p].answer = "REFUNDED"  \* paid and refunded unnoticed
  IN
  /\ IsAt(p, "settle")
  /\ \/ call[p].answer = "PAID"
     \/ first /\ call[p].seen = "unpaid"
  /\ \/ /\ pay[x].status = "PAID"
        /\ UNCHANGED <<pay, cart, offer, sub, mandate, renewal>>
        /\ IF first THEN Goto(p, "refund") ELSE Return(p)
     \/ /\ pay[x].status # "PAID" /\ Settleable(x)
        /\ Grant(x)
        /\ IF first THEN Goto(p, "refund") ELSE Return(p)
     \/ /\ pay[x].status # "PAID" /\ ~Settleable(x)
        /\ UNCHANGED <<pay, cart, offer, sub, mandate, renewal>>
        /\ Return(p)
  /\ UNCHANGED <<gw, faults>>

SettleCanceled(p) ==
  /\ IsAt(p, "settle")
  /\ call[p].answer = "CANCELED"
  /\ Cancel(call[p].pay)
  /\ Return(p)
  /\ UNCHANGED <<offer, sub, mandate, gw, faults>>

SettleRefunded(p) ==
  /\ \/ IsAt(p, "refund")
     \/ /\ IsAt(p, "settle")
        /\ call[p].answer = "REFUNDED" /\ call[p].seen = "paid"
  /\ Refund(call[p].pay)
  /\ Return(p)
  /\ UNCHANGED <<cart, offer, mandate, renewal, gw, faults>>

\* A payment still open at the gateway only has its payload refreshed.
SettleNothing(p) ==
  /\ IsAt(p, "settle")
  /\ call[p].answer = "CREATED"
  /\ Return(p)
  /\ UNCHANGED <<cart, pay, offer, sub, mandate, renewal, gw, faults>>

-----------------------------------------------------------------------------
(* Renewals *)

\* scheduleUpcomingRenewals reads its candidates and creates the renewals one by
\* one, with other work in between.
FindRenewal(r, x) ==
  /\ call[r] = Idle
  /\ sub[x] = "ACTIVE"
  /\ pay[x].mandate # None /\ mandate[pay[x].mandate] = "ACTIVE"
  /\ renewal[x].status = "NONE"  \* with a renewal the upsert changes nothing
  /\ call' = [call EXCEPT ![r] = At("schedule", x)]
  /\ UNCHANGED <<cart, pay, offer, sub, mandate, renewal, gw, faults>>

Schedule(r) ==
  LET x == call[r].pay IN
  /\ IsAt(r, "schedule")
  /\ renewal' = [renewal EXCEPT ![x].status = IF @ = "NONE" THEN "SCHEDULED" ELSE @]
  /\ Return(r)
  /\ UNCHANGED <<cart, pay, offer, sub, mandate, gw, faults>>

SendNotice(x) ==
  /\ renewal[x].status = "SCHEDULED"
  /\ renewal' = [renewal EXCEPT ![x].status = "NOTICE_SENT"]
  /\ UNCHANGED <<cart, pay, offer, sub, mandate, gw, call, faults>>

\* prepareAttempt without a usable mandate.
GiveUp(r, x) ==
  LET m == pay[x].mandate IN
  /\ call[r] = Idle
  /\ renewal[x].status \in {"NOTICE_SENT", "RETRY"}
  /\ mandate[m] # "ACTIVE"
  /\ renewal' = [renewal EXCEPT ![x].status =
                   IF mandate[m] = "LAPSED" THEN "FAILED" ELSE "CANCELED"]
  /\ mandate' = [mandate EXCEPT ![m] = IF @ = "LAPSED" THEN "EXPIRED" ELSE @]
  /\ UNCHANGED <<cart, pay, offer, sub, gw, call, faults>>

\* prepareAttempt: the claim compares status and count with what was read, so
\* reading and claiming are one step.  The new cart holds the service by itself.
PrepareAttempt(r, x, c, y) ==
  /\ call[r] = Idle
  /\ renewal[x].status \in {"NOTICE_SENT", "RETRY"}
  /\ mandate[pay[x].mandate] = "ACTIVE"
  /\ renewal[x].attempts < MaxAttempts
  /\ cart[c].status = "NONE" /\ pay[y].status = "NONE"
  /\ renewal' = [renewal EXCEPT ![x] = [status |-> "CHARGE_PENDING", attempts |-> @.attempts + 1]]
  /\ cart' = [cart EXCEPT ![c] = [NoCart EXCEPT !.status = "CHECKOUT", !.item = Product]]
  /\ pay' = [pay EXCEPT ![y] = [NoPayment EXCEPT
               !.status = "PENDING", !.kind = "MANDATE_REPEAT", !.cart = c, !.item = Product,
               !.renews = x, !.mandate = pay[x].mandate]]
  /\ call' = [call EXCEPT ![r] = At("charge", y)]
  /\ UNCHANGED <<offer, sub, mandate, gw, faults>>

\* No token or a definite refusal.
ChargeRefused(r) ==
  /\ IsAt(r, "charge")
  /\ Goto(r, "fail")
  /\ UNCHANGED <<cart, pay, offer, sub, mandate, renewal, gw, faults>>

\* mutant: an answer that is lost counts as a refusal.
ChargeUncertain(r) ==
  /\ IsAt(r, "charge")
  /\ gw' = [gw EXCEPT ![call[r].pay] = "CREATED"]
  /\ Goto(r, "link") \/ Goto(r, "fail")
  /\ UNCHANGED <<cart, pay, offer, sub, mandate, renewal, faults>>
\* A lost answer leaves the attempt pending for a notification or a review.
Charge(r) == AskGateway(r, "charge", "link")

\* The id is stored and the new payment reconciled at once.
LinkCharge(r) ==
  LET x == call[r].pay IN
  /\ IsAt(r, "link")
  /\ pay' = [pay EXCEPT ![x].linked = TRUE]
  /\ call' = [call EXCEPT ![r] = Asking(x)]
  /\ UNCHANGED <<cart, offer, sub, mandate, renewal, gw, faults>>

\* The update fails: the catch block treats the charge as failed.
LinkChargeFails(r) ==
  /\ IsAt(r, "link")
  /\ faults < MaxFaults
  /\ faults' = faults + 1
  /\ Goto(r, "fail")
  /\ UNCHANGED <<cart, pay, offer, sub, mandate, renewal, gw>>

\* failAttempt reads the renewal, then writes it whatever it has become: its
\* lock is not the one of the settlement.
ReadFailed(r) ==
  /\ IsAt(r, "fail")
  /\ IF renewal[pay[call[r].pay].renews].status = "CHARGE_PENDING"
     THEN Goto(r, "failing") ELSE Return(r)
  /\ UNCHANGED <<cart, pay, offer, sub, mandate, renewal, gw, faults>>

FailAttempt(r) ==
  LET y == call[r].pay
      x == pay[y].renews
      c == pay[y].cart
  IN
  /\ IsAt(r, "failing")
  /\ pay' = [pay EXCEPT ![y].status = IF @ = "PENDING" /\ ~pay[y].linked THEN "FAILED" ELSE @]
  /\ cart' = [cart EXCEPT ![c].status = IF @ = "CHECKOUT" THEN "CANCELED" ELSE @]
  /\ renewal' = [renewal EXCEPT ![x] = Refused(x)]
  /\ Return(r)
  /\ UNCHANGED <<offer, sub, mandate, gw, faults>>

-----------------------------------------------------------------------------
(* The customer and the gateway *)

WithdrawnPending ==  \* mutant: whatever is not settled
  {"SCHEDULED", "NOTICE_SENT", "RETRY", "CHARGE_PENDING"}
\* What a revocation takes back at once; a claimed attempt takes its course.
Withdrawn == {"SCHEDULED", "NOTICE_SENT", "RETRY"}

RevokeMandate(m) ==
  /\ mandate[m] \in {"ACTIVE", "LAPSED", "EXPIRED"}
  /\ mandate' = [mandate EXCEPT ![m] = "REVOKED"]
  /\ renewal' = [x \in Payments |->
       IF pay[x].mandate = m /\ renewal[x].status \in Withdrawn
       THEN [renewal[x] EXCEPT !.status = "CANCELED"] ELSE renewal[x]]
  /\ UNCHANGED <<cart, pay, offer, sub, gw, call, faults>>

MandateLapses(m) ==
  /\ mandate[m] = "ACTIVE"
  /\ mandate' = [mandate EXCEPT ![m] = "LAPSED"]
  /\ UNCHANGED <<cart, pay, offer, sub, renewal, gw, call, faults>>

\* By the customer or an administrator; the renewal and the mandate stay.
CancelSubscription(x) ==
  /\ sub[x] \in {"ACTIVE", "TRIAL"}
  /\ sub' = [sub EXCEPT ![x] = "CANCELED"]
  /\ UNCHANGED <<cart, pay, offer, mandate, renewal, gw, call, faults>>

GatewayMoves(x) ==
  /\ \/ gw[x] = "CREATED" /\ gw' = [gw EXCEPT ![x] = "PAID"]
     \/ gw[x] = "CREATED" /\ gw' = [gw EXCEPT ![x] = "CANCELED"]
     \/ gw[x] = "PAID" /\ gw' = [gw EXCEPT ![x] = "REFUNDED"]
  /\ UNCHANGED <<cart, pay, offer, sub, mandate, renewal, call, faults>>

-----------------------------------------------------------------------------
Shop(c) ==
  \/ GetOrCreateCart(c) \/ AddProduct(c) \/ RemoveProduct(c)
  \/ \E o \in Offers : OrderOffer(c, o)

Checkout(u) ==
  \/ \E c \in Carts : Shop(c) \/ \E x \in Payments : CreateCheckout(u, c, x)
  \/ FinishManual(u) \/ OrderRefused(u) \/ ReopenCart(u)
  \/ OrderCreated(u) \/ StoreId(u)

Reconcile(p) ==
  \/ Ask(p) \/ Link(p)
  \/ SettlePaid(p) \/ SettleCanceled(p) \/ SettleRefunded(p) \/ SettleNothing(p)

Renew(r) ==
  \/ \E x \in Payments : FindRenewal(r, x) \/ GiveUp(r, x)
  \/ Schedule(r)
  \/ \E x, y \in Payments, c \in Carts : PrepareAttempt(r, x, c, y)
  \/ ChargeRefused(r) \/ Charge(r) \/ LinkCharge(r) \/ LinkChargeFails(r)
  \/ ReadFailed(r) \/ FailAttempt(r)

Next ==
  \/ \E o \in Offers : OfferLapses(o)
  \/ \E u \in Shoppers : Checkout(u)
  \/ \E r \in Runners : Renew(r) \/ \E x \in Payments : Recover(r, x)
  \/ \E n \in Notifiers, x \in Payments : Notify(n, x)
  \/ \E p \in Runners \cup Notifiers : Reconcile(p)
  \/ \E p \in Procs : Abort(p)
  \/ \E x \in Payments :
       \/ SendNotice(x) \/ RevokeMandate(x) \/ MandateLapses(x)
       \/ CancelSubscription(x) \/ GatewayMoves(x)

Spec == Init /\ [][Next]_vars

-----------------------------------------------------------------------------
(* Properties *)

\* Every row and local state has its type.
TypeOK ==
  /\ cart \in [Carts -> Cart]
  /\ pay \in [Payments -> Payment]
  /\ offer \in [Offers -> {"OFFERED", "ACCEPTED", "EXPIRED"}]
  /\ sub \in [Payments -> {"NONE", "TRIAL", "ACTIVE", "CANCELED"}]
  /\ mandate \in [Payments -> MandateStatus]
  /\ renewal \in [Payments -> Renewal]
  /\ gw \in [Payments -> Gateway]
  /\ call \in [Procs -> Call]
  /\ faults \in 0..MaxFaults

\* A payment that took the money or still may take it.
Charges(y) == gw[y] \in {"CREATED", "PAID", "REFUNDED"}

\* A renewal is charged at most once (db-concurrency.integration.test: "exactly
\* once"): two of its attempts never both hold a payment at the gateway that was
\* or can be paid.
ChargedOnce ==
  \A x \in Payments : \A y, z \in Attempts(x) : Charges(y) /\ Charges(z) => y = z

\* ... as long as the database takes the ids the gateway answers with.
ChargedOnceIfStored == faults = 0 => ChargedOnce

\* A service is granted for money only, and taken back with it for good, however
\* late or often an answer of the gateway is settled.
ServiceIsFunded ==
  \A x \in Payments :
    /\ sub[x] = "ACTIVE" => /\ pay[x].status = "PAID"
                            /\ pay[x].kind \in Manual \/ gw[x] \in {"PAID", "REFUNDED"}
    /\ pay[x].status = "CANCELED" => gw[x] = "CANCELED"
    /\ faults = 0 /\ pay[x].status = "FAILED" => gw[x] = "NONE"

\* What a renewal says of itself agrees with its attempts: it is paid when one
\* of them was, pending when one of them is, and given up only when none can
\* take money any more.
RenewalIsTrue ==
  faults = 0 =>
    \A x \in Payments :
      LET settled == \E y \in Attempts(x) : pay[y].status \in {"PAID", "REFUNDED"}
          pending == \E y \in Attempts(x) : pay[y].status = "PENDING"
      IN /\ renewal[x].status = "PAID" <=> settled
         /\ renewal[x].status = "CHARGE_PENDING" <=> pending

\* Nothing is sold twice: one service per offer and one trial per customer, even
\* when two carts with it are being paid at the same time.
SoldOnce ==
  /\ \A x, y \in Payments :
       pay[x].item \in Offers /\ pay[x].item = pay[y].item /\ sub[x] # "NONE" /\ sub[y] # "NONE"
         => x = y
  /\ \A x, y \in Payments :
       pay[x].kind = "TRIAL" /\ sub[x] # "NONE" /\ sub[y] # "NONE" /\ pay[y].kind = "TRIAL" => x = y

\* What is being paid cannot be edited or paid again: the cart of a pending
\* payment is in CHECKOUT and has no other pending payment.
CheckoutIsFrozen ==
  faults = 0 =>
    \A x \in Payments :
      pay[x].status = "PENDING" =>
        cart[pay[x].cart].status = "CHECKOUT" /\ Paying(pay[x].cart) = {x}

\* cart_one_open_per_user_key: the index never has to refuse an update.
OneOpenCart == \A c, d \in OpenCarts : c = d

\* A payment that is settled stays what it is, but for a refund.
PaymentIsFinal ==
  [][\A x \in Payments :
       pay[x].status \in {"FAILED", "CANCELED", "PAID", "REFUNDED"} =>
         \/ pay'[x].status = pay[x].status
         \/ pay[x].status = "PAID" /\ pay'[x].status = "REFUNDED"]_vars

-----------------------------------------------------------------------------
(* The inductive invariant *)

Settled(x) == pay[x].status \in {"PAID", "REFUNDED"}
Pending(x) == pay[x].status = "PENDING"

\* Which process still acts on a payment as the one that made it.
OwnerPc == {"manual", "order", "reopen", "store", "charge", "link", "fail", "failing"}
Owns(p, x) == call[p].pc \in OwnerPc /\ call[p].pay = x
Reopening(x) == \E p \in Procs : IsAt(p, "reopen") /\ call[p].pay = x

\* A payment against itself, its cart, its subscription and the gateway.
Consistent(x) ==
  /\ pay[x].status = "NONE" => pay[x] = NoPayment /\ gw[x] = "NONE"
  /\ pay[x].status # "NONE" => pay[x].cart \in Carts
  /\ pay[x].linked => gw[x] # "NONE"
  /\ pay[x].kind \in Manual => gw[x] = "NONE"
  /\ pay[x].kind = "MANDATE_REPEAT" <=> pay[x].renews # None
  /\ Settled(x) => cart[pay[x].cart].status = "PAID"
  /\ Settled(x) => pay[x].kind \in Manual \/ gw[x] \in {"PAID", "REFUNDED"}
  /\ pay[x].status = "REFUNDED" => gw[x] = "REFUNDED"
  /\ pay[x].status = "CANCELED" => gw[x] = "CANCELED"
  /\ pay[x].status = "FAILED" => ~pay[x].linked
  /\ pay[x].status = "FAILED" /\ faults = 0 => gw[x] = "NONE"
  /\ sub[x] = "ACTIVE" => pay[x].status = "PAID" /\ pay[x].kind # "TRIAL"
  /\ sub[x] # "NONE" => Settled(x)
  /\ sub[x] # "NONE" /\ pay[x].item \in Offers => offer[pay[x].item] = "ACCEPTED"
RowInv == \A x \in Payments : Consistent(x)

\* A cart belongs to one payment that is open or is about to give it back.
Holds(x) == Pending(x) \/ Reopening(x)
CartInv ==
  /\ \A x \in Payments :
       Holds(x) =>
         \/ cart[pay[x].cart].status = "CHECKOUT"
         \/ faults > 0 /\ cart[pay[x].cart].status = "CANCELED"
  /\ \A x, y \in Payments : Holds(x) /\ Holds(y) /\ pay[x].cart = pay[y].cart => x = y

\* What a process may rely on between the steps of its call.
Relies(p) ==
  LET x == call[p].pay
      at(S) == call[p].pc \in S
  IN
  /\ at({"idle"}) => call[p] = Idle
  /\ ~at({"idle"}) => x \in Payments /\ pay[x].status # "NONE"
  /\ at({"manual"}) => Pending(x) /\ pay[x].kind \in Manual
  /\ at({"order"}) => Pending(x) /\ gw[x] = "NONE" /\ pay[x].kind \in {"ONE_OFF", "MANDATE_FIRST"}
  /\ at({"reopen"}) => pay[x].status = "FAILED" /\ gw[x] = "NONE" /\ pay[x].renews = None
  /\ at({"store", "link"}) => gw[x] # "NONE" /\ pay[x].status # "FAILED"
  /\ at({"ask", "answer", "settle", "refund"}) => gw[x] # "NONE"
  /\ at({"settle", "refund"}) => pay[x].linked
  /\ at({"refund"}) => Settled(x) /\ gw[x] = "REFUNDED"
  /\ at({"charge", "link", "fail", "failing"}) => pay[x].renews \in Payments
  /\ at({"charge"}) \/ (faults = 0 /\ at({"fail", "failing"})) => Pending(x) /\ gw[x] = "NONE"
  /\ at({"answer", "settle"}) => call[p].answer # "NONE"
  /\ call[p].answer = "PAID" => gw[x] \in {"PAID", "REFUNDED"}
  /\ call[p].answer \in {"CANCELED", "REFUNDED"} => gw[x] = call[p].answer
  /\ at({"ask", "answer", "settle"}) /\ call[p].seen = "paid" => Settled(x)
CallInv == \A p \in Procs : Relies(p)

OwnerInv ==
  \A p, q \in Procs, x \in Payments : Owns(p, x) /\ Owns(q, x) => p = q

\* A renewal has one attempt that is open or was paid, and knows of it.
RenewalInv ==
  faults = 0 =>
    \A x, y \in Payments :
      pay[y].renews = x =>
        /\ Pending(y) => renewal[x].status = "CHARGE_PENDING"
        /\ Settled(y) => renewal[x].status = "PAID"
        /\ \A z \in Attempts(x) : (Pending(y) \/ Settled(y)) /\ (Pending(z) \/ Settled(z)) => y = z

\* ... and is paid or pending because of an attempt that is.
BackedInv ==
  faults = 0 =>
    \A x \in Payments :
      /\ renewal[x].status = "PAID" => \E y \in Attempts(x) : Settled(y)
      /\ renewal[x].status = "CHARGE_PENDING" => \E y \in Attempts(x) : Pending(y)

IInv ==
  /\ TypeOK
  /\ RowInv /\ CartInv /\ CallInv /\ OwnerInv
  /\ RenewalInv /\ BackedInv
  /\ OneOpenCart /\ SoldOnce
=============================================================================
