---------------------------- MODULE PaymentsProofs ----------------------------
(***************************************************************************)
(* The inductive invariant of Payments and what follows from it, for every *)
(* number of payments, carts, offers, processes, attempts and faults.      *)
(***************************************************************************)
EXTENDS Payments, TLAPS

-----------------------------------------------------------------------------
(* Types *)

LEMMA GotoType ==
  ASSUME call \in [Procs -> Call], NEW p \in Procs, NEW pc \in Pcs, Goto(p, pc)
  PROVE  call' \in [Procs -> Call]
BY DEF Goto, Call

LEMMA AtType ==
  ASSUME NEW pc \in Pcs, NEW x \in Payments
  PROVE  At(pc, x) \in Call /\ Asking(x) \in Call
<1>1. At(pc, x) \in Call
  BY DEF At, Idle, Call, Pcs, Gateway
<1>2. QED BY DEF At, Asking, Idle, Call, Pcs, Gateway

LEMMA ReturnType ==
  ASSUME call \in [Procs -> Call], NEW p \in Procs, Return(p)
  PROVE  call' \in [Procs -> Call]
BY DEF Return, Idle, Call, Pcs, Gateway

LEMMA RefusedType ==
  ASSUME TypeOK, NEW y \in Payments
  PROVE  Refused(y) \in Renewal
BY DEF Refused, AfterFailure, TypeOK, Renewal

LEMMA GivenBackType ==
  ASSUME NEW c PROVE GivenBack(c) \in {"OPEN", "CANCELED"}
BY DEF GivenBack

\* The updates of one field of a payment or of a cart.
LEMMA StatusType ==
  ASSUME pay \in [Payments -> Payment], NEW x \in Payments,
         NEW s \in {"PENDING", "PAID", "FAILED", "CANCELED", "REFUNDED"}
  PROVE  [pay EXCEPT ![x].status = s] \in [Payments -> Payment]
BY DEF Payment

LEMMA LinkedType ==
  ASSUME pay \in [Payments -> Payment], NEW x \in Payments
  PROVE  [pay EXCEPT ![x].linked = TRUE] \in [Payments -> Payment]
BY DEF Payment

LEMMA CartStatusType ==
  ASSUME cart \in [Carts -> Cart], NEW c \in Carts,
         NEW s \in {"NONE", "OPEN", "CHECKOUT", "PAID", "CANCELED"}
  PROVE  [cart EXCEPT ![c].status = s] \in [Carts -> Cart]
BY DEF Cart

\* ... and what they leave alone.
LEMMA StatusChange ==
  ASSUME pay \in [Payments -> Payment], NEW x \in Payments,
         NEW s \in {"NONE", "PENDING", "PAID", "FAILED", "CANCELED", "REFUNDED"},
         pay' = [pay EXCEPT ![x].status = s]
  PROVE  /\ pay' \in [Payments -> Payment]
         /\ \A y \in Payments \ {x} : pay'[y] = pay[y]
         /\ pay'[x].status = s
         /\ \A y \in Payments :
              /\ pay'[y].cart = pay[y].cart /\ pay'[y].linked = pay[y].linked
              /\ pay'[y].kind = pay[y].kind /\ pay'[y].item = pay[y].item
              /\ pay'[y].renews = pay[y].renews /\ pay'[y].mandate = pay[y].mandate
<1>1. pay' \in [Payments -> Payment]
  BY DEF Payment
<1>2. \A y \in Payments \ {x} : pay'[y] = pay[y]
  OBVIOUS
<1>3. /\ pay'[x].status = s /\ pay'[x].cart = pay[x].cart /\ pay'[x].linked = pay[x].linked
      /\ pay'[x].kind = pay[x].kind /\ pay'[x].item = pay[x].item
      /\ pay'[x].renews = pay[x].renews /\ pay'[x].mandate = pay[x].mandate
  BY DEF Payment
<1>4. QED BY <1>1, <1>2, <1>3

\* A process that is not idle works on a payment that exists, with a cart.
LEMMA Acting ==
  ASSUME IInv, NEW p \in Procs, call[p].pc # "idle"
  PROVE  /\ call[p].pay \in Payments
         /\ pay[call[p].pay].status # "NONE"
         /\ pay[call[p].pay].cart \in Carts
BY DEF IInv, CallInv, Relies, RowInv, Consistent

-----------------------------------------------------------------------------
(* What a step leaves alone *)

LEMMA RowSame ==
  ASSUME RowInv, UNCHANGED <<pay, cart, offer, sub, gw, faults>>
  PROVE  RowInv'
BY DEF RowInv, Consistent, Settled

LEMMA CartSame ==
  ASSUME CartInv, UNCHANGED <<pay, cart, call, faults>>
  PROVE  CartInv'
BY DEF CartInv, Holds, Pending, Reopening, IsAt

\* Nobody starts to hold a cart, and carts that are held stay as they are.
LEMMA CartFrame ==
  ASSUME CartInv, faults' >= faults, faults \in Nat, faults' \in Nat,
         \A x \in Payments : Holds(x)' =>
           /\ Holds(x) /\ pay'[x].cart = pay[x].cart
           /\ \/ cart'[pay[x].cart].status = cart[pay[x].cart].status
              \/ faults' > 0 /\ cart'[pay[x].cart].status = "CANCELED"
  PROVE  CartInv'
<1>1. ASSUME NEW x \in Payments, Holds(x)'
      PROVE  \/ cart'[pay'[x].cart].status = "CHECKOUT"
             \/ faults' > 0 /\ cart'[pay'[x].cart].status = "CANCELED"
  BY <1>1 DEF CartInv
<1>2. ASSUME NEW x \in Payments, NEW y \in Payments, Holds(x)', Holds(y)', pay'[x].cart = pay'[y].cart
      PROVE  x = y
  BY <1>2 DEF CartInv
<1>3. QED BY <1>1, <1>2 DEF CartInv

\* The payment x takes the cart c, which nobody else holds.
LEMMA CartTake ==
  ASSUME CartInv, NEW x \in Payments, NEW c \in Carts, faults' = faults,
         pay'[x].cart = c, cart'[c].status = "CHECKOUT",
         \A y \in Payments \ {x} : Holds(y)' =>
           /\ Holds(y) /\ pay'[y].cart = pay[y].cart /\ pay[y].cart # c
           /\ cart'[pay[y].cart].status = cart[pay[y].cart].status
  PROVE  CartInv'
<1>1. ASSUME NEW y \in Payments, Holds(y)'
      PROVE  \/ cart'[pay'[y].cart].status = "CHECKOUT"
             \/ faults' > 0 /\ cart'[pay'[y].cart].status = "CANCELED"
  BY <1>1 DEF CartInv
<1>2. ASSUME NEW y \in Payments, NEW z \in Payments, Holds(y)', Holds(z)', pay'[y].cart = pay'[z].cart
      PROVE  y = z
  BY <1>2 DEF CartInv
<1>3. QED BY <1>1, <1>2 DEF CartInv

LEMMA ReopeningFrame ==
  ASSUME NEW p \in Procs, NEW x, \A q \in Procs \ {p} : call'[q] = call[q],
         Reopening(x)', call'[p].pc # "reopen"
  PROVE  Reopening(x)
BY DEF Reopening, IsAt

LEMMA CallSame ==
  ASSUME CallInv, UNCHANGED <<pay, gw, call, faults>>
  PROVE  CallInv'
BY DEF CallInv, Relies, Settled, Pending

LEMMA CallFrame ==
  ASSUME CallInv, NEW p \in Procs, UNCHANGED <<pay, gw, faults>>, Relies(p)',
         \A q \in Procs \ {p} : call'[q] = call[q]
  PROVE  CallInv'
<1>1. ASSUME NEW q \in Procs \ {p} PROVE Relies(q)'
  BY <1>1 DEF CallInv, Relies, Settled, Pending
<1>2. QED BY <1>1 DEF CallInv

\* A process that did not make its payment relies on little of it.
LEMMA BystanderRelies ==
  ASSUME NEW q \in Procs, Relies(q), call'[q] = call[q], call[q].pc \notin OwnerPc,
         faults' = faults, gw'[call[q].pay] = gw[call[q].pay],
         pay'[call[q].pay].status # "NONE",
         pay[call[q].pay].linked => pay'[call[q].pay].linked,
         Settled(call[q].pay) => pay'[call[q].pay].status \in {"PAID", "REFUNDED"}
  PROVE  Relies(q)'
BY DEF Relies, OwnerPc, Settled

LEMMA IdleRelies == ASSUME NEW p, call'[p] = Idle PROVE Relies(p)'
BY DEF Relies, Idle

\* One payment is touched, by the process p.
LEMMA RowFrame ==
  ASSUME RowInv, NEW x \in Payments, faults' = faults, Consistent(x)',
         \A y \in Payments \ {x} :
           /\ pay'[y] = pay[y] /\ gw'[y] = gw[y] /\ sub'[y] = sub[y]
           /\ Settled(y) => cart'[pay[y].cart].status = "PAID"
           /\ sub[y] # "NONE" /\ pay[y].item \in Offers => offer'[pay[y].item] = "ACCEPTED"
  PROVE  RowInv'
<1>1. ASSUME NEW y \in Payments \ {x} PROVE Consistent(y)'
  BY <1>1 DEF RowInv, Consistent, Settled
<1>2. QED BY <1>1 DEF RowInv

LEMMA CallTouch ==
  ASSUME CallInv, NEW p \in Procs, NEW x \in Payments, faults' = faults, Relies(p)',
         \A y \in Payments \ {x} : pay'[y] = pay[y] /\ gw'[y] = gw[y],
         \A q \in Procs \ {p} :
           /\ call'[q] = call[q]
           /\ call[q].pc # "idle" /\ call[q].pay = x => Relies(q)'
  PROVE  CallInv'
<1>1. ASSUME NEW q \in Procs \ {p} PROVE Relies(q)'
  <2>1. CASE call[q].pc = "idle"
    BY <1>1, <2>1, IdleRelies DEF CallInv, Relies
  <2>2. CASE call[q].pc # "idle" /\ call[q].pay # x
    BY <1>1, <2>2 DEF CallInv, Relies, Settled, Pending
  <2>3. QED BY <1>1, <2>1, <2>2
<1>2. QED BY <1>1 DEF CallInv

\* Nobody becomes the owner of a payment.
LEMMA OwnerFrame ==
  ASSUME OwnerInv, call \in [Procs -> Call], NEW p \in Procs,
         \A q \in Procs \ {p} : call'[q] = call[q],
         call'[p].pc \in OwnerPc => call[p].pc \in OwnerPc /\ call'[p].pay = call[p].pay
  PROVE  OwnerInv'
<1>1. ASSUME NEW q \in Procs, NEW x \in Payments, Owns(q, x)' PROVE Owns(q, x)
  BY <1>1 DEF Owns
<1>2. QED BY <1>1 DEF OwnerInv

LEMMA RenewalSame ==
  ASSUME RenewalInv, BackedInv, UNCHANGED <<pay, renewal, faults>>
  PROVE  RenewalInv' /\ BackedInv'
BY DEF RenewalInv, BackedInv, Attempts, Settled, Pending

\* No attempt at a renewal is touched.
LEMMA RenewalFrame ==
  ASSUME RenewalInv, BackedInv, faults' = faults,
         \A y \in Payments :
           /\ renewal'[y].status = renewal[y].status
           /\ pay'[y].renews = pay[y].renews
           /\ pay[y].renews \in Payments => (Pending(y)' <=> Pending(y)) /\ (Settled(y)' <=> Settled(y))
  PROVE  RenewalInv' /\ BackedInv'
<1>1. RenewalInv'
  BY DEF RenewalInv, Attempts
<1>2. BackedInv'
  <2> SUFFICES ASSUME faults = 0, NEW x \in Payments
               PROVE  /\ renewal[x].status = "PAID" => \E y \in Attempts(x)' : Settled(y)'
                      /\ renewal[x].status = "CHARGE_PENDING" => \E y \in Attempts(x)' : Pending(y)'
    BY DEF BackedInv
  <2>1. CASE renewal[x].status = "PAID"
    BY <2>1 DEF BackedInv, Attempts
  <2>2. CASE renewal[x].status = "CHARGE_PENDING"
    BY <2>2 DEF BackedInv, Attempts
  <2>3. QED BY <2>1, <2>2
<1>3. QED BY <1>1, <1>2

\* The pending attempt y at the renewal x is settled or fails.
LEMMA RenewalMove ==
  ASSUME RenewalInv, BackedInv, faults' = faults,
         NEW x \in Payments, NEW y \in Payments, pay[y].renews = x, faults = 0 => Pending(y),
         \A z \in Payments : pay'[z].renews = pay[z].renews,
         \A z \in Payments \ {y} : pay'[z].status = pay[z].status,
         \A z \in Payments \ {x} : renewal'[z].status = renewal[z].status,
         faults = 0 =>
           \/ Settled(y)' /\ ~Pending(y)' /\ renewal'[x].status = "PAID"
           \/ ~Settled(y)' /\ ~Pending(y)' /\ renewal'[x].status \notin {"PAID", "CHARGE_PENDING"}
  PROVE  RenewalInv' /\ BackedInv'
<1>1. CASE faults # 0
  BY <1>1 DEF RenewalInv, BackedInv
<1>2. CASE faults = 0
  <2>1. \A z \in Payments \ {y} : (Pending(z)' <=> Pending(z)) /\ (Settled(z)' <=> Settled(z))
    BY DEF Pending, Settled
  <2>2. \A z \in Attempts(x) \ {y} : ~Pending(z) /\ ~Settled(z)
    BY <1>2 DEF RenewalInv, Attempts
  <2>3. RenewalInv'
    BY <1>2, <2>1, <2>2 DEF RenewalInv, Attempts
  <2>4. ASSUME NEW z \in Payments \ {x}
        PROVE  /\ renewal[z].status = "PAID" => \E w \in Attempts(z)' : Settled(w)'
               /\ renewal[z].status = "CHARGE_PENDING" => \E w \in Attempts(z)' : Pending(w)'
    <3>1. CASE renewal[z].status = "PAID"
      BY <1>2, <2>1, <3>1 DEF BackedInv, Attempts
    <3>2. CASE renewal[z].status = "CHARGE_PENDING"
      BY <1>2, <2>1, <3>2 DEF BackedInv, Attempts
    <3>3. QED BY <3>1, <3>2
  <2>5. BackedInv'
    BY <1>2, <2>4 DEF BackedInv, Attempts
  <2>6. QED BY <2>3, <2>5
<1>3. QED BY <1>1, <1>2

LEMMA OpenFrame ==
  ASSUME OneOpenCart, OpenCarts' \subseteq OpenCarts
  PROVE  OneOpenCart'
BY DEF OneOpenCart

LEMMA SoldFrame ==
  ASSUME SoldOnce,
         \A x \in Payments : sub'[x] # "NONE" =>
           sub[x] # "NONE" /\ pay'[x].item = pay[x].item /\ pay'[x].kind = pay[x].kind
  PROVE  SoldOnce'
BY DEF SoldOnce

\* A step of one call that changes no row.
LEMMA OnlyCall ==
  ASSUME IInv, NEW p \in Procs, call' \in [Procs -> Call], Relies(p)',
         \A q \in Procs \ {p} : call'[q] = call[q],
         UNCHANGED <<cart, pay, offer, sub, mandate, renewal, gw, faults>>,
         call'[p].pc \in OwnerPc => call[p].pc \in OwnerPc /\ call'[p].pay = call[p].pay,
         call'[p].pc # "reopen"
  PROVE  IInv'
<1>1. TypeOK'
  BY DEF IInv, TypeOK
<1>2. RowInv'
  BY RowSame DEF IInv
<1>3. CartInv'
  <2>1. \A x \in Payments : Holds(x)' => Holds(x)
    BY ReopeningFrame DEF Holds, Pending
  <2>2. QED BY <2>1, CartFrame, FaultBoundAssumption DEF IInv, TypeOK
<1>4. CallInv'
  BY CallFrame DEF IInv
<1>5. OwnerInv'
  BY OwnerFrame DEF IInv, TypeOK
<1>6. RenewalInv' /\ BackedInv'
  BY RenewalSame DEF IInv
<1>7. OneOpenCart'
  BY OpenFrame DEF IInv, OpenCarts
<1>8. SoldOnce'
  BY SoldFrame DEF IInv
<1>9. QED BY <1>1, <1>2, <1>3, <1>4, <1>5, <1>6, <1>7, <1>8 DEF IInv

-----------------------------------------------------------------------------
(* Settlements *)

\* A pending payment that is settleable is granted.
LEMMA Granting ==
  ASSUME IInv, NEW x \in Payments, Pending(x), Settleable(x), Grant(x),
         UNCHANGED <<gw, faults>>, call' \in [Procs -> Call],
         pay[x].kind \in Manual \/ gw[x] \in {"PAID", "REFUNDED"}
  PROVE  /\ TypeOK' /\ RowInv' /\ RenewalInv' /\ BackedInv' /\ OneOpenCart' /\ SoldOnce'
         /\ \A y \in Payments \ {x} : pay'[y] = pay[y]
         /\ pay'[x].status = "PAID"
         /\ pay'[x].linked = pay[x].linked /\ pay'[x].kind = pay[x].kind
         /\ pay'[x].renews = pay[x].renews /\ pay'[x].cart = pay[x].cart
         /\ \A d \in Carts \ {pay[x].cart} : cart'[d] = cart[d]
<1> DEFINE c == pay[x].cart
<1>1. c \in Carts /\ cart[c].status = "CHECKOUT" /\ faults \in Nat
  BY DEF IInv, TypeOK, RowInv, Consistent, Pending, Settleable
<1>2. pay' \in [Payments -> Payment]
  <2> DEFINE m == IF pay[x].kind = "MANDATE_FIRST" THEN x ELSE pay[x].mandate
             row == [pay[x] EXCEPT !.status = "PAID", !.mandate = m]
  <2>1. pay \in [Payments -> Payment] /\ pay[x] \in Payment /\ m \in Payments \cup {None}
    BY DEF IInv, TypeOK, Payment
  <2>2. row \in Payment
    BY <2>1 DEF Payment
  <2>3. pay' = [pay EXCEPT ![x] = row]
    BY <2>1 DEF Grant
  <2>4. QED BY <2>1, <2>2, <2>3
<1>3. /\ \A y \in Payments \ {x} : pay'[y] = pay[y]
      /\ pay'[x].status = "PAID"
      /\ pay'[x].linked = pay[x].linked /\ pay'[x].kind = pay[x].kind
      /\ pay'[x].renews = pay[x].renews /\ pay'[x].cart = c /\ pay'[x].item = pay[x].item
  BY DEF IInv, TypeOK, Grant, Payment
<1>4. /\ cart' \in [Carts -> Cart] /\ cart'[c].status = "PAID"
      /\ \A d \in Carts \ {c} : cart'[d] = cart[d]
  <2>1. cart \in [Carts -> Cart]
    BY DEF IInv, TypeOK
  <2> HIDE DEF c
  <2>2. cart' = [cart EXCEPT ![c].status = "PAID"]
    BY DEF Grant, c
  <2>3. cart' \in [Carts -> Cart]
    BY <1>1, <2>1, <2>2, CartStatusType
  <2>4. QED BY <1>1, <2>1, <2>2, <2>3 DEF Cart
<1>5. /\ sub' \in [Payments -> {"NONE", "TRIAL", "ACTIVE", "CANCELED"}]
      /\ sub'[x] = IF pay[x].kind = "TRIAL" THEN "TRIAL" ELSE "ACTIVE"
      /\ \A y \in Payments \ {x} : sub'[y] = sub[y]
  BY DEF IInv, TypeOK, Grant
<1>6. /\ offer' \in [Offers -> {"OFFERED", "ACCEPTED", "EXPIRED"}]
      /\ \A o \in Offers : offer'[o] = IF o = pay[x].item THEN "ACCEPTED" ELSE offer[o]
  BY DEF IInv, TypeOK, Grant
<1>7. mandate' \in [Payments -> MandateStatus]
  BY DEF IInv, TypeOK, Grant, MandateStatus
<1>8. /\ renewal' \in [Payments -> Renewal]
      /\ \A z \in Payments : renewal'[z].status =
           IF z = pay[x].renews /\ renewal[z].status \in Renewed THEN "PAID" ELSE renewal[z].status
  BY DEF IInv, TypeOK, Grant, Renewal
<1>9. TypeOK'
  BY <1>2, <1>4, <1>5, <1>6, <1>7, <1>8 DEF IInv, TypeOK
<1>10. RowInv'
  <2>1. \A y \in Payments : Settled(y) => cart'[pay[y].cart].status = "PAID"
    BY <1>4 DEF IInv, RowInv, Consistent, Settled
  <2>2. \A y \in Payments : sub[y] # "NONE" /\ pay[y].item \in Offers => offer'[pay[y].item] = "ACCEPTED"
    BY <1>6 DEF IInv, RowInv, Consistent
  <2>3. Consistent(x)'
    BY <1>3, <1>4, <1>5, <1>6 DEF IInv, RowInv, Consistent, Settled, Pending
  <2>4. QED BY <1>3, <1>5, <2>1, <2>2, <2>3, RowFrame DEF IInv
<1>11. RenewalInv' /\ BackedInv'
  <2>1. \A z \in Payments : pay'[z].renews = pay[z].renews
    BY <1>3
  <2>2. CASE pay[x].renews \in Payments
    <3>1. faults = 0 => renewal'[pay[x].renews].status = "PAID"
      BY <1>8, <2>2 DEF IInv, RenewalInv, Renewed
    <3>2. Settled(x)' /\ ~Pending(x)'
      BY <1>3 DEF Settled, Pending
    <3>3. \A z \in Payments \ {pay[x].renews} : renewal'[z].status = renewal[z].status
      BY <1>8
    <3>4. QED BY <1>3, <2>2, <3>1, <3>2, <3>3, RenewalMove DEF IInv
  <2>3. CASE pay[x].renews \notin Payments
    <3>1. \A z \in Payments : renewal'[z].status = renewal[z].status
      BY <1>8, <2>3
    <3>2. QED BY <1>3, <2>3, <3>1, RenewalFrame DEF IInv, Settled, Pending
  <2>4. QED BY <2>2, <2>3
<1>12. OneOpenCart'
  BY <1>4, OpenFrame DEF IInv, OpenCarts
<1>13. SoldOnce'
  <2>1. ASSUME NEW y \in Payments \ {x}, sub[y] # "NONE"
        PROVE  /\ pay[x].item \in Offers => pay[y].item # pay[x].item
               /\ pay[x].kind # "TRIAL"
    BY <2>1 DEF IInv, RowInv, Consistent, Settleable, OfferStillOpen, NeverServed
  <2>2. QED BY <1>3, <1>5, <2>1 DEF IInv, SoldOnce
<1>14. QED BY <1>3, <1>4, <1>9, <1>10, <1>11, <1>12, <1>13

\* The cart of a payment that is granted is held by nobody afterwards.
LEMMA GrantedCart ==
  ASSUME IInv, NEW x \in Payments, Pending(x), pay'[x].status = "PAID", UNCHANGED faults,
         \A y \in Payments \ {x} : pay'[y] = pay[y],
         \A d \in Carts \ {pay[x].cart} : cart'[d] = cart[d],
         NEW p \in Procs, \A q \in Procs \ {p} : call'[q] = call[q], call'[p].pc # "reopen"
  PROVE  CartInv'
<1>1. ~Reopening(x)
  BY DEF IInv, CallInv, Relies, Reopening, IsAt, Pending
<1>2. ASSUME NEW y \in Payments, Holds(y)' PROVE y # x /\ Holds(y)
  BY <1>1, <1>2, ReopeningFrame DEF Holds, Pending
<1>3. ASSUME NEW y \in Payments, Holds(y)' PROVE pay[y].cart \in Carts \ {pay[x].cart}
  <2>1. pay[y].cart # pay[x].cart
    BY <1>2, <1>3 DEF IInv, CartInv, Holds
  <2>2. QED BY <1>3, <2>1, Acting DEF IInv, RowInv, Consistent, Holds, Pending, Reopening, IsAt
<1>4. QED BY <1>2, <1>3, CartFrame DEF IInv, TypeOK

-----------------------------------------------------------------------------
(* The steps: one lemma per action, one step per conjunct of IInv.  The frame *)
(* lemmas above leave to each only what the action changes.                   *)

LEMMA GetOrCreateCartStep ==
  ASSUME IInv, NEW c \in Carts, GetOrCreateCart(c)
  PROVE  IInv'
<1>1. TypeOK'
  <2>1. cart' \in [Carts -> Cart]
    BY DEF IInv, TypeOK, GetOrCreateCart, Cart
  <2> QED BY <2>1 DEF IInv, TypeOK, GetOrCreateCart
<1>2. RowInv'
  BY SMTT(20) DEF IInv, GetOrCreateCart, RowInv, Consistent, Settled
<1>3. CartInv'
  <2>1. \A x0 \in Payments : Holds(x0)' => Holds(x0) /\ pay'[x0].cart = pay[x0].cart
    BY DEF GetOrCreateCart, Holds, Pending, Reopening, IsAt
  <2> QED BY <2>1 DEF IInv, GetOrCreateCart, CartInv
<1>4. CallInv'
  BY CallSame DEF IInv, GetOrCreateCart
<1>5. OwnerInv'
  BY DEF IInv, OwnerInv, Owns, GetOrCreateCart
<1>6. RenewalInv'
  BY RenewalSame DEF IInv, GetOrCreateCart
<1>7. BackedInv'
  BY RenewalSame DEF IInv, GetOrCreateCart
<1>8. OneOpenCart'
  BY DEF IInv, TypeOK, GetOrCreateCart, OneOpenCart, OpenCarts
<1>9. SoldOnce'
  BY SoldFrame DEF IInv, TypeOK, GetOrCreateCart
<1>10. QED BY <1>1, <1>2, <1>3, <1>4, <1>5, <1>6, <1>7, <1>8, <1>9 DEF IInv

LEMMA OrderOfferStep ==
  ASSUME IInv, NEW c \in Carts, NEW o \in Offers, OrderOffer(c, o)
  PROVE  IInv'
<1>1. TypeOK'
  <2>1. cart' \in [Carts -> Cart]
    BY DEF IInv, TypeOK, OrderOffer, InCart, Cart, Item
  <2> QED BY <2>1 DEF IInv, TypeOK, OrderOffer, InCart
<1>2. RowInv'
  BY NoneAssumption, SMTT(20) DEF IInv, OrderOffer, InCart, RowInv, Consistent, Settled
<1>3. CartInv'
  <2>1. \A x0 \in Payments : Holds(x0)' => Holds(x0) /\ pay'[x0].cart = pay[x0].cart
    BY DEF OrderOffer, Holds, Pending, Reopening, IsAt
  <2> QED BY <2>1 DEF IInv, OrderOffer, InCart, CartInv
<1>4. CallInv'
  BY CallSame DEF IInv, OrderOffer, InCart
<1>5. OwnerInv'
  BY DEF IInv, OwnerInv, Owns, OrderOffer, InCart
<1>6. RenewalInv'
  BY RenewalSame DEF IInv, OrderOffer, InCart
<1>7. BackedInv'
  BY RenewalSame DEF IInv, OrderOffer, InCart
<1>8. OneOpenCart'
  BY OpenFrame DEF IInv, OrderOffer, InCart, OpenCarts
<1>9. SoldOnce'
  BY SoldFrame DEF IInv, TypeOK, OrderOffer, InCart
<1>10. QED BY <1>1, <1>2, <1>3, <1>4, <1>5, <1>6, <1>7, <1>8, <1>9 DEF IInv

LEMMA AddProductStep ==
  ASSUME IInv, NEW c \in Carts, AddProduct(c)
  PROVE  IInv'
<1>1. TypeOK'
  <2>1. cart' \in [Carts -> Cart]
    BY DEF IInv, TypeOK, AddProduct, InCart, Cart, Item
  <2> QED BY <2>1 DEF IInv, TypeOK, AddProduct, InCart
<1>2. RowInv'
  BY SMTT(20) DEF IInv, AddProduct, InCart, RowInv, Consistent, Settled
<1>3. CartInv'
  <2>1. \A x0 \in Payments : Holds(x0)' => Holds(x0) /\ pay'[x0].cart = pay[x0].cart
    BY DEF AddProduct, Holds, Pending, Reopening, IsAt
  <2> QED BY <2>1 DEF IInv, AddProduct, InCart, CartInv
<1>4. CallInv'
  BY CallSame DEF IInv, AddProduct, InCart
<1>5. OwnerInv'
  BY DEF IInv, OwnerInv, Owns, AddProduct, InCart
<1>6. RenewalInv'
  BY RenewalSame DEF IInv, AddProduct, InCart
<1>7. BackedInv'
  BY RenewalSame DEF IInv, AddProduct, InCart
<1>8. OneOpenCart'
  BY OpenFrame DEF IInv, AddProduct, InCart, OpenCarts
<1>9. SoldOnce'
  BY SoldFrame DEF IInv, TypeOK, AddProduct, InCart
<1>10. QED BY <1>1, <1>2, <1>3, <1>4, <1>5, <1>6, <1>7, <1>8, <1>9 DEF IInv

LEMMA RemoveProductStep ==
  ASSUME IInv, NEW c \in Carts, RemoveProduct(c)
  PROVE  IInv'
<1>1. TypeOK'
  <2>1. cart' \in [Carts -> Cart]
    BY DEF IInv, TypeOK, RemoveProduct, InCart, Cart, Item
  <2> QED BY <2>1 DEF IInv, TypeOK, RemoveProduct, InCart
<1>2. RowInv'
  BY SMTT(20) DEF IInv, RemoveProduct, InCart, RowInv, Consistent, Settled
<1>3. CartInv'
  <2>1. \A x0 \in Payments : Holds(x0)' => Holds(x0) /\ pay'[x0].cart = pay[x0].cart
    BY DEF RemoveProduct, Holds, Pending, Reopening, IsAt
  <2> QED BY <2>1 DEF IInv, RemoveProduct, InCart, CartInv
<1>4. CallInv'
  BY CallSame DEF IInv, RemoveProduct, InCart
<1>5. OwnerInv'
  BY DEF IInv, OwnerInv, Owns, RemoveProduct, InCart
<1>6. RenewalInv'
  BY RenewalSame DEF IInv, RemoveProduct, InCart
<1>7. BackedInv'
  BY RenewalSame DEF IInv, RemoveProduct, InCart
<1>8. OneOpenCart'
  BY OpenFrame DEF IInv, RemoveProduct, InCart, OpenCarts
<1>9. SoldOnce'
  BY SoldFrame DEF IInv, TypeOK, RemoveProduct, InCart
<1>10. QED BY <1>1, <1>2, <1>3, <1>4, <1>5, <1>6, <1>7, <1>8, <1>9 DEF IInv

LEMMA OfferLapsesStep ==
  ASSUME IInv, NEW o \in Offers, OfferLapses(o)
  PROVE  IInv'
<1>1. TypeOK'
  <2>1. offer' \in [Offers -> {"OFFERED", "ACCEPTED", "EXPIRED"}]
    BY Acting DEF IInv, TypeOK, OfferLapses, IsAt
  <2> QED BY <2>1 DEF IInv, TypeOK, OfferLapses
<1>2. RowInv'
  BY SMTT(20) DEF IInv, OfferLapses, RowInv, Consistent, Settled
<1>3. CartInv'
  BY CartSame DEF IInv, OfferLapses
<1>4. CallInv'
  BY CallSame DEF IInv, OfferLapses
<1>5. OwnerInv'
  BY DEF IInv, OwnerInv, Owns, OfferLapses
<1>6. RenewalInv'
  BY RenewalSame DEF IInv, OfferLapses
<1>7. BackedInv'
  BY RenewalSame DEF IInv, OfferLapses
<1>8. OneOpenCart'
  BY OpenFrame DEF IInv, OpenCarts, OfferLapses
<1>9. SoldOnce'
  BY SoldFrame DEF IInv, TypeOK, OfferLapses
<1>10. QED BY <1>1, <1>2, <1>3, <1>4, <1>5, <1>6, <1>7, <1>8, <1>9 DEF IInv

LEMMA CreateCheckoutStep ==
  ASSUME IInv, NEW u \in Procs, NEW c \in Carts, NEW x \in Payments, CreateCheckout(u, c, x)
  PROVE  IInv'
<1>1. TypeOK'
  <2>1. cart' \in [Carts -> Cart]
    BY DEF IInv, TypeOK, CreateCheckout, Cart
  <2>2. pay' \in [Payments -> Payment]
    <3>1. PICK kind \in Kinds(c) :
           pay' = [pay EXCEPT ![x] = [NoPayment EXCEPT !.status = "PENDING", !.kind = kind,
                                                      !.cart = c, !.item = cart[c].item]]
      BY DEF CreateCheckout, NewPayment
    <3>2. QED BY <3>1 DEF IInv, TypeOK, NoPayment, Payment, Cart, Kinds
  <2>3. call' \in [Procs -> Call]
    BY AtType DEF IInv, TypeOK, CreateCheckout, Pcs
  <2> QED BY <2>1, <2>2, <2>3 DEF IInv, TypeOK, CreateCheckout
<1>2. RowInv'
  BY Acting, NoneAssumption, SMTT(20)
     DEF IInv, TypeOK, CreateCheckout, NewPayment, NoPayment, Kinds, Manual, RowInv, Consistent,
         Settled
<1>3. CartInv'
  <2>1. \A z \in Payments \ {x} : Holds(z)' => Holds(z) /\ pay'[z] = pay[z]
    BY ReopeningFrame DEF CreateCheckout, NewPayment, At, Idle, Holds, Pending
  <2>2. \A z \in Payments : Holds(z) => pay[z].cart # c
    BY DEF IInv, CreateCheckout, CartInv
  <2>3. \A z \in Payments : Holds(z) => pay[z].cart \in Carts
    BY Acting DEF IInv, RowInv, Consistent, Holds, Pending, Reopening, IsAt
  <2>4. cart'[c].status = "CHECKOUT" /\ pay'[x].cart = c /\ \A d \in Carts \ {c} : cart'[d] = cart[d]
    BY DEF IInv, TypeOK, CreateCheckout, NewPayment
  <2>5. CartInv /\ faults' = faults /\ x \in Payments
    BY DEF IInv, CreateCheckout
  <2>6. \A z \in Payments \ {x} : Holds(z)' =>
          /\ Holds(z) /\ pay'[z].cart = pay[z].cart /\ pay[z].cart # c
          /\ cart'[pay[z].cart].status = cart[pay[z].cart].status
    BY <2>1, <2>2, <2>3, <2>4
  <2> QED BY <2>4, <2>5, <2>6, CartTake
<1>4. CallInv'
  BY Acting, NoneAssumption, SMTT(20)
     DEF IInv, TypeOK, CreateCheckout, NewPayment, NoPayment, Kinds, Manual, At, Idle, RowInv,
         Consistent, CallInv, Relies, OwnerInv, Owns, OwnerPc, Settled, Pending, Payment, Call,
         Gateway
<1>5. OwnerInv'
  <2>1. \A q \in Procs : ~Owns(q, x)
    BY DEF IInv, CreateCheckout, NewPayment, Owns, OwnerPc, CallInv, Relies
  <2>2. \A q \in Procs \ {u} : call'[q] = call[q]
    BY DEF IInv, TypeOK, CreateCheckout
  <2>3. call'[u].pay = x
    BY DEF IInv, TypeOK, CreateCheckout, At, Idle
  <2> QED BY <2>1, <2>2, <2>3 DEF IInv, OwnerInv, Owns
<1>6. RenewalInv'
  BY Acting, NoneAssumption, SMTT(20)
     DEF IInv, TypeOK, CreateCheckout, NewPayment, NoPayment, Kinds, Manual, RowInv, Consistent,
         RenewalInv, Attempts, Settled, Pending
<1>7. BackedInv'
  BY SMTT(20)
     DEF IInv, TypeOK, CreateCheckout, NewPayment, NoPayment, Kinds, RowInv, Consistent,
         BackedInv, Attempts, Settled, Pending
<1>8. OneOpenCart'
  BY OpenFrame DEF IInv, CreateCheckout, OpenCarts
<1>9. SoldOnce'
  BY SoldFrame DEF IInv, CreateCheckout, NewPayment, RowInv, Consistent, Settled
<1>10. QED BY <1>1, <1>2, <1>3, <1>4, <1>5, <1>6, <1>7, <1>8, <1>9 DEF IInv

LEMMA FinishManualStep ==
  ASSUME IInv, NEW u \in Procs, FinishManual(u)
  PROVE  IInv'
<1>0. PICK x : x = call[u].pay
  OBVIOUS
<1> USE <1>0
<1>1. x \in Payments /\ Pending(x) /\ pay[x].kind \in Manual /\ pay[x].cart \in Carts
  BY Acting DEF IInv, FinishManual, IsAt, CallInv, Relies
<1>2. call' \in [Procs -> Call] /\ \A q \in Procs : call'[q] = IF q = u THEN Idle ELSE call[q]
  BY ReturnType DEF IInv, TypeOK, FinishManual, Return
<1>3. OwnerInv'
  BY <1>2, OwnerFrame DEF IInv, TypeOK, OwnerPc, Idle
<1>4. ASSUME NEW q \in Procs \ {u}, call[q].pay = x PROVE call[q].pc \notin OwnerPc
  BY <1>1, <1>4 DEF IInv, OwnerInv, Owns, OwnerPc, FinishManual, IsAt
<1>5. CASE Settleable(x) /\ Grant(x)
  <2>1. /\ TypeOK' /\ RowInv' /\ RenewalInv' /\ BackedInv' /\ OneOpenCart' /\ SoldOnce'
        /\ \A y \in Payments \ {x} : pay'[y] = pay[y]
        /\ pay'[x].status = "PAID"
        /\ pay'[x].linked = pay[x].linked /\ pay'[x].kind = pay[x].kind
        /\ pay'[x].renews = pay[x].renews /\ pay'[x].cart = pay[x].cart
        /\ \A d \in Carts \ {pay[x].cart} : cart'[d] = cart[d]
    BY <1>1, <1>2, <1>5, Granting DEF FinishManual
  <2>2. CartInv'
    BY <1>1, <1>2, <2>1, GrantedCart DEF FinishManual, Idle
  <2>3. ASSUME NEW q \in Procs \ {u}, call[q].pc # "idle", call[q].pay = x PROVE Relies(q)'
    <3>1. /\ call'[q] = call[q] /\ Relies(q) /\ call[q].pc \notin OwnerPc
          /\ gw' = gw /\ faults' = faults
      BY <1>2, <1>4, <2>3 DEF IInv, CallInv, FinishManual
    <3>2. QED BY <2>1, <2>3, <3>1, BystanderRelies
  <2>4. CallInv'
    BY <1>1, <1>2, <2>1, <2>3, CallTouch, IdleRelies DEF IInv, FinishManual
  <2>5. QED BY <1>3, <2>1, <2>2, <2>4 DEF IInv
<1>6. CASE /\ pay' = [pay EXCEPT ![x].status = "FAILED"]
           /\ cart' = [cart EXCEPT ![pay[x].cart].status = IF @ = "CHECKOUT" THEN "CANCELED" ELSE @]
           /\ UNCHANGED <<offer, sub, mandate, renewal>>
  <2>1. /\ pay' \in [Payments -> Payment]
        /\ \A y \in Payments \ {x} : pay'[y] = pay[y]
        /\ pay'[x].status = "FAILED" /\ \A y \in Payments :
             /\ pay'[y].cart = pay[y].cart /\ pay'[y].linked = pay[y].linked
             /\ pay'[y].kind = pay[y].kind /\ pay'[y].item = pay[y].item /\ pay'[y].renews = pay[y].renews
    BY <1>1, <1>6, StatusChange DEF IInv, TypeOK
  <2>2. /\ cart' \in [Carts -> Cart]
        /\ \A d \in Carts : cart'[d].status # cart[d].status =>
             d = pay[x].cart /\ cart[d].status = "CHECKOUT" /\ cart'[d].status = "CANCELED"
    BY <1>1, <1>6 DEF IInv, TypeOK, Cart
  <2>3. TypeOK'
    BY <1>2, <1>6, <2>1, <2>2 DEF IInv, TypeOK, FinishManual
  <2>4. gw[x] = "NONE" /\ ~pay[x].linked /\ sub[x] = "NONE"
    BY <1>1 DEF IInv, RowInv, Consistent, Settled, Pending
  <2>5. RowInv'
    <3>1. \A y \in Payments : Settled(y) => cart'[pay[y].cart].status = "PAID"
      BY <2>2 DEF IInv, RowInv, Consistent, Settled
    <3>2. Consistent(x)'
      <4>1. /\ Consistent(x) /\ pay'[x].status = "FAILED" /\ pay'[x].cart = pay[x].cart
            /\ pay'[x].linked = pay[x].linked /\ pay'[x].kind = pay[x].kind
            /\ pay'[x].renews = pay[x].renews
            /\ UNCHANGED <<gw, sub, faults>>
        BY <1>1, <1>6, <2>1 DEF IInv, RowInv, FinishManual
      <4>2. QED BY <1>1, <4>1 DEF Consistent, Settled, Pending
    <3>3. \A y \in Payments : sub[y] # "NONE" /\ pay[y].item \in Offers => offer'[pay[y].item] = "ACCEPTED"
      BY <1>6 DEF IInv, RowInv, Consistent
    <3>4. RowInv /\ UNCHANGED <<gw, sub, faults>>
      BY <1>6 DEF IInv, FinishManual
    <3>5. QED BY <1>1, <2>1, <3>1, <3>2, <3>3, <3>4, RowFrame
  <2>6. CartInv'
    <3>1. ~Reopening(x)
      BY <1>1 DEF IInv, CallInv, Relies, Reopening, IsAt, Pending
    <3>2. ASSUME NEW y \in Payments, Holds(y)' PROVE y # x /\ Holds(y)
      BY <1>2, <2>1, <3>1, <3>2, ReopeningFrame DEF Holds, Pending, Idle
    <3>3. ASSUME NEW y \in Payments, Holds(y)' PROVE pay[y].cart \in Carts /\ pay[y].cart # pay[x].cart
      <4>1. pay[y].cart # pay[x].cart
        BY <1>1, <3>2, <3>3 DEF IInv, CartInv, Holds
      <4>2. QED BY <3>2, <3>3, <4>1, Acting
                   DEF IInv, RowInv, Consistent, Holds, Pending, Reopening, IsAt
    <3>4. QED BY <2>1, <2>2, <3>2, <3>3, CartFrame, FaultBoundAssumption
                 DEF IInv, TypeOK, FinishManual
  <2>7. CallInv'
    <3>1. ASSUME NEW q \in Procs \ {u}, call[q].pc # "idle", call[q].pay = x PROVE Relies(q)'
      <4>1. /\ call'[q] = call[q] /\ Relies(q) /\ call[q].pc \notin OwnerPc
            /\ gw' = gw /\ faults' = faults
        BY <1>2, <1>4, <3>1 DEF IInv, CallInv, FinishManual
      <4>2. QED BY <1>1, <2>1, <3>1, <4>1, BystanderRelies DEF Settled, Pending
    <3>2. QED BY <1>1, <1>2, <2>1, <3>1, CallTouch, IdleRelies DEF IInv, FinishManual
  <2>8. RenewalInv' /\ BackedInv'
    <3>1. pay[x].renews \notin Payments
      BY <1>1, NoneAssumption DEF IInv, RowInv, Consistent, Manual
    <3>2. QED BY <1>6, <2>1, <3>1, RenewalFrame DEF IInv, FinishManual, Settled, Pending
  <2>9. OneOpenCart'
    BY <2>2, OpenFrame DEF IInv, OpenCarts
  <2>10. SoldOnce'
    BY <1>6, <2>1, SoldFrame DEF IInv
  <2>11. QED BY <1>3, <2>3, <2>5, <2>6, <2>7, <2>8, <2>9, <2>10 DEF IInv
<1>7. QED BY <1>5, <1>6 DEF FinishManual

LEMMA OrderRefusedStep ==
  ASSUME IInv, NEW u \in Procs, OrderRefused(u)
  PROVE  IInv'
<1>1. TypeOK'
  <2>1. pay' \in [Payments -> Payment]
    BY StatusType DEF IInv, TypeOK, OrderRefused
  <2>2. call' \in [Procs -> Call]
    BY GotoType DEF IInv, TypeOK, OrderRefused, Pcs
  <2> QED BY <2>1, <2>2 DEF IInv, TypeOK, OrderRefused
<1>2. RowInv'
  BY Acting, NoneAssumption, SMTT(20)
     DEF IInv, TypeOK, OrderRefused, IsAt, RowInv, CallInv, Relies, Consistent, Settled,
         Pending, Payment, Cart, Gateway
<1>3. CartInv'
  <2>1. \A q \in Procs \ {u} : call'[q] = call[q]
    BY DEF IInv, TypeOK, OrderRefused, Goto
  <2>2. Pending(call[u].pay) /\ call'[u].pay = call[u].pay
    BY DEF IInv, OrderRefused, IsAt, Goto, CallInv, Relies
  <2>3. ASSUME NEW z \in Payments, Holds(z)' PROVE Holds(z) /\ pay'[z].cart = pay[z].cart
    BY <2>1, <2>2, <2>3 DEF OrderRefused, Holds, Pending, Reopening, IsAt
  <2> QED BY <2>3, CartFrame DEF IInv, TypeOK, OrderRefused
<1>4. CallInv'
  BY Acting, NoneAssumption, SMTT(20)
     DEF IInv, TypeOK, OrderRefused, Goto, IsAt, RowInv, Consistent, CallInv, Relies, OwnerInv,
         Owns, OwnerPc, Settled, Pending, Payment, Call, Gateway, Manual
<1>5. OwnerInv'
  BY OwnerFrame DEF IInv, TypeOK, OrderRefused, Goto, IsAt, OwnerPc
<1>6. RenewalInv' /\ BackedInv'
  <2>0. PICK x : x = call[u].pay
    OBVIOUS
  <2>1. x \in Payments /\ pay[x].renews = None
    <3>1. x \in Payments /\ Consistent(x) /\ pay[x].kind \in {"ONE_OFF", "MANDATE_FIRST"}
      BY <2>0 DEF IInv, OrderRefused, IsAt, CallInv, Relies, RowInv
    <3>2. QED BY <3>1 DEF Consistent
  <2>2. /\ \A y \in Payments \ {x} : pay'[y] = pay[y]
        /\ \A y \in Payments : pay'[y].renews = pay[y].renews
    BY <2>0, <2>1 DEF OrderRefused
  <2>3. QED BY <2>1, <2>2, RenewalFrame, NoneAssumption DEF IInv, OrderRefused, Settled, Pending
<1>7. OneOpenCart'
  BY OpenFrame DEF IInv, OpenCarts, OrderRefused
<1>8. SoldOnce'
  BY SoldFrame DEF IInv, OrderRefused
<1>9. QED BY <1>1, <1>2, <1>3, <1>4, <1>5, <1>6, <1>7, <1>8 DEF IInv

LEMMA ReopenCartStep ==
  ASSUME IInv, NEW u \in Procs, ReopenCart(u)
  PROVE  IInv'
<1>1. TypeOK'
  <2>1. cart' \in [Carts -> Cart]
    BY CartStatusType, GivenBackType DEF IInv, TypeOK, ReopenCart
  <2>2. call' \in [Procs -> Call]
    BY ReturnType DEF IInv, TypeOK, ReopenCart
  <2> QED BY <2>1, <2>2 DEF IInv, TypeOK, ReopenCart
<1>2. RowInv'
  <2>0. PICK x : x = call[u].pay
    OBVIOUS
  <2> USE <2>0
  <2>1. x \in Payments /\ Holds(x) /\ \A d \in Carts \ {pay[x].cart} : cart'[d] = cart[d]
    BY Acting DEF IInv, TypeOK, ReopenCart, IsAt, Holds, Reopening
  <2>2. cart[pay[x].cart].status # "PAID"
    BY <2>1 DEF IInv, CartInv
  <2>3. \A y \in Payments : Settled(y) => cart'[pay[y].cart].status = "PAID"
    BY <2>1, <2>2 DEF IInv, RowInv, Consistent, Settled
  <2> QED BY <2>3 DEF IInv, RowInv, Consistent, ReopenCart, Settled
<1>3. CartInv'
  <2>0. PICK x : x = call[u].pay
    OBVIOUS
  <2> USE <2>0
  <2>1. x \in Payments /\ Holds(x) /\ ~Pending(x) /\ pay[x].status # "NONE"
    BY DEF IInv, ReopenCart, IsAt, Holds, Pending, Reopening, CallInv, Relies
  <2>2. \A q \in Procs : call'[q] = IF q = u THEN Idle ELSE call[q]
    BY DEF IInv, TypeOK, ReopenCart, Return
  <2>3. ASSUME NEW y \in Payments, Holds(y)' PROVE y # x /\ Holds(y)
    BY <2>1, <2>2, <2>3
       DEF IInv, ReopenCart, Holds, Pending, Reopening, IsAt, Idle, OwnerInv, Owns, OwnerPc
  <2>4. \A y \in Payments : Holds(y)' => pay[y].cart # pay[x].cart
    BY <2>1, <2>3 DEF IInv, CartInv
  <2>5. \A y \in Payments : Holds(y) => pay[y].cart \in Carts
    BY Acting DEF IInv, RowInv, Consistent, Holds, Pending, Reopening, IsAt
  <2>6. \A d \in Carts \ {pay[x].cart} : cart'[d] = cart[d]
    BY DEF IInv, TypeOK, ReopenCart
  <2> QED BY <2>3, <2>4, <2>5, CartFrame DEF IInv, TypeOK, ReopenCart
<1>4. CallInv'
  BY CallFrame, IdleRelies DEF IInv, TypeOK, ReopenCart, Return
<1>5. OwnerInv'
  BY OwnerFrame DEF IInv, TypeOK, ReopenCart, Return, Idle, OwnerPc
<1>6. RenewalInv'
  BY RenewalSame DEF IInv, ReopenCart
<1>7. BackedInv'
  BY RenewalSame DEF IInv, ReopenCart
<1>8. OneOpenCart'
  <2> DEFINE c == pay[call[u].pay].cart
  <2>1. c \in Carts /\ cart' = [cart EXCEPT ![c].status = GivenBack(c)]
    BY Acting DEF ReopenCart, IsAt
  <2>2. CASE OpenCarts \ {c} = {}
    BY <2>1, <2>2 DEF OneOpenCart, OpenCarts
  <2>3. CASE OpenCarts \ {c} # {}
    BY <2>1 DEF IInv, TypeOK, OneOpenCart, OpenCarts, GivenBack
  <2> QED BY <2>2, <2>3
<1>9. SoldOnce'
  BY SoldFrame DEF IInv, TypeOK, ReopenCart
<1>10. QED BY <1>1, <1>2, <1>3, <1>4, <1>5, <1>6, <1>7, <1>8, <1>9 DEF IInv

LEMMA OrderCreatedStep ==
  ASSUME IInv, NEW u \in Procs, OrderCreated(u)
  PROVE  IInv'
<1>1. TypeOK'
  <2>1. gw' \in [Payments -> Gateway]
    BY DEF IInv, TypeOK, OrderCreated, AskGateway, Gateway
  <2>2. call' \in [Procs -> Call]
    BY GotoType, ReturnType DEF IInv, TypeOK, OrderCreated, AskGateway, Pcs
  <2> QED BY <2>1, <2>2 DEF IInv, TypeOK, OrderCreated, AskGateway
<1>2. RowInv'
  <2>0. PICK x : x = call[u].pay
    OBVIOUS
  <2> USE <2>0
  <2>1. x \in Payments /\ Pending(x) /\ pay[x].kind \notin Manual
    BY DEF IInv, OrderCreated, AskGateway, IsAt, CallInv, Relies, Manual
  <2>2. gw'[x] = "CREATED" /\ \A y \in Payments \ {x} : gw'[y] = gw[y]
    BY <2>1 DEF IInv, TypeOK, OrderCreated, AskGateway
  <2>3. Consistent(x)'
    BY <2>1 DEF IInv, OrderCreated, AskGateway, RowInv, Consistent, Pending, Settled
  <2> QED BY <2>1, <2>2, <2>3, RowFrame DEF IInv, OrderCreated, AskGateway, RowInv, Consistent
<1>3. CartInv'
  <2>1. \A x0 \in Payments : Holds(x0)' => Holds(x0) /\ pay'[x0].cart = pay[x0].cart
    BY
       DEF IInv, TypeOK, OrderCreated, AskGateway, Goto, Return, Idle, Holds, Pending,
           Reopening, IsAt, Payment, Call
  <2> QED BY <2>1 DEF IInv, OrderCreated, AskGateway, CartInv
<1>4. CallInv'
  BY Acting, NoneAssumption, SMTT(20)
     DEF IInv, TypeOK, OrderCreated, AskGateway, Goto, Return, Idle, IsAt, RowInv, Consistent,
         CallInv, Relies, OwnerInv, Owns, OwnerPc, Settled, Pending, Payment, Call, Gateway,
         Manual
<1>5. OwnerInv'
  BY OwnerFrame DEF IInv, TypeOK, OrderCreated, AskGateway, Goto, Return, Idle, IsAt, OwnerPc, Call
<1>6. RenewalInv'
  BY RenewalSame DEF IInv, OrderCreated, AskGateway
<1>7. BackedInv'
  BY RenewalSame DEF IInv, OrderCreated, AskGateway
<1>8. OneOpenCart'
  BY OpenFrame DEF IInv, OpenCarts, OrderCreated, AskGateway
<1>9. SoldOnce'
  BY SoldFrame DEF IInv, TypeOK, OrderCreated, AskGateway
<1>10. QED BY <1>1, <1>2, <1>3, <1>4, <1>5, <1>6, <1>7, <1>8, <1>9 DEF IInv

LEMMA StoreIdStep ==
  ASSUME IInv, NEW u \in Procs, StoreId(u)
  PROVE  IInv'
<1>1. TypeOK'
  <2>1. pay' \in [Payments -> Payment]
    BY LinkedType DEF IInv, TypeOK, StoreId
  <2>2. call' \in [Procs -> Call]
    BY ReturnType DEF IInv, TypeOK, StoreId
  <2> QED BY <2>1, <2>2 DEF IInv, TypeOK, StoreId
<1>2. RowInv'
  BY Acting, NoneAssumption, SMTT(20)
     DEF IInv, TypeOK, StoreId, IsAt, RowInv, CallInv, Relies, Consistent, Settled, Pending,
         Payment, Cart, Gateway
<1>3. CartInv'
  <2>1. \A x0 \in Payments : Holds(x0)' => Holds(x0) /\ pay'[x0].cart = pay[x0].cart
    BY DEF StoreId, Return, Idle, Holds, Pending, Reopening, IsAt
  <2> QED BY <2>1 DEF IInv, StoreId, CartInv
<1>4. CallInv'
  BY Acting, NoneAssumption, SMTT(20)
     DEF IInv, TypeOK, StoreId, Return, Idle, IsAt, RowInv, Consistent, CallInv, Relies,
         OwnerInv, Owns, OwnerPc, Settled, Pending, Payment, Call, Gateway, Manual
<1>5. OwnerInv'
  BY OwnerFrame DEF IInv, TypeOK, StoreId, Return, Idle, OwnerPc
<1>6. RenewalInv'
  BY Acting, NoneAssumption, SMTT(20)
     DEF IInv, TypeOK, StoreId, IsAt, RowInv, Consistent, CallInv, Relies, RenewalInv,
         BackedInv, Attempts, Settled, Pending, Payment, Renewal, NoPayment
<1>7. BackedInv'
  BY Acting, NoneAssumption, SMTT(20)
     DEF IInv, TypeOK, StoreId, IsAt, RowInv, Consistent, BackedInv, Attempts, Settled, Pending
<1>8. OneOpenCart'
  BY OpenFrame DEF IInv, OpenCarts, StoreId
<1>9. SoldOnce'
  BY SoldFrame DEF IInv, StoreId
<1>10. QED BY <1>1, <1>2, <1>3, <1>4, <1>5, <1>6, <1>7, <1>8, <1>9 DEF IInv

LEMMA AbortStep ==
  ASSUME IInv, NEW p \in Procs, Abort(p)
  PROVE  IInv'
<1>1. call' \in [Procs -> Call]
  BY ReturnType DEF IInv, TypeOK, Abort
<1>2. Relies(p)' /\ call'[p] = Idle
  BY IdleRelies DEF IInv, TypeOK, Abort, Return
<1>3. QED BY <1>1, <1>2, OnlyCall DEF Abort, Return, Idle, OwnerPc

LEMMA RecoverStep ==
  ASSUME IInv, NEW p \in Procs, NEW x \in Payments, Recover(p, x)
  PROVE  IInv'
<1>1. call' \in [Procs -> Call]
  BY AtType DEF IInv, TypeOK, Recover, Pcs
<1>2. Relies(p)'
  BY SMTT(20) DEF IInv, TypeOK, Recover, Asking, At, Idle, RowInv, Consistent, Relies, Settled
<1>3. QED BY <1>1, <1>2, OnlyCall DEF Recover, Asking, At, OwnerPc

LEMMA NotifyStep ==
  ASSUME IInv, NEW p \in Procs, NEW x \in Payments, Notify(p, x)
  PROVE  IInv'
<1>1. call' \in [Procs -> Call]
  BY AtType DEF IInv, TypeOK, Notify, Pcs
<1>2. Relies(p)'
  BY SMTT(20) DEF IInv, TypeOK, Notify, Asking, At, Idle, RowInv, Consistent, Relies, Settled
<1>3. QED BY <1>1, <1>2, OnlyCall DEF Notify, Asking, At, OwnerPc

LEMMA AskStep ==
  ASSUME IInv, NEW p \in Procs, Ask(p)
  PROVE  IInv'
<1>0. PICK x : x = call[p].pay
  OBVIOUS
<1> USE <1>0
<1>1. x \in Payments /\ gw[x] \in Gateway /\ gw[x] # "NONE"
  BY DEF IInv, TypeOK, Ask, IsAt, CallInv, Relies
<1>2. PICK s \in {"unpaid", "paid"} :
        /\ call' = [call EXCEPT ![p].pc = "answer", ![p].answer = gw[x], ![p].seen = s]
        /\ s = "paid" => call[p].seen = "paid"
  BY DEF IInv, TypeOK, Ask, Call
<1>3. call' \in [Procs -> Call]
  <2> DEFINE row == [call[p] EXCEPT !.pc = "answer", !.answer = gw[x], !.seen = s]
  <2>1. call \in [Procs -> Call] /\ call[p] \in Call
    BY DEF IInv, TypeOK
  <2>2. row \in Call
    BY <1>1, <2>1 DEF Call, Pcs
  <2>3. call' = [call EXCEPT ![p] = row]
    BY <1>2, <2>1
  <2>4. QED BY <2>1, <2>2, <2>3
<1>4. Relies(p)'
  BY <1>1, <1>2, Acting, SMTT(20)
     DEF IInv, TypeOK, Ask, IsAt, Call, CallInv, Relies, Settled, Pending
<1>5. QED BY <1>3, <1>4, OnlyCall DEF Ask, OwnerPc

LEMMA LinkStep ==
  ASSUME IInv, NEW p \in Procs, Link(p)
  PROVE  IInv'
<1>0. PICK x : x = call[p].pay
  OBVIOUS
<1> USE <1>0
<1>1. x \in Payments /\ gw[x] # "NONE" /\ pay[x].status # "NONE"
  BY DEF IInv, Link, IsAt, CallInv, Relies
<1>2. CASE UNCHANGED pay /\ (Return(p) \/ (pay[x].linked /\ Goto(p, "settle")))
  <2>1. call' \in [Procs -> Call]
    BY <1>2, GotoType, ReturnType DEF IInv, TypeOK, Pcs
  <2>2. Relies(p)'
    BY <1>1, <1>2 DEF IInv, TypeOK, Link, IsAt, Goto, Return, Idle, CallInv, Relies, Call, Settled
  <2>3. QED BY <1>2, <2>1, <2>2, OnlyCall DEF Link, Goto, Return, Idle, OwnerPc, Call
<1>3. CASE pay[x].status = "PENDING" /\ pay' = [pay EXCEPT ![x].linked = TRUE] /\ Goto(p, "settle")
  <2>1. call' \in [Procs -> Call] /\ call'[p].pc = "settle"
    BY <1>3 DEF IInv, TypeOK, Pcs, Goto, Call
  <2>2. TypeOK'
    BY <2>1, LinkedType DEF IInv, TypeOK, Link
  <2>3. /\ \A y \in Payments \ {x} : pay'[y] = pay[y]
        /\ pay'[x].linked
    BY <1>1, <1>3 DEF IInv, TypeOK, Payment
  <2>4. /\ \A y \in Payments : /\ pay'[y].status = pay[y].status /\ pay'[y].cart = pay[y].cart
                               /\ pay'[y].kind = pay[y].kind /\ pay'[y].item = pay[y].item
                               /\ pay'[y].renews = pay[y].renews
    BY <1>1, <1>3 DEF IInv, TypeOK, Payment
  <2>5. RowInv'
    <3>1. Consistent(x)'
      BY <1>1, <1>3, <2>4 DEF IInv, Link, RowInv, Consistent, Settled
    <3>2. QED BY <1>1, <2>3, <3>1, RowFrame DEF IInv, Link, RowInv, Consistent
  <2>6. \A q \in Procs \ {p} : call'[q] = call[q]
    BY <1>3 DEF IInv, TypeOK, Goto
  <2>7. CartInv'
    <3>1. ASSUME NEW y \in Payments, Holds(y)' PROVE Holds(y)
      BY <2>1, <2>4, <2>6, <3>1, ReopeningFrame DEF Holds, Pending
    <3>2. QED BY <2>4, <3>1, CartFrame DEF IInv, TypeOK, Link
  <2>8. CallInv'
    <3>1. Relies(p)'
      BY <1>1, <1>3, <2>3, <2>4 DEF IInv, TypeOK, Link, IsAt, Goto, CallInv, Relies, Call, Settled
    <3>2. ASSUME NEW q \in Procs \ {p}, call[q].pc # "idle", call[q].pay = x PROVE Relies(q)'
      BY <1>1, <2>3, <2>4, <2>6, <3>2 DEF IInv, Link, CallInv, Relies, Settled, Pending
    <3>3. QED BY <1>1, <2>3, <2>6, <3>1, <3>2, CallTouch DEF IInv, Link
  <2>9. OwnerInv'
    BY <2>1, <2>6, OwnerFrame DEF IInv, TypeOK, OwnerPc
  <2>10. RenewalInv' /\ BackedInv'
    BY <2>4, RenewalFrame DEF IInv, Link, Settled, Pending
  <2>11. OneOpenCart'
    BY OpenFrame DEF IInv, Link, OpenCarts
  <2>12. SoldOnce'
    BY <2>4, SoldFrame DEF IInv, Link
  <2>13. QED BY <2>2, <2>5, <2>7, <2>8, <2>9, <2>10, <2>11, <2>12 DEF IInv
<1>4. \/ pay[x].linked /\ Goto(p, "settle") /\ UNCHANGED pay
      \/ pay[x].status = "PENDING" /\ pay' = [pay EXCEPT ![x].linked = TRUE] /\ Goto(p, "settle")
      \/ Return(p) /\ UNCHANGED pay
  BY DEF Link
<1>5. CASE pay[x].linked /\ Goto(p, "settle") /\ UNCHANGED pay
  BY <1>2, <1>5
<1>6. CASE pay[x].status = "PENDING" /\ pay' = [pay EXCEPT ![x].linked = TRUE] /\ Goto(p, "settle")
  BY <1>3, <1>6
<1>7. CASE Return(p) /\ UNCHANGED pay
  BY <1>2, <1>7
<1>8. QED BY <1>4, <1>5, <1>6, <1>7

\* A late answer never grants what is settled, canceled or failed.
LEMMA OnlyPendingGranted ==
  ASSUME IInv, NEW p \in Procs, SettlePaid(p),
         pay[call[p].pay].status # "PAID", Settleable(call[p].pay)
  PROVE  Pending(call[p].pay)
<1>0. PICK x : x = call[p].pay
  OBVIOUS
<1>1. /\ x \in Payments /\ pay[x].status # "NONE" /\ pay[x].linked
      /\ gw[x] \in {"PAID", "REFUNDED"}
  BY <1>0 DEF IInv, SettlePaid, IsAt, CallInv, Relies
<1>2. QED BY <1>0, <1>1 DEF IInv, TypeOK, RowInv, Consistent, Settled, Settleable, Pending, Payment

LEMMA SettlePaidStep ==
  ASSUME IInv, NEW p \in Procs, SettlePaid(p)
  PROVE  IInv'
<1>0. PICK x : x = call[p].pay
  OBVIOUS
<1> USE <1>0
<1> DEFINE first == call[p].answer = "REFUNDED"
<1>1. /\ x \in Payments /\ pay[x].status # "NONE" /\ pay[x].cart \in Carts /\ pay[x].linked
      /\ gw[x] \in {"PAID", "REFUNDED"} /\ (first => gw[x] = "REFUNDED")
  BY Acting DEF IInv, SettlePaid, IsAt, CallInv, Relies
<1>2. /\ call' \in [Procs -> Call] /\ call'[p].pc \in {"refund", "idle"}
      /\ \A q \in Procs \ {p} : call'[q] = call[q]
      /\ call'[p].pc = "idle" => call'[p] = Idle
      /\ call'[p].pc = "refund" => call'[p].pay = x /\ call'[p].answer = "REFUNDED" /\ first
  BY ReturnType DEF IInv, TypeOK, SettlePaid, Goto, Return, Idle, Call, Pcs
<1>3. CASE /\ UNCHANGED <<pay, cart, offer, sub, mandate, renewal>>
           /\ call'[p].pc = "refund" => pay[x].status = "PAID"
  <2>1. Relies(p)'
    BY <1>1, <1>2, <1>3, IdleRelies DEF SettlePaid, Relies, Settled
  <2>2. QED BY <1>2, <1>3, <2>1, OnlyCall DEF SettlePaid, OwnerPc
<1>4. CASE pay[x].status # "PAID" /\ Settleable(x) /\ Grant(x)
  <2>1. Pending(x)
    BY <1>4, OnlyPendingGranted
  <2>2. /\ TypeOK' /\ RowInv' /\ RenewalInv' /\ BackedInv' /\ OneOpenCart' /\ SoldOnce'
        /\ \A y \in Payments \ {x} : pay'[y] = pay[y]
        /\ pay'[x].status = "PAID"
        /\ pay'[x].linked = pay[x].linked /\ pay'[x].kind = pay[x].kind
        /\ pay'[x].renews = pay[x].renews /\ pay'[x].cart = pay[x].cart
        /\ \A d \in Carts \ {pay[x].cart} : cart'[d] = cart[d]
    BY <1>1, <1>2, <1>4, <2>1, Granting DEF SettlePaid
  <2>3. CartInv'
    BY <1>1, <1>2, <2>1, <2>2, GrantedCart DEF SettlePaid
  <2>4. Relies(p)'
    BY <1>1, <1>2, <2>2, IdleRelies DEF SettlePaid, Relies, Settled
  <2>5. ASSUME NEW q \in Procs \ {p}, call[q].pc # "idle", call[q].pay = x PROVE Relies(q)'
    <3>1. pay[x].kind \notin Manual
      BY <1>1 DEF IInv, RowInv, Consistent
    <3>2. Relies(q) /\ call'[q] = call[q] /\ gw' = gw /\ faults' = faults
      BY <1>2, <2>5 DEF IInv, CallInv, SettlePaid
    <3>3. QED
      <4> DEFINE at(S) == call[q].pc \in S
      <4>1. ~at({"manual", "order", "reopen", "charge"})
        BY <1>1, <2>5, <3>1, <3>2 DEF Relies
      <4>2. faults = 0 => ~at({"fail", "failing"})
        BY <1>1, <2>5, <3>2 DEF Relies
      <4>3. /\ pay'[x].status = "PAID" /\ pay'[x].linked /\ pay'[x].renews = pay[x].renews
            /\ pay'[x].kind = pay[x].kind /\ gw'[x] = gw[x]
        BY <1>1, <2>2, <3>2
      <4>4. QED BY <2>5, <3>2, <4>1, <4>2, <4>3, SMTT(30) DEF Relies, Settled
  <2>6. CallInv'
    BY <1>1, <1>2, <2>2, <2>4, <2>5, CallTouch DEF IInv, SettlePaid
  <2>7. OwnerInv'
    BY <1>2, OwnerFrame DEF IInv, TypeOK, OwnerPc
  <2>8. QED BY <2>2, <2>3, <2>6, <2>7 DEF IInv
<1>5. QED BY <1>3, <1>4 DEF SettlePaid, Return, Idle, IInv, TypeOK

LEMMA SettleCanceledStep ==
  ASSUME IInv, NEW p \in Procs, SettleCanceled(p)
  PROVE  IInv'
<1>0. PICK x : x = call[p].pay
  OBVIOUS
<1> USE <1>0
<1> DEFINE c == pay[x].cart
<1>1. /\ x \in Payments /\ pay[x].status # "NONE" /\ c \in Carts
      /\ pay[x].linked /\ gw[x] = "CANCELED"
  BY Acting DEF IInv, SettleCanceled, IsAt, CallInv, Relies
<1>2. /\ call' \in [Procs -> Call] /\ call'[p] = Idle
      /\ \A q \in Procs \ {p} : call'[q] = call[q]
  BY ReturnType DEF IInv, TypeOK, SettleCanceled, Return
<1>3. CASE ~Pending(x)
  BY <1>2, <1>3, OnlyCall, IdleRelies DEF SettleCanceled, Cancel, Revocable, Pending, Idle, OwnerPc
<1>4. CASE Pending(x)
  <2>1. /\ pay' = [pay EXCEPT ![x].status = "CANCELED"]
        /\ renewal' = [y \in Payments |->
             IF y = pay[x].renews /\ renewal[y].status = "CHARGE_PENDING" THEN Refused(y) ELSE renewal[y]]
        /\ cart' = [d \in Carts |->
             IF d = c /\ cart[d].status = "CHECKOUT" THEN [cart[d] EXCEPT !.status = GivenBack(d)] ELSE cart[d]]
    BY <1>4 DEF SettleCanceled, Cancel, Revocable, Pending
  <2>2. /\ pay' \in [Payments -> Payment]
        /\ \A y \in Payments \ {x} : pay'[y] = pay[y]
        /\ pay'[x].status = "CANCELED" /\ \A y \in Payments :
             /\ pay'[y].cart = pay[y].cart /\ pay'[y].linked = pay[y].linked
             /\ pay'[y].kind = pay[y].kind /\ pay'[y].item = pay[y].item /\ pay'[y].renews = pay[y].renews
    BY <1>1, <2>1, StatusChange DEF IInv, TypeOK
  <2>3. /\ cart' \in [Carts -> Cart]
        /\ \A d \in Carts \ {c} : cart'[d] = cart[d]
        /\ cart'[c].status = IF cart[c].status = "CHECKOUT" THEN GivenBack(c) ELSE cart[c].status
    BY <1>1, <2>1, GivenBackType DEF IInv, TypeOK, Cart
  <2>4. TypeOK'
    <3>1. renewal' \in [Payments -> Renewal]
      BY <2>1, RefusedType DEF IInv, TypeOK
    <3>2. QED BY <1>2, <2>2, <2>3, <3>1 DEF IInv, TypeOK, SettleCanceled
  <2>5. RowInv'
    <3>1. \A y \in Payments : Settled(y) => cart'[pay[y].cart].status = "PAID"
      BY <2>3 DEF IInv, RowInv, Consistent, Settled
    <3>2. Consistent(x)'
      BY <1>1, <2>2 DEF IInv, SettleCanceled, RowInv, Consistent, Settled
    <3>3. QED BY <1>1, <2>2, <3>1, <3>2, RowFrame DEF IInv, SettleCanceled, RowInv, Consistent
  <2>6. CartInv'
    <3>1. ~Reopening(x)
      BY <1>4 DEF IInv, CallInv, Relies, Reopening, IsAt, Pending
    <3>2. ASSUME NEW y \in Payments, Holds(y)' PROVE y # x /\ Holds(y)
      BY <1>2, <2>2, <3>1, <3>2, ReopeningFrame DEF Holds, Pending, Idle
    <3>3. ASSUME NEW y \in Payments, Holds(y)' PROVE pay[y].cart \in Carts /\ pay[y].cart # c
      <4>1. pay[y].cart # c
        BY <1>1, <1>4, <3>2, <3>3 DEF IInv, CartInv, Holds
      <4>2. QED BY <3>2, <3>3, <4>1, Acting
                   DEF IInv, RowInv, Consistent, Holds, Pending, Reopening, IsAt
    <3>4. QED BY <2>2, <2>3, <3>2, <3>3, CartFrame, FaultBoundAssumption
                 DEF IInv, TypeOK, SettleCanceled
  <2>7. CallInv'
    <3>1. pay[x].kind \notin Manual
      BY <1>1 DEF IInv, RowInv, Consistent
    <3>2. ASSUME NEW q \in Procs \ {p}, call[q].pc # "idle", call[q].pay = x PROVE Relies(q)'
      BY <1>1, <1>2, <1>4, <2>2, <3>1, <3>2
         DEF IInv, SettleCanceled, CallInv, Relies, Settled, Pending
    <3>3. QED BY <1>1, <1>2, <2>2, <3>2, CallTouch, IdleRelies DEF IInv, SettleCanceled
  <2>8. OwnerInv'
    BY <1>2, OwnerFrame DEF IInv, TypeOK, OwnerPc, Idle
  <2>9. RenewalInv' /\ BackedInv'
    <3>1. ~Settled(x)' /\ ~Pending(x)' /\ ~Settled(x)
      BY <1>4, <2>2 DEF Settled, Pending
    <3>2. CASE pay[x].renews \in Payments
      <4> DEFINE r == pay[x].renews
      <4>1. faults = 0 => renewal'[r].status \in {"FAILED", "RETRY"}
        BY <1>1, <1>4, <2>1, <3>2 DEF IInv, TypeOK, RenewalInv, Refused, AfterFailure, Renewal
      <4>2. \A z \in Payments \ {r} : renewal'[z] = renewal[z]
        BY <2>1
      <4>3. QED BY <1>1, <1>4, <2>2, <3>1, <3>2, <4>1, <4>2, RenewalMove DEF IInv, SettleCanceled
    <3>3. CASE pay[x].renews \notin Payments
      <4>1. \A z \in Payments : renewal'[z] = renewal[z]
        BY <2>1, <3>3
      <4>2. QED BY <2>2, <3>3, <4>1, RenewalFrame DEF IInv, SettleCanceled, Settled, Pending
    <3>4. QED BY <3>2, <3>3
  <2>10. OneOpenCart'
    <3>1. CASE OpenCarts \ {c} = {}
      BY <2>3, <3>1 DEF OneOpenCart, OpenCarts
    <3>2. CASE OpenCarts \ {c} # {}
      BY <2>3, <3>2, OpenFrame DEF IInv, OpenCarts, GivenBack
    <3>3. QED BY <3>1, <3>2
  <2>11. SoldOnce'
    BY <2>2, SoldFrame DEF IInv, SettleCanceled
  <2>12. QED BY <2>4, <2>5, <2>6, <2>7, <2>8, <2>9, <2>10, <2>11 DEF IInv
<1>5. QED BY <1>3, <1>4

LEMMA SettleRefundedStep ==
  ASSUME IInv, NEW p \in Procs, SettleRefunded(p)
  PROVE  IInv'
<1>1. TypeOK'
  <2>1. pay' \in [Payments -> Payment]
    <3>1. CASE pay[call[p].pay].status = "PAID"
      BY <3>1, Acting, StatusType DEF IInv, TypeOK, SettleRefunded, Refund, IsAt
    <3>2. CASE pay[call[p].pay].status # "PAID"
      BY <3>2 DEF IInv, TypeOK, SettleRefunded, Refund
    <3>3. QED BY <3>1, <3>2
  <2>2. sub' \in [Payments -> {"NONE", "TRIAL", "ACTIVE", "CANCELED"}]
    BY DEF IInv, TypeOK, SettleRefunded, Refund
  <2>3. call' \in [Procs -> Call]
    BY ReturnType DEF IInv, TypeOK, SettleRefunded
  <2> QED BY <2>1, <2>3 DEF IInv, TypeOK, SettleRefunded, Refund
<1>2. RowInv'
  BY Acting, NoneAssumption, SMTT(20)
     DEF IInv, TypeOK, SettleRefunded, Refund, IsAt, RowInv, CallInv, Relies, Consistent,
         Settled, Pending, Payment, Cart, Gateway
<1>3. CartInv'
  <2>1. \A x0 \in Payments : Holds(x0)' => Holds(x0) /\ pay'[x0].cart = pay[x0].cart
    BY
       DEF IInv, TypeOK, SettleRefunded, Refund, Return, Idle, Holds, Pending, Reopening, IsAt,
           Payment
  <2> QED BY <2>1 DEF IInv, SettleRefunded, CartInv
<1>4. CallInv'
  BY Acting, NoneAssumption, SMTT(20)
     DEF IInv, TypeOK, SettleRefunded, Refund, Return, Idle, IsAt, RowInv, Consistent, CallInv,
         Relies, OwnerInv, Owns, OwnerPc, Settled, Pending, Payment, Call, Gateway, Manual
<1>5. OwnerInv'
  BY OwnerFrame DEF IInv, TypeOK, SettleRefunded, Return, Idle, OwnerPc
<1>6. RenewalInv'
  <2>1. \A y \in Payments : /\ pay'[y].renews = pay[y].renews
                            /\ (Pending(y)' <=> Pending(y)) /\ (Settled(y)' <=> Settled(y))
    BY DEF IInv, TypeOK, SettleRefunded, Refund, Payment, Pending, Settled
  <2> QED BY <2>1, RenewalFrame DEF IInv, SettleRefunded
<1>7. BackedInv'
  <2>1. \A y \in Payments : /\ pay'[y].renews = pay[y].renews
                            /\ (Pending(y)' <=> Pending(y)) /\ (Settled(y)' <=> Settled(y))
    BY DEF IInv, TypeOK, SettleRefunded, Refund, Payment, Pending, Settled
  <2> QED BY <2>1, RenewalFrame DEF IInv, SettleRefunded
<1>8. OneOpenCart'
  BY OpenFrame DEF IInv, OpenCarts, SettleRefunded, Refund
<1>9. SoldOnce'
  BY SoldFrame DEF IInv, TypeOK, SettleRefunded, Refund, IsAt, Payment
<1>10. QED BY <1>1, <1>2, <1>3, <1>4, <1>5, <1>6, <1>7, <1>8, <1>9 DEF IInv

LEMMA SettleNothingStep ==
  ASSUME IInv, NEW p \in Procs, SettleNothing(p)
  PROVE  IInv'
<1>1. call' \in [Procs -> Call]
  BY ReturnType DEF IInv, TypeOK, SettleNothing
<1>2. Relies(p)' /\ call'[p] = Idle
  BY IdleRelies DEF IInv, TypeOK, SettleNothing, Return
<1>3. QED BY <1>1, <1>2, OnlyCall DEF SettleNothing, Return, Idle, OwnerPc

LEMMA FindRenewalStep ==
  ASSUME IInv, NEW r \in Procs, NEW x \in Payments, FindRenewal(r, x)
  PROVE  IInv'
<1>1. call' \in [Procs -> Call]
  BY AtType DEF IInv, TypeOK, FindRenewal, Pcs
<1>2. Relies(r)'
  BY Acting, SMTT(20) DEF IInv, TypeOK, FindRenewal, At, Idle, RowInv, Consistent, Relies
<1>3. QED BY <1>1, <1>2, OnlyCall DEF FindRenewal, At, OwnerPc

LEMMA ScheduleStep ==
  ASSUME IInv, NEW r \in Procs, Schedule(r)
  PROVE  IInv'
<1>1. TypeOK'
  <2>1. renewal' \in [Payments -> Renewal]
    BY Acting DEF IInv, TypeOK, Schedule, IsAt, Renewal
  <2>2. call' \in [Procs -> Call]
    BY ReturnType DEF IInv, TypeOK, Schedule
  <2> QED BY <2>1, <2>2 DEF IInv, TypeOK, Schedule
<1>2. RowInv'
  BY RowSame DEF IInv, Schedule
<1>3. CartInv'
  <2>1. \A x0 \in Payments : Holds(x0)' => Holds(x0) /\ pay'[x0].cart = pay[x0].cart
    BY DEF Schedule, Return, Idle, Holds, Pending, Reopening, IsAt
  <2> QED BY <2>1 DEF IInv, Schedule, CartInv
<1>4. CallInv'
  BY CallFrame, IdleRelies DEF IInv, TypeOK, Schedule, Return
<1>5. OwnerInv'
  BY OwnerFrame DEF IInv, TypeOK, Schedule, Return, Idle, OwnerPc
<1>6. RenewalInv'
  BY Acting, NoneAssumption, SMTT(20)
     DEF IInv, TypeOK, Schedule, IsAt, RowInv, Consistent, RenewalInv, Attempts, Settled, Pending
<1>7. BackedInv'
  BY Acting, NoneAssumption, SMTT(20)
     DEF IInv, TypeOK, Schedule, IsAt, RowInv, Consistent, BackedInv, Attempts, Settled, Pending
<1>8. OneOpenCart'
  BY OpenFrame DEF IInv, OpenCarts, Schedule
<1>9. SoldOnce'
  BY SoldFrame DEF IInv, TypeOK, Schedule
<1>10. QED BY <1>1, <1>2, <1>3, <1>4, <1>5, <1>6, <1>7, <1>8, <1>9 DEF IInv

LEMMA SendNoticeStep ==
  ASSUME IInv, NEW x \in Payments, SendNotice(x)
  PROVE  IInv'
<1>1. TypeOK'
  <2>1. renewal' \in [Payments -> Renewal]
    BY DEF IInv, TypeOK, SendNotice, Renewal
  <2> QED BY <2>1 DEF IInv, TypeOK, SendNotice
<1>2. RowInv'
  BY RowSame DEF IInv, SendNotice
<1>3. CartInv'
  BY CartSame DEF IInv, SendNotice
<1>4. CallInv'
  BY CallSame DEF IInv, SendNotice
<1>5. OwnerInv'
  BY DEF IInv, OwnerInv, Owns, SendNotice
<1>6. RenewalInv'
  BY SMTT(20) DEF IInv, TypeOK, SendNotice, RenewalInv, Attempts, Settled, Pending
<1>7. BackedInv'
  BY SMTT(20) DEF IInv, TypeOK, SendNotice, BackedInv, Attempts, Settled, Pending
<1>8. OneOpenCart'
  BY OpenFrame DEF IInv, OpenCarts, SendNotice
<1>9. SoldOnce'
  BY SoldFrame DEF IInv, TypeOK, SendNotice
<1>10. QED BY <1>1, <1>2, <1>3, <1>4, <1>5, <1>6, <1>7, <1>8, <1>9 DEF IInv

LEMMA GiveUpStep ==
  ASSUME IInv, NEW r \in Procs, NEW x \in Payments, GiveUp(r, x)
  PROVE  IInv'
<1>1. TypeOK'
  <2>1. mandate' \in [Payments -> MandateStatus]
    BY DEF IInv, TypeOK, GiveUp, MandateStatus
  <2>2. renewal' \in [Payments -> Renewal]
    BY DEF IInv, TypeOK, GiveUp, Renewal
  <2> QED BY <2>1, <2>2 DEF IInv, TypeOK, GiveUp
<1>2. RowInv'
  BY RowSame DEF IInv, GiveUp
<1>3. CartInv'
  BY CartSame DEF IInv, GiveUp
<1>4. CallInv'
  BY CallSame DEF IInv, GiveUp
<1>5. OwnerInv'
  BY DEF IInv, OwnerInv, Owns, GiveUp
<1>6. RenewalInv'
  BY Acting, NoneAssumption, SMTT(20)
     DEF IInv, TypeOK, GiveUp, RowInv, Consistent, RenewalInv, Attempts, Settled, Pending
<1>7. BackedInv'
  BY Acting, NoneAssumption, SMTT(20)
     DEF IInv, TypeOK, GiveUp, RowInv, Consistent, BackedInv, Attempts, Settled, Pending
<1>8. OneOpenCart'
  BY OpenFrame DEF IInv, OpenCarts, GiveUp
<1>9. SoldOnce'
  BY SoldFrame DEF IInv, TypeOK, GiveUp
<1>10. QED BY <1>1, <1>2, <1>3, <1>4, <1>5, <1>6, <1>7, <1>8, <1>9 DEF IInv

LEMMA PrepareAttemptStep ==
  ASSUME IInv, NEW r \in Procs, NEW x \in Payments, NEW c \in Carts, NEW y \in Payments,
         PrepareAttempt(r, x, c, y)
  PROVE  IInv'
<1>1. TypeOK'
  <2>1. cart' \in [Carts -> Cart]
    BY DEF IInv, TypeOK, PrepareAttempt, NoCart, Cart, Item
  <2>2. pay' \in [Payments -> Payment]
    BY DEF IInv, TypeOK, PrepareAttempt, NoPayment, Payment, Item
  <2>3. renewal' \in [Payments -> Renewal]
    BY AttemptsAssumption DEF IInv, TypeOK, PrepareAttempt, Renewal
  <2>4. call' \in [Procs -> Call]
    BY AtType DEF IInv, TypeOK, PrepareAttempt, Pcs
  <2> QED BY <2>1, <2>2, <2>3, <2>4 DEF IInv, TypeOK, PrepareAttempt
<1>2. RowInv'
  BY Acting, NoneAssumption, SMTT(20)
     DEF IInv, TypeOK, PrepareAttempt, NoPayment, NoCart, RowInv, Consistent, Settled
<1>3. CartInv'
  <2>1. \A z \in Payments \ {y} : Holds(z)' => Holds(z) /\ pay'[z] = pay[z]
    BY ReopeningFrame DEF PrepareAttempt, At, Idle, Holds, Pending
  <2>2. \A z \in Payments : Holds(z) => pay[z].cart # c
    BY DEF IInv, PrepareAttempt, CartInv
  <2>3. \A z \in Payments : Holds(z) => pay[z].cart \in Carts
    BY Acting DEF IInv, RowInv, Consistent, Holds, Pending, Reopening, IsAt
  <2>4. cart'[c].status = "CHECKOUT" /\ pay'[y].cart = c /\ \A d \in Carts \ {c} : cart'[d] = cart[d]
    BY DEF IInv, TypeOK, PrepareAttempt
  <2>5. CartInv /\ faults' = faults
    BY DEF IInv, PrepareAttempt
  <2>6. \A z \in Payments \ {y} : Holds(z)' =>
          /\ Holds(z) /\ pay'[z].cart = pay[z].cart /\ pay[z].cart # c
          /\ cart'[pay[z].cart].status = cart[pay[z].cart].status
    BY <2>1, <2>2, <2>3, <2>4
  <2> QED BY <2>4, <2>5, <2>6, CartTake
<1>4. CallInv'
  BY Acting, NoneAssumption, SMTT(20)
     DEF IInv, TypeOK, PrepareAttempt, NoPayment, NoCart, At, Idle, RowInv, Consistent, CallInv,
         Relies, OwnerInv, Owns, OwnerPc, Settled, Pending, Payment, Call, Gateway, Manual
<1>5. OwnerInv'
  <2>1. \A q \in Procs : ~Owns(q, y)
    BY DEF IInv, PrepareAttempt, Owns, OwnerPc, CallInv, Relies
  <2>2. \A q \in Procs \ {r} : call'[q] = call[q]
    BY DEF IInv, TypeOK, PrepareAttempt
  <2>3. call'[r].pay = y
    BY DEF IInv, TypeOK, PrepareAttempt, At, Idle
  <2> QED BY <2>1, <2>2, <2>3 DEF IInv, OwnerInv, Owns
<1>6. RenewalInv'
  BY Acting, NoneAssumption, SMTT(20)
     DEF IInv, TypeOK, PrepareAttempt, NoPayment, NoCart, RowInv, Consistent, CallInv,
         RenewalInv, Attempts, Settled, Pending
<1>7. BackedInv'
  BY Acting, NoneAssumption, SMTT(20)
     DEF IInv, TypeOK, PrepareAttempt, NoPayment, NoCart, RowInv, Consistent, CallInv,
         BackedInv, Attempts, Settled, Pending
<1>8. OneOpenCart'
  BY OpenFrame DEF IInv, PrepareAttempt, OpenCarts
<1>9. SoldOnce'
  BY SoldFrame DEF IInv, PrepareAttempt, RowInv, Consistent, Settled
<1>10. QED BY <1>1, <1>2, <1>3, <1>4, <1>5, <1>6, <1>7, <1>8, <1>9 DEF IInv

LEMMA ChargeRefusedStep ==
  ASSUME IInv, NEW r \in Procs, ChargeRefused(r)
  PROVE  IInv'
<1>1. call' \in [Procs -> Call]
  BY GotoType DEF IInv, TypeOK, ChargeRefused, Pcs
<1>2. Relies(r)'
  BY SMTT(20) DEF IInv, TypeOK, ChargeRefused, Goto, CallInv, Relies, IsAt, Pending
<1>3. QED BY <1>1, <1>2, OnlyCall DEF ChargeRefused, Goto, IsAt, OwnerPc

LEMMA ChargeStep ==
  ASSUME IInv, NEW r \in Procs, Charge(r)
  PROVE  IInv'
<1>1. TypeOK'
  <2>1. gw' \in [Payments -> Gateway]
    BY DEF IInv, TypeOK, Charge, AskGateway, Gateway
  <2>2. call' \in [Procs -> Call]
    BY GotoType, ReturnType DEF IInv, TypeOK, Charge, AskGateway, Pcs
  <2> QED BY <2>1, <2>2 DEF IInv, TypeOK, Charge, AskGateway
<1>2. RowInv'
  <2>0. PICK x : x = call[r].pay
    OBVIOUS
  <2> USE <2>0
  <2>1. x \in Payments /\ Pending(x) /\ pay[x].kind \notin Manual
    <3>1. x \in Payments /\ Pending(x) /\ pay[x].renews \in Payments /\ Consistent(x)
      BY DEF IInv, Charge, AskGateway, IsAt, CallInv, Relies, RowInv
    <3>2. QED BY <3>1, NoneAssumption DEF Consistent, Manual
  <2>2. gw'[x] = "CREATED" /\ \A y \in Payments \ {x} : gw'[y] = gw[y]
    BY <2>1 DEF IInv, TypeOK, Charge, AskGateway
  <2>3. Consistent(x)'
    BY <2>1 DEF IInv, Charge, AskGateway, RowInv, Consistent, Pending, Settled
  <2> QED BY <2>1, <2>2, <2>3, RowFrame DEF IInv, Charge, AskGateway, RowInv, Consistent
<1>3. CartInv'
  <2>1. \A x0 \in Payments : Holds(x0)' => Holds(x0) /\ pay'[x0].cart = pay[x0].cart
    BY
       DEF IInv, TypeOK, Charge, AskGateway, Goto, Return, Idle, Holds, Pending, Reopening,
           IsAt, Payment, Call
  <2> QED BY <2>1 DEF IInv, Charge, AskGateway, CartInv
<1>4. CallInv'
  BY Acting, NoneAssumption, SMTT(20)
     DEF IInv, TypeOK, Charge, AskGateway, Goto, Return, Idle, IsAt, RowInv, Consistent,
         CallInv, Relies, OwnerInv, Owns, OwnerPc, Settled, Pending, Payment, Call, Gateway,
         Manual
<1>5. OwnerInv'
  BY OwnerFrame DEF IInv, TypeOK, Charge, AskGateway, Goto, Return, Idle, IsAt, OwnerPc, Call
<1>6. RenewalInv'
  BY RenewalSame DEF IInv, Charge, AskGateway
<1>7. BackedInv'
  BY RenewalSame DEF IInv, Charge, AskGateway
<1>8. OneOpenCart'
  BY OpenFrame DEF IInv, OpenCarts, Charge, AskGateway
<1>9. SoldOnce'
  BY SoldFrame DEF IInv, TypeOK, Charge, AskGateway
<1>10. QED BY <1>1, <1>2, <1>3, <1>4, <1>5, <1>6, <1>7, <1>8, <1>9 DEF IInv

LEMMA LinkChargeStep ==
  ASSUME IInv, NEW r \in Procs, LinkCharge(r)
  PROVE  IInv'
<1>1. TypeOK'
  <2>1. pay' \in [Payments -> Payment]
    BY LinkedType DEF IInv, TypeOK, LinkCharge
  <2>2. call' \in [Procs -> Call]
    BY Acting, AtType DEF IInv, TypeOK, LinkCharge, IsAt, Pcs
  <2> QED BY <2>1, <2>2 DEF IInv, TypeOK, LinkCharge
<1>2. RowInv'
  BY Acting, NoneAssumption, SMTT(20)
     DEF IInv, TypeOK, LinkCharge, IsAt, RowInv, CallInv, Relies, Consistent, Settled, Pending,
         Payment, Cart, Gateway
<1>3. CartInv'
  <2>1. \A x0 \in Payments : Holds(x0)' => Holds(x0) /\ pay'[x0].cart = pay[x0].cart
    BY DEF LinkCharge, Asking, At, Holds, Pending, Reopening, IsAt
  <2> QED BY <2>1 DEF IInv, LinkCharge, CartInv
<1>4. CallInv'
  BY Acting, NoneAssumption, SMTT(20)
     DEF IInv, TypeOK, LinkCharge, Asking, At, Idle, IsAt, RowInv, Consistent, CallInv, Relies,
         OwnerInv, Owns, OwnerPc, Settled, Pending, Payment, Call, Gateway, Manual
<1>5. OwnerInv'
  BY OwnerFrame DEF IInv, TypeOK, LinkCharge, Asking, At, OwnerPc
<1>6. RenewalInv'
  BY Acting, NoneAssumption, SMTT(20)
     DEF IInv, TypeOK, LinkCharge, IsAt, RowInv, Consistent, CallInv, Relies, RenewalInv,
         BackedInv, Attempts, Settled, Pending, Payment, Renewal, NoPayment
<1>7. BackedInv'
  BY Acting, NoneAssumption, SMTT(20)
     DEF IInv, TypeOK, LinkCharge, IsAt, RowInv, Consistent, RenewalInv, BackedInv, Attempts,
         Settled, Pending, Payment, Renewal, NoPayment
<1>8. OneOpenCart'
  BY OpenFrame DEF IInv, OpenCarts, LinkCharge
<1>9. SoldOnce'
  BY SoldFrame DEF IInv, LinkCharge
<1>10. QED BY <1>1, <1>2, <1>3, <1>4, <1>5, <1>6, <1>7, <1>8, <1>9 DEF IInv

LEMMA LinkChargeFailsStep ==
  ASSUME IInv, NEW r \in Procs, LinkChargeFails(r)
  PROVE  IInv'
<1>1. TypeOK'
  <2>1. call' \in [Procs -> Call]
    BY GotoType DEF IInv, TypeOK, LinkChargeFails, Pcs
  <2>2. faults' \in 0..MaxFaults
    BY FaultBoundAssumption DEF IInv, TypeOK, LinkChargeFails
  <2> QED BY <2>1, <2>2 DEF IInv, TypeOK, LinkChargeFails
<1>2. RowInv'
  BY Acting, NoneAssumption, SMTT(20)
     DEF IInv, TypeOK, LinkChargeFails, IsAt, RowInv, Consistent, Settled
<1>3. CartInv'
  <2>1. \A x0 \in Payments : Holds(x0)' => Holds(x0) /\ pay'[x0].cart = pay[x0].cart
    BY DEF LinkChargeFails, Goto, Holds, Pending, Reopening, IsAt
  <2> QED BY <2>1 DEF IInv, TypeOK, LinkChargeFails, CartInv
<1>4. CallInv'
  BY Acting, NoneAssumption, SMTT(20)
     DEF IInv, TypeOK, LinkChargeFails, Goto, IsAt, RowInv, Consistent, CallInv, Relies,
         OwnerInv, Owns, OwnerPc, Settled, Pending, Payment, Call, Gateway, Manual
<1>5. OwnerInv'
  BY OwnerFrame DEF IInv, TypeOK, LinkChargeFails, Goto, IsAt, OwnerPc
<1>6. RenewalInv'
  BY Acting, NoneAssumption, SMTT(20)
     DEF IInv, TypeOK, LinkChargeFails, IsAt, RowInv, Consistent, RenewalInv
<1>7. BackedInv'
  BY Acting, NoneAssumption, SMTT(20)
     DEF IInv, TypeOK, LinkChargeFails, IsAt, RowInv, Consistent, BackedInv
<1>8. OneOpenCart'
  BY OpenFrame DEF IInv, OpenCarts, LinkChargeFails
<1>9. SoldOnce'
  BY SoldFrame DEF IInv, TypeOK, LinkChargeFails
<1>10. QED BY <1>1, <1>2, <1>3, <1>4, <1>5, <1>6, <1>7, <1>8, <1>9 DEF IInv

LEMMA ReadFailedStep ==
  ASSUME IInv, NEW r \in Procs, ReadFailed(r)
  PROVE  IInv'
<1>1. call' \in [Procs -> Call]
  BY GotoType, ReturnType DEF IInv, TypeOK, ReadFailed, Pcs
<1>2. Relies(r)'
  BY Acting, SMTT(20)
     DEF IInv, TypeOK, ReadFailed, Goto, Return, Idle, Call, CallInv, Relies, IsAt, Settled,
         Pending
<1>3. /\ \A q \in Procs \ {r} : call'[q] = call[q]
      /\ call'[r].pc # "reopen"
      /\ call'[r].pc \in OwnerPc => call[r].pc \in OwnerPc /\ call'[r].pay = call[r].pay
  <2>1. call \in [Procs -> Call] /\ call[r] \in Call /\ call[r].pc = "fail"
    BY DEF IInv, TypeOK, ReadFailed, IsAt
  <2>2. CASE Goto(r, "failing")
    BY <2>1, <2>2 DEF Goto, OwnerPc, Call
  <2>3. CASE Return(r)
    BY <2>1, <2>3 DEF Return, Idle, OwnerPc
  <2>4. QED BY <2>2, <2>3 DEF ReadFailed
<1>4. QED BY <1>1, <1>2, <1>3, OnlyCall DEF ReadFailed

LEMMA FailAttemptStep ==
  ASSUME IInv, NEW r \in Procs, FailAttempt(r)
  PROVE  IInv'
<1>0. PICK y : y = call[r].pay
  OBVIOUS
<1> USE <1>0
<1> DEFINE x == pay[y].renews
           c == pay[y].cart
<1>1. /\ y \in Payments /\ x \in Payments /\ c \in Carts /\ pay[y].status # "NONE"
      /\ faults = 0 => Pending(y) /\ gw[y] = "NONE" /\ ~pay[y].linked
  BY DEF IInv, FailAttempt, IsAt, CallInv, Relies, RowInv, Consistent
<1>2. PICK s \in {"NONE", "PENDING", "PAID", "FAILED", "CANCELED", "REFUNDED"} :
        /\ pay' = [pay EXCEPT ![y].status = s]
        /\ \/ Pending(y) /\ ~pay[y].linked /\ s = "FAILED"
           \/ ~(Pending(y) /\ ~pay[y].linked) /\ s = pay[y].status
  BY <1>1 DEF IInv, TypeOK, FailAttempt, Payment, Pending
<1>3. PICK t \in {"NONE", "OPEN", "CHECKOUT", "PAID", "CANCELED"} :
        /\ cart' = [cart EXCEPT ![c].status = t]
        /\ t = IF cart[c].status = "CHECKOUT" THEN "CANCELED" ELSE cart[c].status
  BY <1>1 DEF IInv, TypeOK, FailAttempt, Cart
<1>4. /\ \A z \in Payments \ {y} : pay'[z] = pay[z]
      /\ pay'[y].status = s /\ pay'[y].linked = pay[y].linked /\ pay'[y].kind = pay[y].kind
      /\ pay'[y].cart = c /\ pay'[y].item = pay[y].item /\ pay'[y].renews = x
      /\ pay'[y].mandate = pay[y].mandate
  <2>1. pay \in [Payments -> Payment]
    BY DEF IInv, TypeOK
  <2>2. /\ \A z \in Payments \ {y} : pay'[z] = pay[z]
        /\ pay'[y].status = s
        /\ \A z \in Payments :
             /\ pay'[z].cart = pay[z].cart /\ pay'[z].linked = pay[z].linked
             /\ pay'[z].kind = pay[z].kind /\ pay'[z].item = pay[z].item
             /\ pay'[z].renews = pay[z].renews /\ pay'[z].mandate = pay[z].mandate
    BY <1>1, <1>2, <2>1, StatusChange
  <2>3. QED BY <1>1, <2>2
<1>5. /\ cart'[c].status = t /\ \A d \in Carts \ {c} : cart'[d] = cart[d]
      /\ \A q \in Procs : call'[q] = IF q = r THEN Idle ELSE call[q]
  BY <1>1, <1>3 DEF IInv, TypeOK, FailAttempt, Cart, Return
<1>6. TypeOK'
  <2>1. pay' \in [Payments -> Payment]
    BY <1>1, <1>2, StatusChange DEF IInv, TypeOK
  <2>2. cart' \in [Carts -> Cart]
    BY <1>1, <1>3, CartStatusType DEF IInv, TypeOK
  <2>3. renewal' \in [Payments -> Renewal]
    BY <1>1, RefusedType DEF IInv, TypeOK, FailAttempt
  <2>4. call' \in [Procs -> Call]
    BY ReturnType DEF IInv, TypeOK, FailAttempt
  <2>5. QED BY <2>1, <2>2, <2>3, <2>4 DEF IInv, TypeOK, FailAttempt
<1>7. RowInv'
  <2>1. ASSUME NEW z \in Payments, Settled(z) PROVE cart'[pay[z].cart].status = "PAID"
    <3>1. cart[pay[z].cart].status = "PAID" /\ pay[z].cart \in Carts
      BY <2>1 DEF IInv, RowInv, Consistent, Settled
    <3>2. CASE pay[z].cart = c
      BY <1>3, <1>5, <3>1, <3>2
    <3>3. CASE pay[z].cart # c
      BY <1>5, <3>1, <3>3
    <3>4. QED BY <3>2, <3>3
  <2>2. RowInv /\ UNCHANGED <<gw, sub, offer, faults>>
    BY DEF IInv, FailAttempt
  <2>3. Consistent(y)'
    <3>1. Consistent(y) /\ (Settled(y) => cart'[pay[y].cart].status = "PAID")
      BY <1>1, <2>1, <2>2 DEF RowInv
    <3>2. QED BY <1>1, <1>2, <1>4, <2>2, <3>1 DEF Consistent, Settled, Pending
  <2>4. \A z \in Payments : sub[z] # "NONE" /\ pay[z].item \in Offers => offer'[pay[z].item] = "ACCEPTED"
    BY <2>2 DEF RowInv, Consistent
  <2>5. QED BY <1>1, <1>4, <2>1, <2>2, <2>3, <2>4, RowFrame
<1>8. CartInv'
  <2>1. ASSUME NEW z \in Payments, Holds(z)' PROVE Holds(z) /\ pay'[z].cart = pay[z].cart
    BY <1>1, <1>2, <1>5, <2>1, ReopeningFrame DEF Holds, Pending, Idle
  <2>2. ASSUME NEW z \in Payments, Holds(z)', pay[z].cart = c, cart'[c].status # cart[c].status
        PROVE  faults > 0
    <3>1. CASE faults = 0
      <4>1. Pending(y) /\ ~Pending(y)'
        BY <1>1, <1>2, <1>4, <3>1 DEF Pending
      <4>2. ~Reopening(y)
        BY <4>1 DEF IInv, CallInv, Relies, Reopening, IsAt, Pending
      <4>3. ~Holds(y)'
        BY <1>5, <4>1, <4>2, ReopeningFrame DEF Holds, Idle
      <4>4. Holds(y) /\ z # y
        BY <2>2, <4>1, <4>3 DEF Holds
      <4>5. QED BY <1>1, <2>1, <2>2, <4>4 DEF IInv, CartInv
    <3>2. QED BY <3>1, FaultBoundAssumption DEF IInv, TypeOK
  <2>3. \A z \in Payments : Holds(z) => pay[z].cart \in Carts
    BY Acting DEF IInv, RowInv, Consistent, Holds, Pending, Reopening, IsAt
  <2>4. /\ cart'[c].status # cart[c].status => cart'[c].status = "CANCELED"
        /\ faults' = faults /\ faults \in Nat /\ CartInv
    <3>1. faults' = faults /\ faults \in Nat /\ CartInv
      BY FaultBoundAssumption DEF IInv, TypeOK, FailAttempt
    <3>2. QED BY <1>3, <1>5, <3>1
  <2>5. ASSUME NEW z \in Payments, Holds(z)'
        PROVE  \/ cart'[pay[z].cart].status = cart[pay[z].cart].status
               \/ faults' > 0 /\ cart'[pay[z].cart].status = "CANCELED"
    <3>1. CASE pay[z].cart = c
      BY <2>2, <2>4, <2>5, <3>1
    <3>2. CASE pay[z].cart # c
      BY <1>5, <2>1, <2>3, <2>5, <3>2
    <3>3. QED BY <3>1, <3>2
  <2>6. QED BY <2>1, <2>4, <2>5, CartFrame
<1>9. CallInv'
  <2>1. Relies(r)'
    BY <1>5, IdleRelies
  <2>2. ASSUME NEW q \in Procs \ {r}, call[q].pc # "idle", call[q].pay = y PROVE Relies(q)'
    <3>1. call[q].pc \notin OwnerPc
      BY <2>2, <1>1 DEF IInv, OwnerInv, Owns, OwnerPc, FailAttempt, IsAt
    <3>2. Relies(q) /\ call'[q] = call[q] /\ gw' = gw /\ faults' = faults
      BY <1>5, <2>2 DEF IInv, CallInv, FailAttempt
    <3>3. /\ pay'[y].status # "NONE" /\ pay'[y].linked = pay[y].linked
          /\ Settled(y) => pay'[y].status \in {"PAID", "REFUNDED"}
      BY <1>1, <1>2, <1>4 DEF Settled, Pending
    <3>4. QED BY <2>2, <3>1, <3>2, <3>3, BystanderRelies
  <2>3. QED BY <1>1, <1>4, <1>5, <2>1, <2>2, CallTouch DEF IInv, FailAttempt
<1>10. OwnerInv'
  BY <1>5, OwnerFrame DEF IInv, TypeOK, OwnerPc, Idle
<1>11. RenewalInv' /\ BackedInv'
  <2>1. renewal'[x].status \in {"FAILED", "RETRY"} /\ \A z \in Payments \ {x} : renewal'[z] = renewal[z]
    BY <1>1 DEF IInv, TypeOK, FailAttempt, Refused, AfterFailure, Renewal
  <2>2. \A z \in Payments : pay'[z].renews = pay[z].renews
    BY <1>4
  <2>3. faults = 0 => ~Settled(y)' /\ ~Pending(y)'
    BY <1>1, <1>2, <1>4 DEF Settled, Pending
  <2>4. /\ RenewalInv /\ BackedInv /\ faults' = faults
        /\ faults = 0 => Pending(y)
        /\ \A z \in Payments \ {y} : pay'[z].status = pay[z].status
    BY <1>1, <1>4 DEF IInv, FailAttempt
  <2>5. QED BY <1>1, <2>1, <2>2, <2>3, <2>4, RenewalMove
<1>12. OneOpenCart'
  BY <1>3, <1>5, OpenFrame DEF IInv, OpenCarts
<1>13. SoldOnce'
  BY <1>4, SoldFrame DEF IInv, FailAttempt
<1>14. QED BY <1>6, <1>7, <1>8, <1>9, <1>10, <1>11, <1>12, <1>13 DEF IInv

LEMMA RevokeMandateStep ==
  ASSUME IInv, NEW m \in Payments, RevokeMandate(m)
  PROVE  IInv'
<1>1. TypeOK'
  <2>1. mandate' \in [Payments -> MandateStatus]
    BY DEF IInv, TypeOK, RevokeMandate, MandateStatus
  <2>2. renewal' \in [Payments -> Renewal]
    BY Acting DEF IInv, TypeOK, RevokeMandate, Renewal
  <2> QED BY <2>1, <2>2 DEF IInv, TypeOK, RevokeMandate
<1>2. RowInv'
  BY RowSame DEF IInv, RevokeMandate
<1>3. CartInv'
  BY CartSame DEF IInv, RevokeMandate
<1>4. CallInv'
  BY CallSame DEF IInv, RevokeMandate, Withdrawn
<1>5. OwnerInv'
  BY DEF IInv, OwnerInv, Owns, RevokeMandate, Withdrawn
<1>6. RenewalInv'
  BY Acting, NoneAssumption, SMTT(20)
     DEF IInv, TypeOK, RevokeMandate, Withdrawn, RowInv, Consistent, RenewalInv, Attempts,
         Settled, Pending
<1>7. BackedInv'
  BY Acting, NoneAssumption, SMTT(20)
     DEF IInv, TypeOK, RevokeMandate, Withdrawn, RowInv, Consistent, BackedInv, Attempts,
         Settled, Pending
<1>8. OneOpenCart'
  BY OpenFrame DEF IInv, OpenCarts, RevokeMandate, Withdrawn
<1>9. SoldOnce'
  BY SoldFrame DEF IInv, TypeOK, RevokeMandate, Withdrawn
<1>10. QED BY <1>1, <1>2, <1>3, <1>4, <1>5, <1>6, <1>7, <1>8, <1>9 DEF IInv

LEMMA MandateLapsesStep ==
  ASSUME IInv, NEW m \in Payments, MandateLapses(m)
  PROVE  IInv'
<1>1. TypeOK'
  <2>1. mandate' \in [Payments -> MandateStatus]
    BY DEF IInv, TypeOK, MandateLapses, MandateStatus
  <2> QED BY <2>1 DEF IInv, TypeOK, MandateLapses
<1>2. RowInv'
  BY RowSame DEF IInv, MandateLapses
<1>3. CartInv'
  BY CartSame DEF IInv, MandateLapses
<1>4. CallInv'
  BY CallSame DEF IInv, MandateLapses
<1>5. OwnerInv'
  BY DEF IInv, OwnerInv, Owns, MandateLapses
<1>6. RenewalInv'
  BY RenewalSame DEF IInv, MandateLapses
<1>7. BackedInv'
  BY RenewalSame DEF IInv, MandateLapses
<1>8. OneOpenCart'
  BY OpenFrame DEF IInv, OpenCarts, MandateLapses
<1>9. SoldOnce'
  BY SoldFrame DEF IInv, TypeOK, MandateLapses
<1>10. QED BY <1>1, <1>2, <1>3, <1>4, <1>5, <1>6, <1>7, <1>8, <1>9 DEF IInv

LEMMA CancelSubscriptionStep ==
  ASSUME IInv, NEW x \in Payments, CancelSubscription(x)
  PROVE  IInv'
<1>1. TypeOK'
  <2>1. sub' \in [Payments -> {"NONE", "TRIAL", "ACTIVE", "CANCELED"}]
    BY Acting DEF IInv, TypeOK, CancelSubscription, IsAt
  <2> QED BY <2>1 DEF IInv, TypeOK, CancelSubscription
<1>2. RowInv'
  BY NoneAssumption, SMTT(20) DEF IInv, TypeOK, CancelSubscription, RowInv, Consistent, Settled
<1>3. CartInv'
  BY CartSame DEF IInv, CancelSubscription
<1>4. CallInv'
  BY CallSame DEF IInv, CancelSubscription
<1>5. OwnerInv'
  BY DEF IInv, OwnerInv, Owns, CancelSubscription
<1>6. RenewalInv'
  BY RenewalSame DEF IInv, CancelSubscription
<1>7. BackedInv'
  BY RenewalSame DEF IInv, CancelSubscription
<1>8. OneOpenCart'
  BY OpenFrame DEF IInv, OpenCarts, CancelSubscription
<1>9. SoldOnce'
  BY SoldFrame DEF IInv, CancelSubscription
<1>10. QED BY <1>1, <1>2, <1>3, <1>4, <1>5, <1>6, <1>7, <1>8, <1>9 DEF IInv

LEMMA GatewayMovesStep ==
  ASSUME IInv, NEW x \in Payments, GatewayMoves(x)
  PROVE  IInv'
<1>1. TypeOK'
  <2>1. gw' \in [Payments -> Gateway]
    BY DEF IInv, TypeOK, GatewayMoves, Gateway
  <2> QED BY <2>1 DEF IInv, TypeOK, GatewayMoves
<1>2. RowInv'
  BY Acting, NoneAssumption, SMTT(20) DEF IInv, TypeOK, GatewayMoves, RowInv, Consistent, Settled
<1>3. CartInv'
  BY CartSame DEF IInv, GatewayMoves
<1>4. CallInv'
  <2>1. /\ gw[x] \in {"CREATED", "PAID"} /\ gw'[x] \in {"PAID", "CANCELED", "REFUNDED"}
        /\ gw[x] = "PAID" => gw'[x] = "REFUNDED"
    BY DEF IInv, TypeOK, GatewayMoves
  <2>2. \A y \in Payments \ {x} : gw'[y] = gw[y]
    BY DEF IInv, TypeOK, GatewayMoves
  <2>3. ASSUME NEW q \in Procs PROVE Relies(q)'
    <3>1. CASE call[q].pc = "idle"
      BY <3>1, IdleRelies DEF IInv, GatewayMoves, CallInv, Relies
    <3>2. CASE call[q].pc # "idle" /\ call[q].pay # x
      BY <2>2, <3>2 DEF IInv, GatewayMoves, CallInv, Relies, Settled, Pending
    <3>3. CASE call[q].pc # "idle" /\ call[q].pay = x
      BY <2>1, <3>3 DEF IInv, GatewayMoves, CallInv, Relies, Settled, Pending
    <3>4. QED BY <3>1, <3>2, <3>3
  <2> QED BY <2>3 DEF CallInv
<1>5. OwnerInv'
  BY DEF IInv, OwnerInv, Owns, GatewayMoves
<1>6. RenewalInv'
  BY RenewalSame DEF IInv, GatewayMoves
<1>7. BackedInv'
  BY RenewalSame DEF IInv, GatewayMoves
<1>8. OneOpenCart'
  BY OpenFrame DEF IInv, OpenCarts, GatewayMoves
<1>9. SoldOnce'
  BY SoldFrame DEF IInv, TypeOK, GatewayMoves
<1>10. QED BY <1>1, <1>2, <1>3, <1>4, <1>5, <1>6, <1>7, <1>8, <1>9 DEF IInv

-----------------------------------------------------------------------------
(* The invariant *)

LEMMA InitCases ==
  ASSUME Init
  PROVE  \E f \in Payments \cup {None}, k \in Carts \cup {None} :
           InitWith(f, k) /\ (f = None <=> k = None)
BY NoneAssumption DEF Init

\* At the start at most one service is sold, and it is paid.
LEMMA InitInv ==
  ASSUME Init
  PROVE  IInv
<1>1. PICK f \in Payments \cup {None}, k \in Carts \cup {None} :
        InitWith(f, k) /\ (f = None <=> k = None)
  BY InitCases
<1>2. pay \in [Payments -> Payment]
  BY <1>1 DEF InitWith, Paid, NoPayment, Payment, Item
<1>3. cart \in [Carts -> Cart]
  BY <1>1 DEF InitWith, NoCart, Cart, Item
<1>4. call \in [Procs -> Call]
  BY <1>1 DEF InitWith, Idle, Call, Pcs, Gateway
<1>5. TypeOK
  <2>1. renewal \in [Payments -> Renewal]
    BY <1>1, AttemptsAssumption DEF InitWith, NoRenewal, Renewal
  <2>2. faults \in 0..MaxFaults
    BY <1>1, FaultBoundAssumption DEF InitWith
  <2>3. /\ offer \in [Offers -> {"OFFERED", "ACCEPTED", "EXPIRED"}]
        /\ sub \in [Payments -> {"NONE", "TRIAL", "ACTIVE", "CANCELED"}]
        /\ mandate \in [Payments -> MandateStatus]
        /\ gw \in [Payments -> Gateway]
    BY <1>1 DEF InitWith, MandateStatus, Gateway
  <2>4. QED BY <1>2, <1>3, <1>4, <2>1, <2>2, <2>3 DEF TypeOK
<1>6. ASSUME NEW x \in Payments, x # f
      PROVE  pay[x] = NoPayment /\ gw[x] = "NONE" /\ sub[x] = "NONE"
  BY <1>1, <1>6 DEF InitWith
<1>7. ASSUME f \in Payments
      PROVE  /\ k \in Carts /\ pay[f].status = "PAID" /\ pay[f].cart = k /\ pay[f].linked
             /\ pay[f].kind = "MANDATE_FIRST" /\ pay[f].item = Empty /\ pay[f].renews = None
             /\ gw[f] = "PAID" /\ sub[f] = "ACTIVE" /\ cart[k].status = "PAID"
  BY <1>1, <1>7, NoneAssumption DEF InitWith, Paid, NoPayment, NoCart
<1>8. \A x \in Payments : ~Pending(x) /\ pay[x].renews = None
  BY <1>6, <1>7 DEF Pending, NoPayment
<1>9. \A p \in Procs : call[p] = Idle
  BY <1>1 DEF InitWith
<1>10. RowInv
  <2>1. ASSUME NEW x \in Payments, x # f PROVE Consistent(x)
    <3>1. pay[x] = NoPayment /\ gw[x] = "NONE" /\ sub[x] = "NONE"
      BY <1>6, <2>1
    <3>2. /\ pay[x].status = "NONE" /\ ~pay[x].linked
          /\ pay[x].kind = "ONE_OFF" /\ pay[x].renews = None
      BY <3>1 DEF NoPayment
    <3>3. QED BY <3>1, <3>2 DEF Consistent, Settled, Manual
  <2>2. ASSUME f \in Payments PROVE Consistent(f)
    BY <1>7, <2>2, ItemsAssumption DEF Consistent, Settled, Manual
  <2>3. QED BY <2>1, <2>2 DEF RowInv
<1>11. CartInv
  BY <1>8, <1>9 DEF CartInv, Holds, Reopening, IsAt, Idle
<1>12. CallInv
  BY <1>9 DEF CallInv, Relies, Idle
<1>13. OwnerInv
  BY <1>9 DEF OwnerInv, Owns, OwnerPc, Idle
<1>14. RenewalInv
  BY <1>8, NoneAssumption DEF RenewalInv
<1>15. BackedInv
  BY <1>1 DEF InitWith, NoRenewal, BackedInv
<1>16. OneOpenCart
  BY <1>1 DEF InitWith, NoCart, OneOpenCart, OpenCarts
<1>17. SoldOnce
  BY <1>6 DEF SoldOnce
<1>18. QED BY <1>5, <1>10, <1>11, <1>12, <1>13, <1>14, <1>15, <1>16, <1>17 DEF IInv

LEMMA StutterStep ==
  ASSUME IInv, UNCHANGED vars
  PROVE  IInv'
<1>1. TypeOK' /\ OwnerInv' /\ OneOpenCart' /\ SoldOnce'
  BY DEF IInv, vars, TypeOK, OwnerInv, Owns, OneOpenCart, OpenCarts, SoldOnce
<1>2. RowInv' /\ CartInv' /\ CallInv' /\ RenewalInv' /\ BackedInv'
  BY RowSame, CartSame, CallSame, RenewalSame DEF IInv, vars
<1>3. QED BY <1>1, <1>2 DEF IInv

LEMMA CheckoutStep ==
  ASSUME IInv, NEW u \in Procs, Checkout(u)
  PROVE  IInv'
<1>1. ASSUME NEW c \in Carts, Shop(c) PROVE IInv'
  BY <1>1, GetOrCreateCartStep, AddProductStep, RemoveProductStep, OrderOfferStep DEF Shop
<1>2. ASSUME NEW c \in Carts, NEW x \in Payments, CreateCheckout(u, c, x) PROVE IInv'
  BY <1>2, CreateCheckoutStep
<1>3. CASE FinishManual(u) \/ OrderRefused(u) \/ ReopenCart(u) \/ OrderCreated(u) \/ StoreId(u)
  BY <1>3, FinishManualStep, OrderRefusedStep, ReopenCartStep, OrderCreatedStep, StoreIdStep
<1>4. QED BY <1>1, <1>2, <1>3 DEF Checkout

LEMMA ReconcileStep ==
  ASSUME IInv, NEW p \in Procs, Reconcile(p)
  PROVE  IInv'
BY AskStep, LinkStep, SettlePaidStep, SettleCanceledStep, SettleRefundedStep, SettleNothingStep
   DEF Reconcile

LEMMA RenewStep ==
  ASSUME IInv, NEW r \in Procs, Renew(r)
  PROVE  IInv'
<1>1. ASSUME NEW x \in Payments, FindRenewal(r, x) \/ GiveUp(r, x) PROVE IInv'
  BY <1>1, FindRenewalStep, GiveUpStep
<1>2. ASSUME NEW x \in Payments, NEW y \in Payments, NEW c \in Carts, PrepareAttempt(r, x, c, y)
      PROVE  IInv'
  BY <1>2, PrepareAttemptStep
<1>3. CASE \/ Schedule(r) \/ ChargeRefused(r) \/ Charge(r) \/ LinkCharge(r)
           \/ LinkChargeFails(r) \/ ReadFailed(r) \/ FailAttempt(r)
  BY <1>3, ScheduleStep, ChargeRefusedStep, ChargeStep, LinkChargeStep, LinkChargeFailsStep,
     ReadFailedStep, FailAttemptStep
<1>4. QED BY <1>1, <1>2, <1>3 DEF Renew

\* Every step of every process keeps the invariant.
LEMMA NextStep ==
  ASSUME IInv, Next
  PROVE  IInv'
<1>1. CASE \E o \in Offers : OfferLapses(o)
  BY <1>1, OfferLapsesStep
<1>2. CASE \E u \in Shoppers : Checkout(u)
  BY <1>2, CheckoutStep DEF Procs
<1>3. ASSUME NEW r \in Runners, Renew(r) \/ \E x \in Payments : Recover(r, x) PROVE IInv'
  BY <1>3, RenewStep, RecoverStep DEF Procs
<1>4. ASSUME NEW n \in Notifiers, NEW x \in Payments, Notify(n, x) PROVE IInv'
  BY <1>4, NotifyStep DEF Procs
<1>5. ASSUME NEW p \in Runners \cup Notifiers, Reconcile(p) PROVE IInv'
  BY <1>5, ReconcileStep DEF Procs
<1>6. ASSUME NEW p \in Procs, Abort(p) PROVE IInv'
  BY <1>6, AbortStep
<1>7. ASSUME NEW x \in Payments,
             \/ SendNotice(x) \/ RevokeMandate(x) \/ MandateLapses(x)
             \/ CancelSubscription(x) \/ GatewayMoves(x)
      PROVE  IInv'
  BY <1>7, SendNoticeStep, RevokeMandateStep, MandateLapsesStep, CancelSubscriptionStep,
     GatewayMovesStep
<1>8. QED BY <1>1, <1>2, <1>3, <1>4, <1>5, <1>6, <1>7 DEF Next

\* The rows of orders, payments and renewals, and what running calls rely on,
\* always agree.
THEOREM Invariance == Spec => []IInv
<1>1. Init => IInv
  BY InitInv
<1>2. IInv /\ [Next]_vars => IInv'
  BY NextStep, StutterStep
<1>3. QED BY <1>1, <1>2, PTL DEF Spec

-----------------------------------------------------------------------------
(* What follows *)

\* Every row and local state has its type.
THEOREM TypeCorrect == Spec => []TypeOK
<1>1. IInv => TypeOK
  BY DEF IInv
<1>2. QED BY <1>1, Invariance, PTL

\* A service is active only while its payment is paid, with money at the gateway
\* unless none was asked; a payment is canceled only when the gateway's is, and
\* failed, while no update fails, only when the gateway has none.
THEOREM Funded == Spec => []ServiceIsFunded
<1>1. IInv => ServiceIsFunded
  BY DEF IInv, RowInv, Consistent, Settled, ServiceIsFunded
<1>2. QED BY <1>1, Invariance, PTL

\* What is being paid can be neither edited nor paid again.
THEOREM Frozen == Spec => []CheckoutIsFrozen
<1>1. ASSUME IInv, faults = 0, NEW x \in Payments, Pending(x)
      PROVE  cart[pay[x].cart].status = "CHECKOUT" /\ Paying(pay[x].cart) = {x}
  <2>1. cart[pay[x].cart].status = "CHECKOUT"
    BY <1>1 DEF IInv, CartInv, Holds
  <2>2. \A y \in Paying(pay[x].cart) : y = x
    BY <1>1 DEF IInv, CartInv, Holds, Pending, Paying
  <2>3. QED BY <1>1, <2>1, <2>2 DEF Paying, Pending
<1>2. IInv => CheckoutIsFrozen
  BY <1>1 DEF CheckoutIsFrozen, Pending
<1>3. QED BY <1>2, Invariance, PTL

\* The customer has one open cart, so giving one back never hits the index.
THEOREM OneOpen == Spec => []OneOpenCart
<1>1. IInv => OneOpenCart
  BY DEF IInv
<1>2. QED BY <1>1, Invariance, PTL

\* One service per offer and one trial per customer.
THEOREM OneSale == Spec => []SoldOnce
<1>1. IInv => SoldOnce
  BY DEF IInv
<1>2. QED BY <1>1, Invariance, PTL

\* While no update fails, two attempts at a renewal never both hold money.
THEOREM OneCharge == Spec => []ChargedOnceIfStored
<1>1. ASSUME IInv, faults = 0, NEW y \in Payments, Charges(y), gw[y] # "CANCELED"
      PROVE  Pending(y) \/ Settled(y)
  BY <1>1 DEF IInv, TypeOK, RowInv, Consistent, Charges, Pending, Settled, Payment
<1>2. IInv => ChargedOnceIfStored
  BY <1>1 DEF IInv, RenewalInv, ChargedOnceIfStored, ChargedOnce, Charges, Attempts
<1>3. QED BY <1>2, Invariance, PTL

\* While no update fails, a renewal is paid when one of its attempts was, and
\* pending when one of them is.
THEOREM TrueRenewal == Spec => []RenewalIsTrue
<1>1. IInv => RenewalIsTrue
  BY DEF IInv, RenewalInv, BackedInv, RenewalIsTrue, Attempts, Settled, Pending
<1>2. QED BY <1>1, Invariance, PTL

\* How the status of a payment may change in a step.
Progress(x) ==
  \/ pay'[x].status = pay[x].status
  \/ pay[x].status \in {"NONE", "PENDING"}
  \/ pay[x].status = "PAID" /\ pay'[x].status = "REFUNDED"

LEMMA CheckoutProgress ==
  ASSUME IInv, NEW u \in Procs, Checkout(u), NEW x \in Payments
  PROVE  Progress(x)
<1>1. CASE UNCHANGED pay
  BY <1>1 DEF Progress
<1>2. ASSUME NEW c \in Carts, NEW y \in Payments, CreateCheckout(u, c, y) PROVE Progress(x)
  <2>1. pay[y].status = "NONE" /\ (x # y => pay'[x] = pay[x])
    BY <1>2 DEF IInv, TypeOK, CreateCheckout, NewPayment
  <2>2. QED BY <2>1 DEF Progress
<1>3. CASE FinishManual(u)
  <2>1. Pending(call[u].pay)
    BY <1>3 DEF IInv, FinishManual, IsAt, CallInv, Relies
  <2>2. x # call[u].pay => pay'[x] = pay[x]
    BY <1>3 DEF IInv, TypeOK, FinishManual, Grant
  <2>3. QED BY <2>1, <2>2 DEF Progress, Pending
<1>4. CASE OrderRefused(u)
  <2>1. Pending(call[u].pay)
    BY <1>4 DEF IInv, OrderRefused, IsAt, CallInv, Relies
  <2>2. x # call[u].pay => pay'[x] = pay[x]
    BY <1>4 DEF IInv, TypeOK, OrderRefused
  <2>3. QED BY <2>1, <2>2 DEF Progress, Pending
<1>5. CASE StoreId(u)
  <2>1. call[u].pay \in Payments
    BY <1>5, Acting DEF StoreId, IsAt
  <2>2. QED BY <1>5 DEF StoreId, Progress
<1>6. QED BY <1>1, <1>2, <1>3, <1>4, <1>5
             DEF Checkout, Shop, GetOrCreateCart, AddProduct, RemoveProduct, OrderOffer,
                 ReopenCart, OrderCreated, AskGateway

LEMMA ReconcileProgress ==
  ASSUME IInv, NEW p \in Procs, Reconcile(p), NEW x \in Payments
  PROVE  Progress(x)
<1>1. CASE UNCHANGED pay
  BY <1>1 DEF Progress
<1>2. CASE call[p].pc # "idle" /\ pay' = [pay EXCEPT ![call[p].pay].linked = TRUE]
  BY <1>2 DEF Progress
<1>3. CASE /\ SettlePaid(p) /\ pay[call[p].pay].status # "PAID"
           /\ Settleable(call[p].pay) /\ Grant(call[p].pay)
  <2>1. Pending(call[p].pay)
    BY <1>3, OnlyPendingGranted
  <2>2. x # call[p].pay => pay'[x] = pay[x]
    BY <1>3 DEF IInv, TypeOK, Grant
  <2>3. QED BY <2>1, <2>2 DEF Progress, Pending
<1>4. CASE SettleCanceled(p) /\ Pending(call[p].pay)
  <2>1. x # call[p].pay => pay'[x] = pay[x]
    BY <1>4 DEF IInv, TypeOK, SettleCanceled, Cancel
  <2>2. QED BY <1>4, <2>1 DEF Progress, Pending
<1>5. CASE SettleRefunded(p)
  <2>0. PICK y : y = call[p].pay
    OBVIOUS
  <2>1. y \in Payments
    BY <1>5, <2>0, Acting DEF SettleRefunded, IsAt
  <2>2. CASE pay[y].status = "PAID"
    BY <1>5, StatusChange DEF IInv, TypeOK, SettleRefunded, Refund, Progress
  <2>3. CASE pay[y].status # "PAID"
    BY <1>5, <2>0, <2>3 DEF SettleRefunded, Refund, Progress
  <2>4. QED BY <2>2, <2>3
<1>6. QED BY <1>1, <1>2, <1>3, <1>4, <1>5
             DEF Reconcile, Ask, Link, IsAt, SettlePaid, SettleCanceled, Cancel, Revocable,
                 Pending, SettleNothing

LEMMA RenewProgress ==
  ASSUME IInv, NEW r \in Procs, Renew(r), NEW x \in Payments
  PROVE  Progress(x)
<1>1. CASE UNCHANGED pay
  BY <1>1 DEF Progress
<1>2. ASSUME NEW z \in Payments, NEW y \in Payments, NEW c \in Carts, PrepareAttempt(r, z, c, y)
      PROVE  Progress(x)
  <2>1. pay[y].status = "NONE" /\ (x # y => pay'[x] = pay[x])
    BY <1>2 DEF IInv, TypeOK, PrepareAttempt
  <2>2. QED BY <2>1 DEF Progress
<1>3. CASE LinkCharge(r)
  <2>1. call[r].pay \in Payments
    BY <1>3, Acting DEF LinkCharge, IsAt
  <2>2. QED BY <1>3 DEF LinkCharge, Progress
<1>4. CASE FailAttempt(r)
  <2>0. PICK y : y = call[r].pay
    OBVIOUS
  <2>1. CASE x # y
    BY <1>4, <2>0, <2>1 DEF IInv, TypeOK, FailAttempt, Progress
  <2>2. CASE x = y /\ pay[y].status # "PENDING"
    BY <1>4 DEF IInv, TypeOK, FailAttempt, Payment, Progress
  <2>3. CASE x = y /\ pay[y].status = "PENDING"
    BY <2>3 DEF Progress
  <2>4. QED BY <2>1, <2>2, <2>3
<1>5. QED BY <1>1, <1>2, <1>3, <1>4
             DEF Renew, FindRenewal, GiveUp, Schedule, ChargeRefused, Charge, AskGateway,
                 LinkChargeFails, ReadFailed

LEMMA NextProgress ==
  ASSUME IInv, Next, NEW x \in Payments
  PROVE  Progress(x)
<1>1. CASE UNCHANGED pay
  BY <1>1 DEF Progress
<1>2. ASSUME NEW u \in Shoppers, Checkout(u) PROVE Progress(x)
  BY <1>2, CheckoutProgress DEF Procs
<1>3. ASSUME NEW r \in Runners, Renew(r) PROVE Progress(x)
  BY <1>3, RenewProgress DEF Procs
<1>4. ASSUME NEW p \in Runners \cup Notifiers, Reconcile(p) PROVE Progress(x)
  BY <1>4, ReconcileProgress DEF Procs
<1>5. QED BY <1>1, <1>2, <1>3, <1>4
             DEF Next, OfferLapses, Recover, Notify, Abort, SendNotice, RevokeMandate,
                 MandateLapses, CancelSubscription, GatewayMoves

\* A payment that is settled, canceled or failed stays what it is, but for a
\* refund, however late or often an answer of the gateway is processed.
THEOREM Finality == Spec => PaymentIsFinal
<1>1. ASSUME IInv, [Next]_vars, NEW x \in Payments,
             pay[x].status \in {"FAILED", "CANCELED", "PAID", "REFUNDED"}
      PROVE  \/ pay'[x].status = pay[x].status
             \/ pay[x].status = "PAID" /\ pay'[x].status = "REFUNDED"
  <2>1. CASE Next
    BY <1>1, <2>1, NextProgress DEF Progress
  <2>2. CASE UNCHANGED vars
    BY <2>2 DEF vars
  <2>3. QED BY <1>1, <2>1, <2>2
<1>2. IInv /\ [Next]_vars =>
        [\A x \in Payments :
           pay[x].status \in {"FAILED", "CANCELED", "PAID", "REFUNDED"} =>
             \/ pay'[x].status = pay[x].status
             \/ pay[x].status = "PAID" /\ pay'[x].status = "REFUNDED"]_vars
  BY <1>1
<1>3. QED BY <1>2, Invariance, PTL DEF Spec, PaymentIsFinal

=============================================================================
