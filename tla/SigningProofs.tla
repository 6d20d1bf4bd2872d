--------------------------- MODULE SigningProofs ----------------------------
(***************************************************************************)
(* Theorems about keys, receipts, authorisations with their constraints,   *)
(* the verifier and delegation, for every number of lives of the gateway,  *)
(* of other people's agents, grants, payments and calls at once.           *)
(***************************************************************************)
EXTENDS Signing, Sums

Numbered(ks) == \A kid \in DOMAIN ks : kid \in Kids /\ ks[kid] \in 1 .. minted

\* The kids of the gateway carry its own keys, each in its own role; all others
\* are agents.
RingInv ==
  /\ minted \in Nat
  /\ phase \in {"down", "booting", "writing", "up"}
  /\ file.is \in {"absent", "torn", "ok"}
  /\ Numbered(keys) /\ (file.is = "ok" => Numbered(file.keys))
  /\ phase = "up" => Kids \subseteq DOMAIN keys /\ Kids \subseteq DOMAIN ring
  /\ phase # "up" => DOMAIN ring = {}
  /\ \A kid \in DOMAIN ring :
       \/ kid \in Kids /\ ring[kid] = [role |-> kid, key |-> keys[kid]]
       \/ kid \in Agents /\ ring[kid].role = "agent"

\* With a keystore, a gateway that starts finds what it or an earlier one
\* wrote, and a file that a receipt rests on is never rewritten.
FileInv ==
  IF persistent
    THEN /\ phase = "up" => file.is = "ok" /\ file.keys = keys
         /\ phase = "booting" => \/ file.is = "ok" /\ file.keys = keys
                                 \/ file.is = "absent" /\ DOMAIN keys = {}
         /\ receipts # {} => file.is = "ok" /\ Kids \subseteq DOMAIN file.keys
         /\ \A r \in receipts : r[1] \in Kids /\ file.keys[r[1]] = r[2]
         /\ phase = "writing" => receipts = {}
    ELSE file.is = "absent" /\ phase # "writing"

\* What the buyer's signer wrote is an open mandate, and the counts are within
\* their bounds.
GrantInv ==
  /\ \A o \in granted : o.body.vct = "open" /\ Fits(o.body)
  /\ IsFiniteSet(granted) /\ Cardinality(granted) <= MaxGrants
  /\ phase = "up" => \A kid \in Kids : <<kid, keys[kid]>> \in held
  /\ receipts \subseteq held

\* Every payment, in hand, with its nonce burned or with its money moved.
Payments == InHand \cup burned \cup paid

\* How far the calls are: only a gateway that is up serves them, and whoever has
\* captured finds its mandate among those that were paid.
CallInv ==
  /\ stage \in [Callers -> {"idle", "verified", "attempting", "captured"}]
  /\ DOMAIN payment = Callers
  /\ \A k \in Callers : stage[k] # "idle" => phase = "up"
  /\ \A k \in Callers : stage[k] = "captured" => payment[k].id \in {p.id : p \in paid}
  /\ \A p \in Payments : p.id \in 1 .. MaxPayments
  /\ IsFiniteSet(paid) /\ booked \subseteq {p.id : p \in paid}
  /\ \A p, q \in paid : p.id = q.id => p = q

\* MoneyFollowsDelegation, from the verdict on.
Follows == \A p \in Payments : p.open \in granted /\ p.open.body.cnf = {p.key}

SigningInv == RingInv /\ FileInv /\ GrantInv /\ CallInv /\ Follows

LEMMA SigningInit == Init => SigningInv
<1> SUFFICES ASSUME Init PROVE SigningInv
  OBVIOUS
<1>1. RingInv
  BY DEF Init, RingInv, Numbered, NoKeys, Absent
<1>2. FileInv
  BY DEF Init, FileInv, NoKeys, Absent
<1>3. GrantInv
  BY FS_EmptySet, SigningAssumption DEF Init, GrantInv
<1>4. Payments = {} /\ (\A k \in Callers : stage[k] = "idle") /\ paid = {} /\ booked = {}
      /\ DOMAIN payment = Callers /\ stage \in [Callers -> {"idle", "verified", "attempting", "captured"}]
  BY DEF Init, Payments, InHand
<1>5. CallInv /\ Follows
  BY <1>4, FS_EmptySet DEF CallInv, Follows
<1>6. QED BY <1>1, <1>2, <1>3, <1>5 DEF SigningInv

\* The steps of a call, which leave everything but the calls and the money.
MoneyStep ==
  \/ \E t \in Presentable, cart \in Carts : Verify(t, cart, Ledger)
  \/ \E k \in Callers : Attempt(k) \/ Capture(k) \/ Book(k) \/ Drop(k)

LEMMA MoneyAside == MoneyStep => UNCHANGED Unpaid
BY DEF MoneyStep, Verify, Attempt, Capture, Book, Drop, Unpaid

\* The steps, by what they are about.
LEMMA EachStep ==
  ASSUME [Next]_vars
  PROVE  \/ Start \/ DrawKey \/ Persisted \/ Assemble
         \/ \E a \in Agents, kid \in Kids \cup Agents : delegate_to(a, kid)
         \/ \E hold \in Holds : Approve(hold[1], hold[2])
         \/ \E kid \in {"merchant", "mpp"} : IssueReceipt(kid)
         \/ Die \/ MoveAside \/ Tick
         \/ MoneyStep
         \/ UNCHANGED vars
BY DEF Next, MoneyStep

(***************************************************************************)
(* The keys.                                                               *)
(***************************************************************************)
LEMMA DelegatesToOthers ==
  ASSUME RingInv, NEW a \in Agents, NEW kid \in Kids \cup Agents, delegate_to(a, kid)
  PROVE  kid \in Agents /\ kid \notin Kids
BY SigningAssumption DEF RingInv, Numbered, delegate_to, MayRegister

LEMMA NothingMissing == Missing = {} => Kids \subseteq DOMAIN keys
BY DEF Missing, BootOrder, Kids

LEMMA RingStep ==
  ASSUME SigningInv, [Next]_vars
  PROVE  RingInv'
<1> USE DEF SigningInv, RingInv, Numbered
<1>1. CASE Start
  BY <1>1 DEF Start, NoKeys
<1>2. CASE DrawKey
  <2>1. PICK i \in Missing :
          keys' = [kid \in DOMAIN keys \cup {BootOrder[i]} |->
                     IF kid = BootOrder[i] THEN minted + 1 ELSE keys[kid]]
    BY <1>2 DEF DrawKey
  <2>2. BootOrder[i] \in Kids
    BY <2>1 DEF Missing, BootOrder, Kids
  <2>3. minted' = minted + 1 /\ phase = "booting" /\ phase' \in {"writing", "booting"}
        /\ file' = (IF persistent THEN Torn ELSE file) /\ ring' = ring
    BY <1>2 DEF DrawKey, Truncated
  <2>4. Numbered(keys)'
    BY <2>1, <2>2, <2>3
  <2>5. file'.is \in {"absent", "torn", "ok"} /\ (file'.is = "ok" => Numbered(file.keys)')
    BY <2>3 DEF Torn
  <2>6. QED BY <2>3, <2>4, <2>5
<1>3. CASE Persisted
  BY <1>3 DEF Persisted, Holding
<1>4. CASE Assemble
  <2>1. Kids \subseteq DOMAIN keys
    BY <1>4, NothingMissing DEF Assemble
  <2>2. ring' = [kid \in Kids |-> [role |-> kid, key |-> keys[kid]]] /\ phase' = "up"
        /\ UNCHANGED <<file, keys, minted>>
    BY <1>4 DEF Assemble
  <2>3. DOMAIN ring' = Kids
    BY <2>2
  <2>4. \A kid \in Kids : ring'[kid] = [role |-> kid, key |-> keys'[kid]]
    BY <2>2
  <2>5. QED BY <2>1, <2>2, <2>3, <2>4
<1>5. ASSUME NEW a \in Agents, NEW kid \in Kids \cup Agents, delegate_to(a, kid)
      PROVE  RingInv'
  <2>1. kid \in Agents /\ kid \notin Kids
    BY <1>5, DelegatesToOthers
  <2>2. QED BY <1>5, <2>1 DEF delegate_to
<1>6. CASE Die
  BY <1>6 DEF Die, NoKeys
<1>7. CASE MoveAside
  BY <1>7 DEF MoveAside, Absent
<1>8. CASE UNCHANGED <<file, phase, keys, ring, minted>>
  BY <1>8
<1>9. QED
  BY <1>1, <1>2, <1>3, <1>4, <1>5, <1>6, <1>7, <1>8, EachStep, MoneyAside
  DEF Approve, IssueReceipt, Tick, Unpaid, vars

LEMMA FileStep ==
  ASSUME SigningInv, [Next]_vars
  PROVE  FileInv'
<1> USE DEF SigningInv, FileInv
<1>1. CASE Start
  BY <1>1 DEF Start, NoKeys, RingInv
<1>2. CASE DrawKey
  <2>1. PICK i \in Missing : TRUE
    BY <1>2 DEF DrawKey
  <2>2. ~(Kids \subseteq DOMAIN keys)
    BY <2>1 DEF Missing, BootOrder, Kids
  <2>3. CASE persistent
    <3>1. receipts = {}
      BY <1>2, <2>2, <2>3 DEF DrawKey, RingInv, Kids
    <3>2. file' = Torn /\ phase' = "writing" /\ UNCHANGED <<persistent, receipts>>
      BY <1>2, <2>3 DEF DrawKey, Truncated
    <3>3. QED BY <2>3, <3>1, <3>2
  <2>4. CASE ~persistent
    <3>1. file' = file /\ file # Torn
      BY <1>2, <2>4 DEF DrawKey, Truncated, Torn
    <3>2. QED BY <1>2, <2>4, <3>1 DEF DrawKey
  <2>5. QED BY <2>3, <2>4
<1>3. CASE Persisted
  BY <1>3 DEF Persisted, Holding
<1>4. CASE Assemble
  <2>1. Kids \subseteq DOMAIN keys
    BY <1>4, NothingMissing DEF Assemble
  <2>2. QED BY <1>4, <2>1 DEF Assemble, Kids
<1>5. ASSUME NEW kid \in {"merchant", "mpp"}, IssueReceipt(kid)
      PROVE  FileInv'
  BY <1>5 DEF IssueReceipt, RingInv, Kids
<1>6. CASE Die
  BY <1>6 DEF Die
<1>7. CASE MoveAside
  BY <1>7 DEF MoveAside, Torn, Absent
<1>8. CASE UNCHANGED <<persistent, file, phase, keys, receipts>>
  BY <1>8
<1>9. QED
  BY <1>1, <1>2, <1>3, <1>4, <1>5, <1>6, <1>7, <1>8, EachStep, MoneyAside
  DEF Approve, delegate_to, Tick, Unpaid, vars

LEMMA GrantStep ==
  ASSUME SigningInv, [Next]_vars
  PROVE  GrantInv'
<1> USE DEF SigningInv, GrantInv
<1>0. Cardinality(granted) \in Nat /\ MaxGrants \in Nat
  BY FS_CardinalityType, SigningAssumption
<1>1. ASSUME NEW o, granted' = granted \cup {o}, NextId <= MaxGrants,
             o.body.vct = "open", Fits(o.body)
      PROVE  /\ \A g \in granted' : g.body.vct = "open" /\ Fits(g.body)
             /\ IsFiniteSet(granted') /\ Cardinality(granted') <= MaxGrants
  BY <1>0, <1>1, FS_AddElement DEF NextId
<1>2. ASSUME NEW id, NEW cs, cs # {}, NEW cnf, NEW key, NEW iat, NEW ttl
      PROVE  LET o == sign("user", key, open_payment_mandate(id, cs, cnf), iat, ttl)
             IN o.body.vct = "open" /\ Fits(o.body)
  BY <1>2 DEF sign, open_payment_mandate, Fits
<1>3. CASE Assemble
  <2>1. Standing(keys["user"], keys["agent"]).body.vct = "open"
        /\ Fits(Standing(keys["user"], keys["agent"]).body)
    BY <1>2 DEF Standing
  <2>2. QED BY <1>1, <1>3, <2>1 DEF Assemble
<1>4. ASSUME NEW a \in Agents, NEW kid \in Kids \cup Agents, delegate_to(a, kid)
      PROVE  GrantInv'
  <2>1. Standing(keys["user"], a).body.vct = "open" /\ Fits(Standing(keys["user"], a).body)
    BY <1>2 DEF Standing
  <2>2. QED BY <1>1, <1>4, <2>1 DEF delegate_to
<1>5. ASSUME NEW hold \in Holds, Approve(hold[1], hold[2])
      PROVE  GrantInv'
  <2>1. PICK o : granted' = granted \cup {o} /\ o.body.vct = "open" /\ Fits(o.body)
    BY <1>2, <1>5 DEF Approve
  <2>2. QED BY <1>1, <1>5, <2>1 DEF Approve
<1>6. ASSUME NEW kid \in {"merchant", "mpp"}, IssueReceipt(kid)
      PROVE  GrantInv'
  BY <1>6 DEF IssueReceipt, Kids
<1>7. CASE UNCHANGED <<phase, keys, held, granted, receipts>>
  BY <1>7
<1>8. CASE Start \/ DrawKey \/ Persisted \/ Die
  BY <1>8 DEF Start, DrawKey, Persisted, Die
<1>9. QED
  BY <1>3, <1>4, <1>5, <1>6, <1>7, <1>8, EachStep, MoneyAside DEF MoveAside, Tick, Unpaid, vars

(***************************************************************************)
(* The money.                                                              *)
(***************************************************************************)
LEMMA OfSingleton == \A x : Of({x}) = x
BY DEF Of

\* What a mandate that is let through has shown.
LEMMA LetThrough ==
  ASSUME NEW t, NEW cart, NEW ledger,
         verify_payment_mandate(t, cart, ledger, ring, now) = "ALLOW"
  PROVE  LET open == Of(t.body.open) IN
           /\ t.body.vct # "open" /\ Fits(t.body)
           /\ t.key = ring[t.kid].key
           /\ verify_jws(open, ring, {"user"}, now)
           /\ open.body.vct = "open"
           /\ open.body.cnf = {t.key}
<1> DEFINE open == Of(t.body.open)
           checks == Remaining(t.body, open.body, ring[t.kid].key, cart, ledger, now)
<1>1. load_payment_mandate(t, ring, ROLES, now)
  BY DEF verify_payment_mandate
<1>2. _escalate(t.body) # "ALLOW"
  BY DEF _escalate
<1>3. t.body.vct # "open"
  BY <1>1, <1>2 DEF verify_payment_mandate
<1>4. /\ load_payment_mandate(open, ring, {"user"}, now) /\ open.body.vct = "open"
      /\ Answer(checks) = "ALLOW"
  BY <1>1, <1>3 DEF verify_payment_mandate
<1>5. \A i \in DOMAIN checks : checks[i] = "ok"
  BY <1>4 DEF Answer
<1>6. check_key_binding(open.body, ring[t.kid].key) = "ok"
  <2>1. 1 \in DOMAIN checks /\ checks[1] = check_key_binding(open.body, ring[t.kid].key)
    BY DEF Remaining
  <2>2. QED BY <1>5, <2>1
<1>7. open.body.cnf = {ring[t.kid].key}
  BY <1>6 DEF check_key_binding, Verdict
<1>8. QED
  BY <1>1, <1>3, <1>4, <1>7 DEF load_payment_mandate, verify_jws

Shaped(p) ==
  /\ {"kid", "key", "iss", "iat", "exp", "body"} \subseteq DOMAIN p
  /\ {"vct", "id", "nonce", "constraints", "currency", "amount", "payee", "checkout", "when", "aware", "open"}
       \subseteq DOMAIN p.body

\* A copy of p with something wrong in it is signed as p is, under its number,
\* with a payee and a checkout, and with the times of p or whole numbers.
Copies(q, p) ==
  /\ q.kid = p.kid /\ q.key = p.key /\ q.body.id = p.body.id
  /\ \/ q.iat = p.iat /\ q.exp = p.exp
     \/ q.iat \in Int /\ q.exp \in Int
  /\ \E x : q.body.payee = {x}
  /\ \E x : q.body.checkout = {x}

LEMMA PresentedShape ==
  ASSUME NEW signature, NEW o
  PROVE  LET p == Presented(signature, o)
         IN /\ Shaped(p) /\ p.body.vct = "closed" /\ p.body.open = {o} /\ Copies(p, p)
            /\ p.kid = signature[1] /\ p.key = signature[2] /\ p.iat = now /\ p.exp = now + ClosedTtl
            /\ p.body.id = NextPayment
BY DEF Presented, sign, closed_payment_mandate, Shaped, Copies

LEMMA WithShape ==
  ASSUME NEW p, Shaped(p), NEW field \in DOMAIN p.body, NEW value
  PROVE  /\ Shaped(With(p, field, value))
         /\ DOMAIN With(p, field, value).body = DOMAIN p.body
         /\ With(p, field, value).body[field] = value
         /\ \A other \in DOMAIN p.body \ {field} :
              With(p, field, value).body[other] = p.body[other]
         /\ With(p, field, value).kid = p.kid /\ With(p, field, value).key = p.key
         /\ With(p, field, value).iat = p.iat /\ With(p, field, value).exp = p.exp
BY DEF With, Shaped

\* Getting one thing wrong leaves a payment, with its authorisation, with none,
\* or with a payment in its place.
LEMMA WrittenShape ==
  ASSUME NEW p, Shaped(p), p.body.vct = "closed", Copies(p, p), NEW t \in Written(p)
  PROVE  /\ t.body.vct = "closed"
         /\ \/ t.body.open = p.body.open /\ Copies(t, p)
            \/ t.body.open = {} \/ t.body.open = {p}
<1> DEFINE Harmless(q) == q.body.vct = "closed" /\ q.body.open = p.body.open /\ Copies(q, p)
<1>1. ASSUME NEW field \in {"payee", "currency", "aware", "constraints", "when", "nonce", "amount", "checkout"},
             NEW value, field \in {"payee", "checkout"} => \E x : value = {x},
             NEW q, Shaped(q), Harmless(q)
      PROVE  Harmless(With(q, field, value)) /\ Shaped(With(q, field, value))
  <2>1. field \in DOMAIN q.body /\ {"vct", "id", "open"} \subseteq DOMAIN q.body \ {field}
        /\ {"payee", "checkout"} \subseteq DOMAIN q.body
    BY <1>1 DEF Shaped
  <2> DEFINE r == With(q, field, value)
  <2>2. /\ Shaped(r) /\ r.body[field] = value
        /\ \A other \in DOMAIN q.body \ {field} : r.body[other] = q.body[other]
        /\ r.kid = q.kid /\ r.key = q.key /\ r.iat = q.iat /\ r.exp = q.exp
    BY <1>1, <2>1, WithShape
  <2> HIDE DEF r
  <2>3. r.body.vct = "closed" /\ r.body.open = p.body.open /\ r.body.id = q.body.id
    BY <1>1, <2>1, <2>2
  <2>4. (\E x : r.body.payee = {x}) /\ (\E x : r.body.checkout = {x})
    BY <1>1, <2>1, <2>2 DEF Copies
  <2>5. Copies(r, p)
    BY <1>1, <2>2, <2>3, <2>4 DEF Copies
  <2>6. QED BY <2>2, <2>3, <2>5 DEF r
<1>2. ASSUME NEW value
      PROVE  With(p, "open", value).body.vct = "closed" /\ With(p, "open", value).body.open = value
  BY WithShape DEF Shaped
<1>3. ASSUME NEW q, Shaped(q), Harmless(q), NEW at \in Int
      PROVE  Harmless([q EXCEPT !.iat = at, !.exp = at + ClosedTtl])
  <2> DEFINE r == [q EXCEPT !.iat = at, !.exp = at + ClosedTtl]
  <2>1. r.body = q.body /\ r.kid = q.kid /\ r.key = q.key /\ r.iat = at /\ r.exp = at + ClosedTtl
    BY <1>3 DEF Shaped
  <2>2. at + ClosedTtl \in Int
    BY SigningAssumption
  <2> HIDE DEF r
  <2>3. Harmless(r)
    BY <1>3, <2>1, <2>2 DEF Copies
  <2>4. QED BY <2>3 DEF r
<1>4. Harmless(p)
  OBVIOUS
<1>5. ASSUME NEW at \in Int
      PROVE  LET q == With(p, "when", {at})
             IN Harmless(q) /\ Harmless([q EXCEPT !.iat = at, !.exp = at + ClosedTtl])
  BY <1>1, <1>3, <1>4
<1>6. Harmless([p EXCEPT !.iss = "merchant"])
  <2> DEFINE r == [p EXCEPT !.iss = "merchant"]
  <2>1. r.body = p.body /\ r.kid = p.kid /\ r.key = p.key /\ r.iat = p.iat /\ r.exp = p.exp
    BY DEF Shaped
  <2> HIDE DEF r
  <2>2. Harmless(r)
    BY <2>1 DEF Copies
  <2>3. QED BY <2>2 DEF r
<1> HIDE DEF Harmless
<1>7. ASSUME NEW amount, NEW cart
      PROVE  Harmless(With(With(p, "amount", {amount}), "checkout", {cart}))
  <2>1. Harmless(With(p, "amount", {amount})) /\ Shaped(With(p, "amount", {amount}))
    BY <1>1, <1>4
  <2>2. QED BY <1>1, <2>1
<1>8. ASSUME NEW value
      PROVE  /\ Harmless(With(p, "payee", {value})) /\ Harmless(With(p, "currency", value))
             /\ Harmless(With(p, "aware", value)) /\ Harmless(With(p, "constraints", value))
             /\ Harmless(With(p, "nonce", value))
  BY <1>1, <1>4
<1>9. Harmless(t) \/ t = With(p, "open", {}) \/ t = With(p, "open", {p})
  <2>0. 0 .. MaxNow + 1 \subseteq Int
    OBVIOUS
  <2>1. ASSUME t \in {With(With(p, "amount", {offer[1]}), "checkout", {offer[2]}) : offer \in Prices \X Carts}
        PROVE  Harmless(t)
    BY <1>7, <2>1
  <2>2. ASSUME t \in {With(p, "payee", {Other}), With(p, "currency", "USD"), With(p, "aware", FALSE),
                      With(p, "constraints", {Budget(Daily)}), [p EXCEPT !.iss = "merchant"]}
        PROVE  Harmless(t)
    BY <1>6, <1>8, <2>2
  <2>3. ASSUME t \in {With(p, "when", {at}) : at \in 0 .. MaxNow + 1}
        PROVE  Harmless(t)
    BY <1>5, <2>0, <2>3
  <2>4. ASSUME t \in {[With(p, "when", {at}) EXCEPT !.iat = at, !.exp = at + ClosedTtl] : at \in 0 .. MaxNow + 1}
        PROVE  Harmless(t)
    <3>1. PICK at \in 0 .. MaxNow + 1 : t = [With(p, "when", {at}) EXCEPT !.iat = at, !.exp = at + ClosedTtl]
      BY <2>4
    <3>2. QED BY <1>5, <2>0, <3>1
  <2>5. ASSUME t \in {With(p, "nonce", other.nonce) : other \in burned}
        PROVE  Harmless(t)
    BY <1>8, <2>5
  <2>6. QED
    BY <2>1, <2>2, <2>3, <2>4, <2>5 DEF Written
<1>10. QED
  BY <1>2, <1>9 DEF Harmless

\* What may be presented again.
Pending == {p \in InHand \cup burned : p.id \notin booked}

LEMMA AgainShape ==
  ASSUME NEW t \in Again
  PROVE  \E p \in Pending :
           /\ t.body.vct = "closed" /\ t.body.id = p.id /\ t.body.open = {p.open}
           /\ t.body.amount = {p.amount} /\ t.key = p.key
<1>1. PICK p \in Pending, at \in 0 .. MaxNow + 1 : t = SignedAgain(p, at)
  BY DEF Again, Pending
<1>2. /\ t.body.vct = "closed" /\ t.body.id = p.id /\ t.body.open = {p.open}
      /\ t.body.amount = {p.amount} /\ t.key = p.key
  BY <1>1 DEF SignedAgain, sign, closed_payment_mandate
<1>3. QED BY <1>2

\* Whatever is presented carries an authorisation that the buyer's signer wrote,
\* one that somebody else wrote, a payment, or none, under a new number; or it
\* was let through before.
LEMMA WhatIsPresented ==
  ASSUME NEW t \in Presentable
  PROVE  \/ t \in granted
         \/ t \in Again
         \/ /\ t.body.vct = "closed"
            /\ \/ t.body.open = {}
               \/ \E o \in granted \cup SelfIssued : t.body.open = {o} /\ t.body.id = NextPayment
               \/ \E o : t.body.open = {o} /\ o.body.vct = "closed"
<1>1. CASE t \in Strangers
  BY <1>1, PresentedShape DEF Strangers
<1>2. CASE t \in UNION {Written(e) : e \in Entitled}
  <2>1. PICK e \in Entitled : t \in Written(e)
    BY <1>2
  <2>2. PICK kid \in DOMAIN ring, o \in granted : e = Presented(<<kid, ring[kid].key>>, o)
    BY <2>1 DEF Entitled, Rightful
  <2>3. e.body.vct = "closed" /\ e.body.open = {o} /\ Shaped(e) /\ Copies(e, e) /\ e.body.id = NextPayment
    BY <2>2, PresentedShape
  <2>4. /\ t.body.vct = "closed"
        /\ \/ t.body.open = e.body.open /\ Copies(t, e)
           \/ t.body.open = {} \/ t.body.open = {e}
    BY <2>1, <2>3, WrittenShape
  <2>5. QED BY <2>2, <2>3, <2>4 DEF Copies
<1>3. t \in granted \/ t \in Again \/ t \in Strangers \/ t \in UNION {Written(e) : e \in Entitled}
  BY DEF Presentable
<1>4. QED BY <1>1, <1>2, <1>3

\* A new number is not in use.
LEMMA FreshNumber ==
  ASSUME CallInv
  PROVE  NextPayment \in Nat /\ NextPayment >= 1 /\ NextPayment \notin Used
<1> DEFINE S == (1 .. MaxPayments + 1) \ Used
<1>1. Used \subseteq 1 .. MaxPayments /\ MaxPayments \in Nat
  BY SigningAssumption DEF CallInv, Payments, Used
<1>2. S \in SUBSET Nat /\ MaxPayments + 1 \in S
  BY <1>1
<1> HIDE DEF S
<1>3. \E m \in S : \A n \in S : m <= n
  BY <1>2, LeastNatural
<1>4. Min(S) \in S
  BY <1>3 DEF Min
<1>5. QED BY <1>4 DEF S, NextPayment

\* What is let through carries an authorisation of the buyer's, for the key that
\* signed it, and is new or the same payment again.
LEMMA Verified ==
  ASSUME SigningInv, NEW t \in Presentable, NEW cart, NEW ledger, Verify(t, cart, ledger)
  PROVE  LET p == PaymentOf(t, cart) IN
           /\ p.open \in granted /\ p.open.body.cnf = {p.key} /\ p.id \in 1 .. MaxPayments
           /\ \/ p.id \notin Used
              \/ \E q \in Payments : q.id = p.id /\ q.open = p.open /\ q.amount = p.amount
<1> DEFINE open == Of(t.body.open)
           p == PaymentOf(t, cart)
<1>0. p.open = open /\ p.key = t.key /\ p.id = t.body.id /\ p.amount = Of(t.body.amount)
  BY DEF PaymentOf
<1>1. /\ t.body.vct # "open" /\ Fits(t.body)
      /\ verify_jws(open, ring, {"user"}, now)
      /\ open.body.vct = "open" /\ open.body.cnf = {t.key}
  BY LetThrough DEF Verify
<1>2. t.body.id <= MaxPayments
  BY DEF Verify
<1> HIDE DEF p
<1>3. CASE t \in Again
  <2>1. PICK q \in Pending : t.body.id = q.id /\ t.body.open = {q.open} /\ t.body.amount = {q.amount}
    BY <1>3, AgainShape
  <2>2. q \in Payments /\ open = q.open /\ Of(t.body.amount) = q.amount
    BY <2>1, OfSingleton DEF Payments, Pending
  <2>3. q.open \in granted /\ q.id \in 1 .. MaxPayments
    BY <2>2 DEF SigningInv, Follows, CallInv
  <2>4. QED BY <1>0, <1>1, <2>1, <2>2, <2>3 DEF p
<1>4. CASE t \notin Again
  <2>0. t \notin granted
    BY <1>1 DEF SigningInv, GrantInv
  <2>1. t.body.open # {}
    BY <1>1, <2>0, <1>4, WhatIsPresented DEF Fits
  <2>2. ~\E o : t.body.open = {o} /\ o.body.vct = "closed"
    BY <1>1, OfSingleton
  <2>3. PICK o \in granted \cup SelfIssued : t.body.open = {o} /\ t.body.id = NextPayment
    BY <1>4, <2>0, <2>1, <2>2, WhatIsPresented
  <2>4. open = o
    BY <2>3, OfSingleton
  <2>5. open.key \in Nat
    BY <1>1 DEF verify_jws, SigningInv, RingInv, Numbered
  <2>6. open \notin SelfIssued
    <3>1. \A q \in SelfIssued : q.key \in Agents
      BY DEF SelfIssued, sign
    <3>2. QED BY <2>5, <3>1, SigningAssumption
  <2>7. NextPayment \in Nat /\ NextPayment >= 1 /\ NextPayment \notin Used
    BY FreshNumber DEF SigningInv
  <2>8. t.body.id \in 1 .. MaxPayments
    BY <1>2, <2>3, <2>7, SigningAssumption
  <2>9. QED BY <1>0, <1>1, <2>3, <2>4, <2>6, <2>7, <2>8 DEF p
<1>5. QED BY <1>3, <1>4

\* The payments there are: a verdict adds one, no other step does.
LEMMA PaymentsStep ==
  ASSUME CallInv, [Next]_vars
  PROVE  \/ Payments' \subseteq Payments
         \/ \E t \in Presentable, cart \in Carts :
              Verify(t, cart, Ledger) /\ Payments' \subseteq Payments \cup {PaymentOf(t, cart)}
<1> USE DEF CallInv
<1>1. CASE UNCHANGED <<callVars, moneyVars>>
  BY <1>1 DEF Payments, InHand, callVars, moneyVars
<1>2. ASSUME NEW t \in Presentable, NEW cart \in Carts, Verify(t, cart, Ledger)
      PROVE  Payments' \subseteq Payments \cup {PaymentOf(t, cart)}
  <2>1. PICK k \in Callers : /\ stage' = [stage EXCEPT ![k] = "verified"]
                             /\ payment' = [payment EXCEPT ![k] = PaymentOf(t, cart)]
    BY <1>2 DEF Verify
  <2> DEFINE p == PaymentOf(t, cart)
  <2>2. \A j \in Callers : payment'[j] = (IF j = k THEN p ELSE payment[j]) /\ (j # k => stage'[j] = stage[j])
    BY <2>1
  <2> HIDE DEF p
  <2>3. InHand' \subseteq InHand \cup {p}
    BY <2>2 DEF InHand
  <2>4. burned' = burned /\ paid' = paid
    BY <1>2 DEF Verify, moneyVars
  <2>5. QED BY <2>3, <2>4 DEF Payments, p
<1>3. ASSUME NEW k \in Callers, Attempt(k)
      PROVE  Payments' \subseteq Payments
  BY <1>3 DEF Attempt, Payments, InHand
<1>4. ASSUME NEW k \in Callers, Capture(k)
      PROVE  Payments' \subseteq Payments
  BY <1>4 DEF Capture, Payments, InHand
<1>5. ASSUME NEW k \in Callers, Book(k) \/ Drop(k)
      PROVE  Payments' \subseteq Payments
  BY <1>5 DEF Book, Drop, Hangup, Payments, InHand, moneyVars
<1>6. CASE Die
  BY <1>6 DEF Die, Payments, InHand, moneyVars
<1>7. QED
  BY <1>1, <1>2, <1>3, <1>4, <1>5, <1>6, EachStep
  DEF MoneyStep, Start, DrawKey, Persisted, Assemble, delegate_to, Approve, IssueReceipt, MoveAside,
      Tick, vars

LEMMA FollowsStep ==
  ASSUME SigningInv, [Next]_vars
  PROVE  Follows' /\ \A p \in Payments' : p.id \in 1 .. MaxPayments
<1>1. granted \subseteq granted'
  BY EachStep, MoneyAside
  DEF Start, DrawKey, Persisted, Assemble, delegate_to, Approve, IssueReceipt, Die, MoveAside, Tick,
      Unpaid, vars
<1>2. CASE Payments' \subseteq Payments
  BY <1>1, <1>2 DEF SigningInv, Follows, CallInv
<1>3. ASSUME NEW t \in Presentable, NEW cart \in Carts, Verify(t, cart, Ledger),
             Payments' \subseteq Payments \cup {PaymentOf(t, cart)}
      PROVE  Follows' /\ \A p \in Payments' : p.id \in 1 .. MaxPayments
  <2> DEFINE p == PaymentOf(t, cart)
  <2>1. p.open \in granted /\ p.open.body.cnf = {p.key} /\ p.id \in 1 .. MaxPayments
    BY <1>3, Verified
  <2> HIDE DEF p
  <2>2. Payments' \subseteq Payments \cup {p}
    BY <1>3 DEF p
  <2>3. QED BY <1>1, <2>1, <2>2 DEF SigningInv, Follows, CallInv
<1>4. QED BY <1>2, <1>3, PaymentsStep DEF SigningInv

\* The stages of the calls, and the mandates whose money moved.
LEMMA CallStep ==
  ASSUME SigningInv, [Next]_vars
  PROVE  CallInv'
<1> USE DEF SigningInv, CallInv
<1>0. \A p \in Payments' : p.id \in 1 .. MaxPayments
  BY FollowsStep
<1>1. CASE UNCHANGED <<callVars, moneyVars>> /\ (phase = "up" => phase' = "up")
  BY <1>0, <1>1 DEF callVars, moneyVars
<1>2. ASSUME NEW t \in Presentable, NEW cart \in Carts, Verify(t, cart, Ledger), phase = "up"
      PROVE  CallInv'
  BY <1>0, <1>2 DEF Verify, Unpaid, moneyVars
<1>3. ASSUME NEW k \in Callers, Attempt(k)
      PROVE  CallInv'
  BY <1>0, <1>3 DEF Attempt, Unpaid
<1>4. ASSUME NEW k \in Callers, Capture(k)
      PROVE  CallInv'
  <2>1. /\ stage' = [stage EXCEPT ![k] = "captured"] /\ UNCHANGED <<phase, payment, booked>>
        /\ stage[k] = "attempting"
        /\ paid' = IF \E p \in paid : p.id = payment[k].id THEN paid ELSE paid \cup {payment[k]}
    BY <1>4 DEF Capture, Unpaid
  <2>2. IsFiniteSet(paid') /\ \A p, q \in paid' : p.id = q.id => p = q
    BY <2>1, FS_AddElement
  <2>3. paid \subseteq paid' /\ \E p \in paid' : p.id = payment[k].id
    BY <2>1
  <2>4. booked' \subseteq {p.id : p \in paid'}
    BY <2>1, <2>3
  <2>5. QED BY <1>0, <2>1, <2>2, <2>3, <2>4
<1>5. ASSUME NEW k \in Callers, Book(k)
      PROVE  CallInv'
  BY <1>0, <1>5 DEF Book, Hangup, Unpaid
<1>6. ASSUME NEW k \in Callers, Drop(k)
      PROVE  CallInv'
  BY <1>0, <1>6 DEF Drop, Hangup, Unpaid, moneyVars
<1>7. CASE Die
  BY <1>0, <1>7 DEF Die, moneyVars
<1>8. MoneyStep => \/ \E t \in Presentable, cart \in Carts : phase = "up" /\ Verify(t, cart, Ledger)
                   \/ \E k \in Callers : Attempt(k) \/ Capture(k) \/ Book(k) \/ Drop(k)
  <2>1. ASSUME NEW t, NEW cart, Verify(t, cart, Ledger)
        PROVE  phase = "up"
    <3>1. t.kid \in DOMAIN ring
      BY <2>1 DEF Verify, verify_payment_mandate, load_payment_mandate, verify_jws
    <3>2. QED BY <3>1 DEF RingInv
  <2>2. QED BY <2>1 DEF MoneyStep
<1>9. QED
  BY <1>1, <1>2, <1>3, <1>4, <1>5, <1>6, <1>7, <1>8, EachStep
  DEF Start, DrawKey, Persisted, Assemble, delegate_to, Approve, IssueReceipt, MoveAside, Tick, vars

LEMMA SigningStep ==
  ASSUME SigningInv, [Next]_vars
  PROVE  SigningInv'
BY RingStep, FileStep, GrantStep, CallStep, FollowsStep DEF SigningInv

LEMMA SigningInvariant == Spec => []SigningInv
<1>1. SigningInv /\ [Next]_vars => SigningInv'
  BY SigningStep
<1>2. QED BY <1>1, SigningInit, PTL DEF Spec

\* Type correctness: no key or grant beyond its bound, a call is served by a
\* gateway that is up, and what is booked was paid, once for each mandate
\* (Keystore, build_gateway, delegate_to, initiate_payment, record_spend).
THEOREM SigningTypes == Spec => []TypeOK
<1>1. SigningInv => TypeOK
  <2> SUFFICES ASSUME SigningInv PROVE TypeOK
    OBVIOUS
  <2>1. \A k \in Callers : stage[k] # "idle" => phase = "up" /\ payment[k].id \in 1 .. MaxPayments
    BY DEF SigningInv, CallInv, Payments, InHand
  <2>2. booked \subseteq {p.id : p \in paid} /\ \A p, q \in paid : p.id = q.id => p = q
    BY DEF SigningInv, CallInv
  <2>3. QED BY <2>1, <2>2, SigningAssumption DEF SigningInv, RingInv, GrantInv, Numbered, TypeOK, Kids
<1>2. QED BY <1>1, SigningInvariant, PTL

\* With a keystore every receipt verifies under the keys of every later gateway,
\* wherever in its start-up an earlier one died (Keystore._save, key_for).
THEOREM ReceiptsVerify == Spec => []ReceiptsStayVerifiable
<1>1. SigningInv => ReceiptsStayVerifiable
  BY SigningAssumption DEF SigningInv, RingInv, FileInv, ReceiptsStayVerifiable
<1>2. QED BY <1>1, SigningInvariant, PTL

\* Money moves only under an authorisation of the buyer's own signer and for the
\* key it names (verify_payment_mandate: the user's signature, the key binding).
THEOREM MoneyIsDelegated == Spec => []MoneyFollowsDelegation
<1>1. SigningInv => MoneyFollowsDelegation
  BY DEF SigningInv, Follows, Payments, MoneyFollowsDelegation
<1>2. QED BY <1>1, SigningInvariant, PTL

(***************************************************************************)
(* The constraints.                                                        *)
(***************************************************************************)
\* What the buyer's signer writes into an authorisation: bounds, a budget, a
\* list of payees, a window and at most one cart.
Terms(lo, hi, max, from, to, pins) ==
  {AmountRange(lo, hi), Budget(max), AllowedPayees({Shop}), ExecutionDate(from, to)}
    \cup {Reference(cart) : cart \in pins}

Says(o, lo, hi, max, from, to, pins) == o.body.constraints = Terms(lo, hi, max, from, to, pins)

Constrains(o) ==
  \E lo, hi, max \in Nat, from, to \in Int, pins \in SUBSET Carts :
    /\ \A c, d \in pins : c = d
    /\ Says(o, lo, hi, max, from, to, pins)

\* A signed authorisation: whose it is, and what it is good for.
Authorises(o) ==
  /\ o.kid = "user" /\ o.iss = "user" /\ o.iat \in Int /\ o.exp \in Int /\ o.iat <= now
  /\ o.body.vct = "open" /\ Fits(o.body) /\ o.body.currency = "INR"
  /\ \E key : o.body.cnf = {key}
  /\ Constrains(o)

\* Authorisations are numbered.
Numbering ==
  /\ \A o \in granted : o.body.id \in 1 .. Cardinality(granted)
  /\ \A o, q \in granted : o.body.id = q.body.id => o = q

AuthorityInv ==
  /\ now \in Nat
  /\ \A o \in granted : Authorises(o)
  /\ Numbering

\* What each of the two ways to write an authorisation puts into it.
LEMMA StandingAuthorises ==
  ASSUME now \in Nat, NEW userKey, NEW cnf
  PROVE  LET o == Standing(userKey, cnf) IN Authorises(o) /\ o.body.id = NextId
<1> DEFINE o == Standing(userKey, cnf)
<1>1. /\ o.kid = "user" /\ o.iss = "user" /\ o.iat = now /\ o.exp = now + StandingTtl
      /\ o.body.vct = "open" /\ o.body.currency = "INR" /\ o.body.cnf = {cnf} /\ o.body.amount = {}
      /\ o.body.id = NextId
      /\ o.body.constraints = {AmountRange(1, Limit), Budget(Daily), AllowedPayees({Shop}),
                               ExecutionDate(now - 1, now + StandingTtl)}
  BY DEF Standing, sign, open_payment_mandate
<1> HIDE DEF o
<1>2. o.body.constraints = Terms(1, Limit, Daily, now - 1, now + StandingTtl, {})
  BY <1>1 DEF Terms
<1>3. Constrains(o)
  BY <1>2, SigningAssumption DEF Constrains, Says
<1>4. Fits(o.body)
  BY <1>1 DEF Fits
<1>5. now + StandingTtl \in Int
  BY SigningAssumption
<1>6. Authorises(o)
  BY <1>1, <1>3, <1>4, <1>5 DEF Authorises
<1>7. QED BY <1>1, <1>6 DEF o

LEMMA ApprovalAuthorises ==
  ASSUME now \in Nat, NEW key, NEW hold \in Holds, Approve(hold[1], hold[2])
  PROVE  \E o : granted' = granted \cup {o} /\ Authorises(o) /\ o.body.id = NextId
<1> DEFINE amount == hold[2]
           o == sign("user", keys["user"],
             open_payment_mandate(NextId,
               {AmountRange(amount, amount), Budget(amount), AllowedPayees({Shop}),
                ExecutionDate(now - 1, now + ClosedTtl), Reference(hold[1])}, keys["user"]),
             now, ClosedTtl)
<1>0. amount \in Nat /\ hold[1] \in Carts
  BY SigningAssumption
<1>1. /\ o.kid = "user" /\ o.iss = "user" /\ o.iat = now /\ o.exp = now + ClosedTtl
      /\ o.body.vct = "open" /\ o.body.currency = "INR" /\ o.body.cnf = {keys["user"]} /\ o.body.amount = {}
      /\ o.body.id = NextId
      /\ o.body.constraints = {AmountRange(amount, amount), Budget(amount), AllowedPayees({Shop}),
                               ExecutionDate(now - 1, now + ClosedTtl), Reference(hold[1])}
  BY DEF sign, open_payment_mandate
<1>2. granted' = granted \cup {o}
  BY DEF Approve
<1> HIDE DEF o
<1>3. o.body.constraints = Terms(amount, amount, amount, now - 1, now + ClosedTtl, {hold[1]})
  BY <1>1 DEF Terms
<1>4. Constrains(o)
  <2>1. {hold[1]} \in SUBSET Carts /\ \A c, d \in {hold[1]} : c = d
    BY <1>0
  <2>2. now - 1 \in Int /\ now + ClosedTtl \in Int
    BY SigningAssumption
  <2> HIDE DEF amount
  <2>3. QED BY <1>0, <1>3, <2>1, <2>2 DEF Constrains, Says
<1>5. Fits(o.body)
  BY <1>1 DEF Fits
<1>6. Authorises(o)
  <2>1. o.iat \in Int /\ o.exp \in Int /\ o.iat <= now
    BY <1>1, SigningAssumption
  <2>2. QED BY ONLY <1>1, <1>4, <1>5, <2>1 DEF Authorises
<1>7. QED BY <1>1, <1>2, <1>6

\* Authorisations are only ever added, each with a number of its own.
LEMMA AuthorityStep ==
  ASSUME SigningInv, AuthorityInv, [Next]_vars
  PROVE  AuthorityInv'
<1>0. IsFiniteSet(granted) /\ Cardinality(granted) \in Nat
  BY FS_CardinalityType DEF SigningInv, GrantInv
<1>1. now' \in Nat /\ now <= now'
  <2>1. Tick \/ now' = now
    BY EachStep, MoneyAside
    DEF Start, DrawKey, Persisted, Assemble, delegate_to, Approve, IssueReceipt, Die, MoveAside, Unpaid,
        vars
  <2>2. QED BY <2>1 DEF Tick, AuthorityInv
<1>2. ASSUME NEW o, Authorises(o)
      PROVE  Authorises(o)'
  <2>1. o.iat <= now'
    BY <1>1, <1>2 DEF Authorises, AuthorityInv
  <2>2. QED BY <1>2, <2>1 DEF Authorises
<1>3. ASSUME NEW o, granted' = granted \cup {o}, Authorises(o), o.body.id = NextId
      PROVE  AuthorityInv'
  <2>1. o \notin granted
    BY <1>0, <1>3 DEF AuthorityInv, Numbering, NextId
  <2>2. Cardinality(granted') = Cardinality(granted) + 1
    BY <1>0, <1>3, <2>1, FS_AddElement
  <2>3. Numbering'
    BY <1>0, <1>3, <2>2 DEF AuthorityInv, Numbering, NextId
  <2>4. QED BY <1>1, <1>2, <1>3, <2>3 DEF AuthorityInv
<1>4. CASE UNCHANGED granted
  BY <1>1, <1>2, <1>4 DEF AuthorityInv, Numbering
<1>5. CASE Assemble
  BY <1>3, <1>5, StandingAuthorises DEF Assemble, AuthorityInv
<1>6. ASSUME NEW a \in Agents, NEW kid \in Kids \cup Agents, delegate_to(a, kid)
      PROVE  AuthorityInv'
  BY <1>3, <1>6, StandingAuthorises DEF delegate_to, AuthorityInv
<1>7. ASSUME NEW hold \in Holds, Approve(hold[1], hold[2])
      PROVE  AuthorityInv'
  BY <1>3, <1>7, ApprovalAuthorises DEF AuthorityInv
<1>8. QED
  BY <1>4, <1>5, <1>6, <1>7, EachStep, MoneyAside
  DEF Start, DrawKey, Persisted, IssueReceipt, Die, MoveAside, Tick, Unpaid, vars

\* What a constraint of an authorisation is, by its type.
LEMMA OneOfEach ==
  ASSUME NEW o, NEW lo, NEW hi, NEW max, NEW from, NEW to, NEW pins,
         Says(o, lo, hi, max, from, to, pins)
  PROVE  /\ Constraints(o.body, "payment.amount_range") = {AmountRange(lo, hi)}
         /\ Constraints(o.body, "payment.budget") = {Budget(max)}
         /\ Constraints(o.body, "payment.allowed_payees") = {AllowedPayees({Shop})}
         /\ Constraints(o.body, "payment.execution_date") = {ExecutionDate(from, to)}
         /\ \A c : c \in Constraints(o.body, "payment.reference") <=> \E d \in pins : c = Reference(d)
<1>1. /\ AmountRange(lo, hi).type = "payment.amount_range"
      /\ Budget(max).type = "payment.budget"
      /\ AllowedPayees({Shop}).type = "payment.allowed_payees"
      /\ ExecutionDate(from, to).type = "payment.execution_date"
      /\ \A cart : Reference(cart).type = "payment.reference"
  BY DEF AmountRange, Budget, AllowedPayees, ExecutionDate, Reference
<1>2. QED BY <1>1 DEF Constraints, Says, Terms

\* The checks of a mandate that is let through, each on its own.
LEMMA ChecksHold ==
  ASSUME NEW t, NEW cart, NEW ledger,
         verify_payment_mandate(t, cart, ledger, ring, now) = "ALLOW"
  PROVE  LET closed == t.body
             open == Of(t.body.open).body
         IN /\ check_payee_allowed(closed, open) = "ok"
            /\ check_amount_in_range(closed, open) = "ok"
            /\ check_budget(closed, open, ledger.spent[open.id]) = "ok"
            /\ check_execution_date(closed, open, now) = "ok"
            /\ check_checkout_reference(closed, open, cart) = "ok"
            /\ closed.vct = "closed" /\ Fits(closed)
<1> DEFINE open == Of(t.body.open)
           checks == Remaining(t.body, open.body, ring[t.kid].key, cart, ledger, now)
<1>1. t.body.vct # "open" /\ Fits(t.body)
  BY LetThrough
<1>2. Answer(checks) = "ALLOW"
  BY <1>1 DEF verify_payment_mandate
<1>3. \A i \in DOMAIN checks : checks[i] = "ok"
  BY <1>2 DEF Answer
<1>4. /\ {3, 4, 5, 6, 7} \subseteq DOMAIN checks
      /\ checks[3] = check_payee_allowed(t.body, open.body)
      /\ checks[4] = check_amount_in_range(t.body, open.body)
      /\ checks[5] = check_budget(t.body, open.body, ledger.spent[open.body.id])
      /\ checks[6] = check_execution_date(t.body, open.body, now)
      /\ checks[7] = check_checkout_reference(t.body, open.body, cart)
  BY DEF Remaining
<1>5. t.body.vct = "closed"
  BY <1>1 DEF Fits
<1>6. QED BY <1>1, <1>3, <1>4, <1>5

\* A payment inside its constraints, the budget left aside.
Within(o, p) ==
  \A c \in o.body.constraints :
    CASE c.type = "payment.amount_range" -> c.min <= p.amount /\ p.amount <= c.max
      [] c.type = "payment.budget" -> TRUE
      [] c.type = "payment.allowed_payees" -> p.payee \in c.allowed
      [] c.type = "payment.execution_date" ->
           c.not_before - Drift <= p.at /\ p.at <= c.not_after + Drift
      [] OTHER -> p.checkout = c.checkout

\* What was booked under an authorisation.
Total(o) == SumFunction([p \in BookedUnder(o) |-> p.amount])

\* Payments are inside their constraints from the verdict on, and two of one
\* number are of one amount under one authorisation.
PaidInv ==
  /\ \A p \in Payments : p.amount \in Nat /\ Within(p.open, p)
  /\ \A p, q \in Payments : p.id = q.id => p.open = q.open /\ p.amount = q.amount

\* The calls that hold a payment which is not booked, and what they may add.
Due(o) == {k \in Callers : stage[k] # "idle" /\ payment[k].open = o /\ payment[k].id \notin booked}
Dues == [k \in Callers |-> payment[k].amount]

\* What an authorisation says of its budget and of one purchase.
Caps(o, hi, max) ==
  /\ hi \in Nat /\ max \in Nat
  /\ Budget(max) \in o.body.constraints
  /\ \E lo \in Nat : AmountRange(lo, hi) \in o.body.constraints

\* The allowance is enough for what is booked and for what the calls may add.
Fitting(o, hi, max) ==
  /\ Total(o) \in Nat
  /\ Costs(Due(o), Dues, hi)
  /\ Suffices(Due(o), Dues, Total(o), hi, max + Times(Cardinality(Callers) - 1, hi))

BudgetInv == \A o \in granted : \A hi, max : Caps(o, hi, max) => Fitting(o, hi, max)

\* What the checks say of a payment they let through.
LEMMA PaysWithin ==
  ASSUME AuthorityInv, NEW t, NEW cart, NEW ledger,
         verify_payment_mandate(t, cart, ledger, ring, now) = "ALLOW",
         NEW o \in granted, o = Of(t.body.open),
         NEW p, p.amount = Of(t.body.amount), p.payee = Of(t.body.payee), p.checkout = cart, p.at = now
  PROVE  /\ Within(o, p) /\ p.amount \in Nat
         /\ \A c \in Constraints(o.body, "payment.budget") : ledger.spent[o.body.id] + p.amount <= c.max
<1>0. Constrains(o)
  BY DEF AuthorityInv, Authorises
<1>1. PICK lo, hi, max \in Nat, from, to \in Int, pins \in SUBSET Carts :
        Says(o, lo, hi, max, from, to, pins)
  BY <1>0 DEF Constrains
<1>2. /\ AmountRange(lo, hi) \in Constraints(o.body, "payment.amount_range")
      /\ Constraints(o.body, "payment.budget") = {Budget(max)}
      /\ AllowedPayees({Shop}) \in Constraints(o.body, "payment.allowed_payees")
      /\ ExecutionDate(from, to) \in Constraints(o.body, "payment.execution_date")
      /\ \A d \in pins : Reference(d) \in Constraints(o.body, "payment.reference")
  <2>1. /\ Constraints(o.body, "payment.amount_range") = {AmountRange(lo, hi)}
        /\ Constraints(o.body, "payment.budget") = {Budget(max)}
        /\ Constraints(o.body, "payment.allowed_payees") = {AllowedPayees({Shop})}
        /\ Constraints(o.body, "payment.execution_date") = {ExecutionDate(from, to)}
        /\ \A c : c \in Constraints(o.body, "payment.reference") <=> \E d \in pins : c = Reference(d)
    BY <1>1, OneOfEach
  <2>2. QED BY <2>1
<1> DEFINE range == AmountRange(lo, hi)
           budget == Budget(max)
           payees == AllowedPayees({Shop})
           window == ExecutionDate(from, to)
<1>11. /\ range.min = lo /\ range.max = hi /\ budget.max = max /\ payees.allowed = {Shop}
       /\ window.not_before = from /\ window.not_after = to
       /\ \A d : Reference(d).checkout = d
  BY DEF AmountRange, Budget, AllowedPayees, ExecutionDate, Reference
<1>3. /\ check_payee_allowed(t.body, o.body) = "ok"
      /\ check_amount_in_range(t.body, o.body) = "ok"
      /\ check_budget(t.body, o.body, ledger.spent[o.body.id]) = "ok"
      /\ check_execution_date(t.body, o.body, now) = "ok"
      /\ check_checkout_reference(t.body, o.body, cart) = "ok"
      /\ t.body.vct = "closed" /\ Fits(t.body)
  BY ChecksHold
<1>4. p.payee = Shop
  <2>1. t.body.payee # {}
    BY <1>3 DEF Fits
  <2>2. t.body.payee \subseteq {Shop}
    <3>1. \A c \in Constraints(o.body, "payment.allowed_payees") : t.body.payee \subseteq c.allowed
      BY <1>3 DEF check_payee_allowed, Constrained, Verdict
    <3>2. QED BY <1>2, <1>11, <3>1
  <2>3. QED BY <2>1, <2>2 DEF Of
<1>5. p.amount \in lo .. hi
  <2>1. \A c \in Constraints(o.body, "payment.amount_range") : Of(t.body.amount) \in c.min .. c.max
    BY <1>3 DEF check_amount_in_range, Constrained, Verdict
  <2>2. QED BY <1>2, <1>11, <2>1
<1>6. ledger.spent[o.body.id] + p.amount <= max
  <2>1. \A c \in Constraints(o.body, "payment.budget") :
          ledger.spent[o.body.id] + Of(t.body.amount) <= c.max
    BY <1>3 DEF check_budget, Constrained, Verdict
  <2>2. QED BY <1>2, <1>11, <2>1
<1>7. from - Drift <= now /\ now <= to + Drift
  <2> DEFINE when == Of(t.body.when)
  <2>1. when \in now - Drift .. now + Drift
    BY <1>3 DEF check_execution_date
  <2>2. when \in from .. to
    <3>1. \A c \in Constraints(o.body, "payment.execution_date") : when \in c.not_before .. c.not_after
      BY <1>3 DEF check_execution_date, Constrained, Verdict
    <3>2. QED BY <1>2, <1>11, <3>1
  <2> HIDE DEF when
  <2>3. QED BY <2>1, <2>2, MandatesAssumption DEF AuthorityInv
<1>8. \A c \in pins : c = cart
  <2>1. \A c \in Constraints(o.body, "payment.reference") : c.checkout = cart
    BY <1>3 DEF check_checkout_reference, Constrained, Verdict
  <2>2. \A d \in pins : Reference(d).checkout = cart
    BY <1>2, <2>1
  <2>3. QED BY <2>2 DEF Reference
<1>9. Within(o, p)
  <2> SUFFICES ASSUME NEW c \in o.body.constraints
      PROVE  CASE c.type = "payment.amount_range" -> c.min <= p.amount /\ p.amount <= c.max
               [] c.type = "payment.budget" -> TRUE
               [] c.type = "payment.allowed_payees" -> p.payee \in c.allowed
               [] c.type = "payment.execution_date" ->
                    c.not_before - Drift <= p.at /\ p.at <= c.not_after + Drift
               [] OTHER -> p.checkout = c.checkout
    BY DEF Within
  <2>1. CASE c = AmountRange(lo, hi)
    BY <1>5, <2>1 DEF AmountRange
  <2>2. CASE c = Budget(max)
    BY <2>2 DEF Budget
  <2>3. CASE c = AllowedPayees({Shop})
    BY <1>4, <2>3 DEF AllowedPayees
  <2>4. CASE c = ExecutionDate(from, to)
    BY <1>7, <2>4 DEF ExecutionDate
  <2>5. CASE \E d \in pins : c = Reference(d)
    BY <1>8, <2>5 DEF Reference
  <2>6. QED BY <1>1, <2>1, <2>2, <2>3, <2>4, <2>5 DEF Says, Terms
<1>10. QED BY <1>2, <1>5, <1>6, <1>9 DEF Budget

\* The ledger's sum under the number of an authorisation is what was booked
\* under the authorisation.
LEMMA LedgerTells ==
  ASSUME SigningInv, AuthorityInv, NEW o \in granted
  PROVE  Ledger.spent[o.body.id] = Total(o)
<1>1. Spent(o.body.id) = BookedUnder(o)
  BY DEF SigningInv, Follows, Payments, AuthorityInv, Numbering, PaidUnder, BookedUnder, Spent
<1>2. o.body.id \in 0 .. MaxGrants
  <2>1. Cardinality(granted) \in Nat /\ Cardinality(granted) <= MaxGrants
    BY FS_CardinalityType DEF SigningInv, GrantInv
  <2>2. QED BY <2>1, SigningAssumption DEF AuthorityInv, Numbering
<1>3. Ledger.spent[o.body.id] = SumFunction([p \in Spent(o.body.id) |-> p.amount])
  BY <1>2 DEF Ledger
<1>4. QED BY <1>1, <1>3 DEF Total

\* The verdict is about the payment the call will make.
LEMMA VerdictHolds ==
  ASSUME SigningInv, AuthorityInv, NEW t \in Presentable, NEW cart, Verify(t, cart, Ledger)
  PROVE  LET p == PaymentOf(t, cart) IN
           /\ Within(p.open, p) /\ p.amount \in Nat
           /\ \A c \in Constraints(p.open.body, "payment.budget") : Total(p.open) + p.amount <= c.max
<1> DEFINE p == PaymentOf(t, cart)
           o == Of(t.body.open)
<1>1. /\ p.amount = Of(t.body.amount) /\ p.payee = Of(t.body.payee) /\ p.checkout = cart
      /\ p.at = now /\ p.open = o
  BY DEF PaymentOf
<1>2. p.open \in granted
  BY Verified
<1>3. verify_payment_mandate(t, cart, Ledger, ring, now) = "ALLOW"
  BY DEF Verify
<1> HIDE DEF p
<1>4. /\ Within(o, p) /\ p.amount \in Nat
      /\ \A c \in Constraints(o.body, "payment.budget") : Ledger.spent[o.body.id] + p.amount <= c.max
  BY <1>1, <1>2, <1>3, PaysWithin
<1>5. Ledger.spent[o.body.id] = Total(o)
  BY <1>1, <1>2, LedgerTells
<1> HIDE DEF o
<1>6. QED BY <1>1, <1>4, <1>5 DEF p

LEMMA PaidStep ==
  ASSUME SigningInv, AuthorityInv, PaidInv, [Next]_vars
  PROVE  PaidInv'
<1>1. CASE Payments' \subseteq Payments
  BY <1>1 DEF PaidInv, Within
<1>2. ASSUME NEW t \in Presentable, NEW cart \in Carts, Verify(t, cart, Ledger),
             Payments' \subseteq Payments \cup {PaymentOf(t, cart)}
      PROVE  PaidInv'
  <2> DEFINE p == PaymentOf(t, cart)
  <2>1. /\ Within(p.open, p) /\ p.amount \in Nat
        /\ \/ p.id \notin Used
           \/ \E q \in Payments : q.id = p.id /\ q.open = p.open /\ q.amount = p.amount
    BY <1>2, Verified, VerdictHolds
  <2>2. Payments' \subseteq Payments \cup {p}
    BY <1>2
  <2> HIDE DEF p
  <2>3. \A q \in Payments : q.id = p.id => q.open = p.open /\ q.amount = p.amount
    BY <2>1 DEF PaidInv, Used, Payments
  <2>4. QED BY <2>1, <2>2, <2>3 DEF PaidInv, Within
<1>3. QED BY <1>1, <1>2, PaymentsStep DEF SigningInv

(***************************************************************************)
(* The budget.                                                             *)
(***************************************************************************)
LEMMA Allowances ==
  /\ Cardinality(Callers) \in Nat
  /\ \A max \in Nat, most \in Nat : /\ max + Times(Cardinality(Callers) - 1, most) \in Nat
                                    /\ Allowance(max, most) = max + Times(Cardinality(Callers) - 1, most)
<1>1. Cardinality(Callers) \in Nat /\ Cardinality(Callers) # 0
  BY SigningAssumption, FS_CardinalityType, FS_EmptySet
<1> DEFINE n == Cardinality(Callers) - 1
<1>2. n \in Nat
  BY <1>1
<1> HIDE DEF n
<1>3. \A max \in Nat, most \in Nat : max + Times(n, most) \in Nat
  <2>1. SUFFICES ASSUME NEW max \in Nat, NEW most \in Nat PROVE max + Times(n, most) \in Nat
    OBVIOUS
  <2>2. Times(n, most) \in Nat
    BY <1>2, TimesMore
  <2>3. QED BY <2>2
<1>4. \A max, most : Allowance(max, most) = max + Times(n, most)
  BY DEF Allowance, Times, n
<1>5. QED BY <1>1, <1>3, <1>4 DEF n

\* Calls may end and nothing is booked under an authorisation.
LEMMA FittingStays ==
  ASSUME NEW o, NEW hi, NEW max, Caps(o, hi, max), Fitting(o, hi, max),
         BookedUnder(o)' = BookedUnder(o),
         \A k \in Due(o)' : k \in Due(o) /\ payment'[k] = payment[k]
  PROVE  Fitting(o, hi, max)'
<1> DEFINE F == Due(o)  G == Due(o)'  c == Dues  d == Dues'  s == Total(o)
           allowance == max + Times(Cardinality(Callers) - 1, hi)
<1>1. s' = s
  BY DEF Total
<1>2. G \in SUBSET F /\ \A k \in G : d[k] = c[k]
  BY DEF Dues, Due
<1>3. Costs(F, c, hi) /\ s \in Nat /\ Suffices(F, c, s, hi, allowance)
  BY DEF Fitting
<1>4. hi \in Nat /\ allowance \in Nat
  BY Allowances DEF Caps
<1> HIDE DEF F, G, c, d, s, allowance
<1>5. Suffices(G, d, s, hi, allowance) /\ Costs(G, d, hi)
  BY ONLY <1>2, <1>3, <1>4, SufficesFewer
<1>6. Suffices(Due(o)', Dues', Total(o)', hi, allowance) /\ Costs(Due(o)', Dues', hi) /\ Total(o)' \in Nat
  BY <1>1, <1>3, <1>5 DEF G, d, s
<1>7. QED BY <1>6 DEF Fitting, Suffices, Costs, Times, allowance

\* A call books its payment; others that hold the same mandate are done with it.
LEMMA FittingBooks ==
  ASSUME SigningInv, PaidInv, NEW k \in Callers, Book(k), NEW o \in granted, NEW hi, NEW max,
         Caps(o, hi, max), Fitting(o, hi, max)
  PROVE  Fitting(o, hi, max)'
<1>0. /\ stage[k] = "captured" /\ booked' = booked \cup {payment[k].id} /\ UNCHANGED paid
      /\ stage' = [stage EXCEPT ![k] = "idle"] /\ payment' = [payment EXCEPT ![k] = None]
  BY DEF Book, Hangup
<1>1. PICK p \in paid : p.id = payment[k].id
  BY <1>0 DEF SigningInv, CallInv
<1>2. payment[k] \in Payments /\ p \in Payments
  BY <1>0 DEF Payments, InHand
<1>3. p.open = payment[k].open /\ p.amount = payment[k].amount /\ p.amount \in Nat
  BY <1>1, <1>2 DEF PaidInv
<1>4. \A q \in paid : q.id = payment[k].id => q = p
  BY <1>1 DEF SigningInv, CallInv
<1>5. \A j \in Due(o)' : j \in Due(o) /\ j # k /\ payment'[j] = payment[j]
  BY <1>0 DEF Due, SigningInv, CallInv
<1>6. CASE p.open # o \/ payment[k].id \in booked
  <2>1. BookedUnder(o)' = BookedUnder(o)
    BY <1>0, <1>4, <1>6 DEF BookedUnder, PaidUnder
  <2>2. QED BY <1>5, <2>1, FittingStays
<1>7. CASE p.open = o /\ payment[k].id \notin booked
  <2> DEFINE F == Due(o)  G == Due(o)'  c == Dues  d == Dues'  s == Total(o)  t == Total(o)'
             allowance == max + Times(Cardinality(Callers) - 1, hi)
  <2>1. /\ k \in F /\ c[k] = p.amount /\ G \in SUBSET (F \ {k}) /\ \A j \in G : d[j] = c[j]
    <3>1. k \in F /\ c[k] = p.amount
      BY <1>0, <1>3, <1>7 DEF Due, Dues
    <3>2. \A j \in G : j \in Callers /\ d[j] = c[j]
      BY <1>5 DEF Due, Dues
    <3>3. G \in SUBSET (F \ {k})
      BY <1>5
    <3>4. QED BY <3>1, <3>2, <3>3
  <2>2. Costs(F, c, hi) /\ s \in Nat /\ Suffices(F, c, s, hi, allowance)
    BY DEF Fitting
  <2>3. hi \in Nat /\ allowance \in Nat
    BY Allowances DEF Caps
  <2>4. t = s + p.amount
    <3> DEFINE f == [q \in BookedUnder(o) |-> q.amount]
               g == [q \in BookedUnder(o)' |-> q.amount]
    <3>1. BookedUnder(o)' = BookedUnder(o) \cup {p} /\ p \notin BookedUnder(o) /\ BookedUnder(o) \subseteq paid
      BY <1>0, <1>1, <1>4, <1>7 DEF BookedUnder, PaidUnder
    <3>2. IsFiniteSet(DOMAIN f) /\ \A q \in DOMAIN f : f[q] \in Nat
      BY <3>1, FS_Subset DEF SigningInv, CallInv, PaidInv, Payments
    <3>3. /\ p \notin DOMAIN f /\ DOMAIN g = DOMAIN f \cup {p} /\ g[p] \in Nat /\ g[p] = p.amount
          /\ \A q \in DOMAIN f : g[q] = f[q]
      BY <1>3, <3>1
    <3>4. Total(o) = SumFunction(f) /\ Total(o)' = SumFunction(g)
      BY DEF Total
    <3> HIDE DEF f, g
    <3>5. SumFunction(g) = SumFunction(f) + g[p]
      BY <3>2, <3>3, SumGrows
    <3>6. QED BY <3>3, <3>4, <3>5
  <2> HIDE DEF F, G, c, d, s, t, allowance
  <2>5. t \in Nat /\ t <= s + c[k]
    BY <1>3, <2>1, <2>2, <2>4
  <2>6. Suffices(F \ {k}, c, t, hi, allowance)
    BY ONLY <2>1, <2>2, <2>3, <2>5, SufficesWithout
  <2>7. Costs(F \ {k}, c, hi)
    BY <2>2, FS_RemoveElement DEF Costs
  <2>8. Suffices(G, d, t, hi, allowance) /\ Costs(G, d, hi)
    BY ONLY <2>1, <2>3, <2>5, <2>6, <2>7, SufficesFewer
  <2>9. Suffices(Due(o)', Dues', Total(o)', hi, allowance) /\ Costs(Due(o)', Dues', hi) /\ Total(o)' \in Nat
    BY <2>5, <2>8 DEF G, d, t
  <2>10. QED BY <2>9 DEF Fitting, Suffices, Costs, Times, allowance
<1>8. QED BY <1>6, <1>7

\* A payment that is let through fits what is left of the budget on its own.
LEMMA FittingVerifies ==
  ASSUME SigningInv, AuthorityInv, NEW t \in Presentable, NEW cart, Verify(t, cart, Ledger),
         NEW o \in granted, NEW hi, NEW max, Caps(o, hi, max), Fitting(o, hi, max)
  PROVE  Fitting(o, hi, max)'
<1> DEFINE p == PaymentOf(t, cart)
<1>1. PICK k \in Callers :
        /\ stage[k] = "idle"
        /\ stage' = [stage EXCEPT ![k] = "verified"] /\ payment' = [payment EXCEPT ![k] = p]
  BY DEF Verify
<1>2. UNCHANGED <<paid, booked>> /\ BookedUnder(o)' = BookedUnder(o) /\ Total(o)' = Total(o)
  BY DEF Verify, moneyVars, BookedUnder, PaidUnder, Total
<1>3. /\ Within(p.open, p) /\ p.amount \in Nat
      /\ \A c \in Constraints(p.open.body, "payment.budget") : Total(p.open) + p.amount <= c.max
  BY VerdictHolds
<1> HIDE DEF p
<1>4. \A j \in Due(o)' : (j # k => j \in Due(o) /\ payment'[j] = payment[j]) /\ (j = k => p.open = o /\ payment'[j] = p)
  BY <1>1, <1>2 DEF Due, SigningInv, CallInv
<1>5. CASE k \notin Due(o)'
  BY <1>2, <1>4, <1>5, FittingStays
<1>6. CASE k \in Due(o)'
  <2> DEFINE F == Due(o)  G == Due(o)'  c == Dues  d == Dues'  s == Total(o)
  <2>1. p.open = o /\ k \in G /\ d[k] = p.amount
    BY <1>1, <1>4, <1>6 DEF Dues
  <2>2. s + p.amount <= max
    <3>1. Budget(max) \in Constraints(o.body, "payment.budget")
      BY DEF Caps, Constraints, Budget
    <3>2. QED BY <1>3, <2>1, <3>1 DEF Budget
  <2>3. p.amount \in 0 .. hi
    <3>1. PICK lo \in Nat : AmountRange(lo, hi) \in o.body.constraints
      BY DEF Caps
    <3>2. p.amount <= hi
      BY <1>3, <2>1, <3>1 DEF Within, AmountRange
    <3>3. QED BY <1>3, <3>2 DEF Caps
  <2>4. Costs(F, c, hi) /\ s \in Nat /\ hi \in Nat /\ max \in Nat
    BY DEF Fitting, Caps
  <2>5. \A j \in G : j # k => j \in F /\ d[j] = c[j]
    BY <1>4 DEF Dues, Due
  <2>6. G \subseteq Callers
    BY DEF Due
  <2> HIDE DEF F, G, c, d, s
  <2>7. Costs(G, d, hi) /\ Cardinality(G) <= Cardinality(Callers)
    <3>1. IsFiniteSet(G) /\ Cardinality(G) <= Cardinality(Callers)
      BY <2>6, SigningAssumption, FS_Subset
    <3>2. \A j \in F : c[j] \in 0 .. hi
      BY <2>4 DEF Costs
    <3>3. \A j \in G : d[j] \in 0 .. hi
      BY <2>1, <2>3, <2>5, <3>2
    <3>4. QED BY <3>1, <3>3 DEF Costs
  <2>8. s + d[k] <= max /\ Cardinality(Callers) \in Nat
    BY <2>1, <2>2, Allowances
  <2>9. Suffices(G, d, s, hi, max + Times(Cardinality(Callers) - 1, hi))
    BY ONLY <2>1, <2>4, <2>7, <2>8, SufficesVerified
  <2>10. /\ Suffices(Due(o)', Dues', Total(o)', hi, max + Times(Cardinality(Callers) - 1, hi))
         /\ Costs(Due(o)', Dues', hi) /\ Total(o)' \in Nat
    BY <1>2, <2>4, <2>7, <2>9 DEF G, d, s
  <2>11. QED BY <2>10 DEF Fitting, Suffices, Costs, Times
<1>7. QED BY <1>5, <1>6

\* An authorisation that is new has had nothing paid under it.
LEMMA FittingStarts ==
  ASSUME SigningInv, [Next]_vars, UNCHANGED <<callVars, moneyVars>>,
         NEW o, o \notin granted, NEW hi, NEW max, Caps(o, hi, max)
  PROVE  Fitting(o, hi, max)'
<1>1. Due(o)' = {} /\ BookedUnder(o)' = {}
  BY DEF callVars, moneyVars, SigningInv, Follows, Payments, InHand, Due, BookedUnder, PaidUnder
<1>2. Total(o)' = 0
  BY <1>1, SumStarts DEF Total
<1>3. Costs(Due(o)', Dues', hi)
  BY <1>1, FS_EmptySet DEF Costs
<1>4. 0 <= max + Times(Cardinality(Callers) - 1, hi)
  <2>1. max + Times(Cardinality(Callers) - 1, hi) \in Nat
    BY Allowances DEF Caps
  <2> DEFINE allowance == max + Times(Cardinality(Callers) - 1, hi)
  <2> HIDE DEF allowance
  <2>2. 0 <= allowance
    BY <2>1 DEF allowance
  <2>3. QED BY <2>2 DEF allowance
<1>5. Suffices(Due(o)', Dues', Total(o)', hi, max + Times(Cardinality(Callers) - 1, hi))
  BY <1>1, <1>2, <1>4 DEF Suffices
<1>6. QED BY <1>2, <1>3, <1>5 DEF Fitting, Suffices, Costs, Times

LEMMA BudgetStep ==
  ASSUME SigningInv, AuthorityInv, PaidInv, BudgetInv, [Next]_vars
  PROVE  BudgetInv'
<1> SUFFICES ASSUME NEW o \in granted', NEW hi, NEW max, Caps(o, hi, max)
             PROVE  Fitting(o, hi, max)'
  BY DEF BudgetInv, Caps, Budget, AmountRange
<1>1. CASE o \notin granted
  <2>1. UNCHANGED <<callVars, moneyVars>>
    BY <1>1, EachStep, MoneyAside DEF Die, Unpaid, Start, DrawKey, Persisted, Assemble, delegate_to,
       Approve, IssueReceipt, MoveAside, Tick, vars
  <2>2. QED BY <1>1, <2>1, FittingStarts
<1>2. CASE o \in granted
  <2>0. Fitting(o, hi, max)
    BY <1>2 DEF BudgetInv
  <2>1. ASSUME BookedUnder(o)' = BookedUnder(o), \A k \in Due(o)' : k \in Due(o) /\ payment'[k] = payment[k]
        PROVE  Fitting(o, hi, max)'
    BY <2>0, <2>1, FittingStays
  <2>2. CASE UNCHANGED <<callVars, moneyVars>>
    BY <2>1, <2>2 DEF callVars, moneyVars, BookedUnder, PaidUnder, Due
  <2>3. ASSUME NEW t \in Presentable, NEW cart \in Carts, Verify(t, cart, Ledger)
        PROVE  Fitting(o, hi, max)'
    BY <1>2, <2>0, <2>3, FittingVerifies
  <2>4. ASSUME NEW k \in Callers, Attempt(k)
        PROVE  Fitting(o, hi, max)'
    BY <2>1, <2>4 DEF Attempt, BookedUnder, PaidUnder, Due, SigningInv, CallInv
  <2>5. ASSUME NEW k \in Callers, Capture(k)
        PROVE  Fitting(o, hi, max)'
    <3>1. BookedUnder(o)' = BookedUnder(o)
      BY <2>5 DEF Capture, BookedUnder, PaidUnder, SigningInv, CallInv
    <3>2. QED BY <2>1, <2>5, <3>1 DEF Capture, Due, SigningInv, CallInv
  <2>6. ASSUME NEW k \in Callers, Book(k)
        PROVE  Fitting(o, hi, max)'
    BY <1>2, <2>0, <2>6, FittingBooks
  <2>7. ASSUME NEW k \in Callers, Drop(k)
        PROVE  Fitting(o, hi, max)'
    BY <2>1, <2>7 DEF Drop, Hangup, moneyVars, BookedUnder, PaidUnder, Due, SigningInv, CallInv
  <2>8. CASE Die
    BY <2>1, <2>8 DEF Die, moneyVars, BookedUnder, PaidUnder, Due
  <2>9. QED
    BY <2>2, <2>3, <2>4, <2>5, <2>6, <2>7, <2>8, EachStep
    DEF MoneyStep, Start, DrawKey, Persisted, Assemble, delegate_to, Approve, IssueReceipt, MoveAside,
        Tick, vars
<1>3. QED BY <1>1, <1>2

ConstraintInv == SigningInv /\ AuthorityInv /\ PaidInv /\ BudgetInv

LEMMA ConstraintInvariant == Spec => []ConstraintInv
<1>1. Init => ConstraintInv
  <2> SUFFICES ASSUME Init PROVE ConstraintInv
    OBVIOUS
  <2>1. granted = {} /\ Payments = {} /\ now = 1
    BY DEF Init, Payments, InHand
  <2>2. AuthorityInv /\ PaidInv /\ BudgetInv
    BY <2>1 DEF AuthorityInv, Numbering, PaidInv, BudgetInv
  <2>3. QED BY <2>2, SigningInit DEF ConstraintInv
<1>2. ConstraintInv /\ [Next]_vars => ConstraintInv'
  BY SigningStep, AuthorityStep, PaidStep, BudgetStep DEF ConstraintInv
<1>3. QED BY <1>1, <1>2, PTL DEF Spec

\* What is booked under an authorisation, whatever budget and range it names.
LEMMA BookedFits ==
  ASSUME ConstraintInv, NEW o \in granted, NEW hi, NEW max, Caps(o, hi, max)
  PROVE  Total(o) <= Allowance(max, hi)
<1> DEFINE F == Due(o)  c == Dues  s == Total(o)  allowance == max + Times(Cardinality(Callers) - 1, hi)
<1>1. Costs(F, c, hi) /\ s \in Nat /\ Suffices(F, c, s, hi, allowance)
  BY DEF ConstraintInv, BudgetInv, Fitting
<1>2. hi \in Nat /\ allowance \in Nat /\ Allowance(max, hi) = allowance
  BY Allowances DEF Caps
<1> HIDE DEF F, c, s, allowance
<1>3. s <= allowance
  BY ONLY <1>1, <1>2, SufficesNow
<1>4. QED BY <1>2, <1>3 DEF s

\* Nothing is paid outside the range, the payees, the window or the cart of the
\* authorisation it is paid under, by any agent, across lives of the gateway and
\* whatever is captured and never booked; and what is booked under it exceeds
\* its budget by one purchase less than there are calls at once, at most (the
\* checks of gateway/verify.py, Ledger.spent_under, record_spend).
THEOREM ConstraintsHold == Spec => []EveryConstraintHolds
<1>1. ASSUME ConstraintInv, NEW o \in granted, NEW p \in PaidUnder(o)
      PROVE  Within(o, p)
  BY <1>1 DEF ConstraintInv, PaidInv, Payments, PaidUnder
<1>2. ASSUME ConstraintInv, NEW o \in granted, NEW budget \in Constraints(o.body, "payment.budget"),
             NEW range \in Constraints(o.body, "payment.amount_range")
      PROVE  Total(o) <= Allowance(budget.max, range.max)
  <2>1. Constrains(o)
    BY <1>2 DEF ConstraintInv, AuthorityInv, Authorises
  <2>2. PICK lo, hi, max \in Nat, from, to \in Int, pins \in SUBSET Carts :
          Says(o, lo, hi, max, from, to, pins)
    BY <2>1 DEF Constrains
  <2>3. budget = Budget(max) /\ range = AmountRange(lo, hi)
    BY <1>2, <2>2, OneOfEach
  <2>4. Caps(o, hi, max)
    BY <2>2 DEF Caps, Says, Terms
  <2>5. Total(o) <= Allowance(max, hi)
    BY <1>2, <2>4, BookedFits
  <2>6. QED BY <2>3, <2>5 DEF Budget, AmountRange
<1>3. ConstraintInv => EveryConstraintHolds
  BY <1>1, <1>2 DEF EveryConstraintHolds, Within, Total
<1>4. QED BY <1>3, ConstraintInvariant, PTL

(***************************************************************************)
(* The verdicts of Storefront.                                             *)
(***************************************************************************)
\* A payment that names its payee and its checkout.
Names(closed, payee, cart) ==
  closed.aware /\ closed.payee = {payee} /\ closed.checkout = {cart} /\ closed.currency = "INR"

\* What an authorisation says, pinned to one cart at most.
SaysPlainly(o, lo, hi, max, from, to, pins) ==
  Says(o, lo, hi, max, from, to, pins) /\ \A c, d \in pins : c = d

LEMMA OneElement ==
  ASSUME NEW x
  PROVE  ~(Cardinality({x}) > 1)
<1>1. Cardinality({x}) = 1
  BY FS_Singleton
<1>2. QED BY <1>1

\* Each check of the code, as Verifier has it.
ChecksSay(o, closed, payee, cart, lo, hi, max, from, to, pins) ==
  /\ check_payee_allowed(closed, o.body) = "ok" <=> payee \in {Shop}
  /\ check_amount_in_range(closed, o.body) = "ok" <=> Of(closed.amount) \in lo .. hi
  /\ \A spent : check_budget(closed, o.body, spent) = "ok" <=> spent + Of(closed.amount) <= max
  /\ check_execution_date(closed, o.body, now) = "ok" <=>
       Of(closed.when) \in now - Drift .. now + Drift /\ Of(closed.when) \in from .. to
  /\ \A checkout : check_checkout_reference(closed, o.body, checkout) = "ok" <=>
       cart = checkout /\ \A d \in pins : d = checkout

\* Given the shape of an authorisation, each check says what Verifier's does.
LEMMA EachCheck ==
  ASSUME NEW o, NEW closed, NEW payee, NEW cart, Names(closed, payee, cart),
         NEW lo, NEW hi, NEW max, NEW from, NEW to, NEW pins,
         SaysPlainly(o, lo, hi, max, from, to, pins)
  PROVE  ChecksSay(o, closed, payee, cart, lo, hi, max, from, to, pins)
<1>0. Says(o, lo, hi, max, from, to, pins)
  BY DEF SaysPlainly
<1>1. /\ Constraints(o.body, "payment.amount_range") = {AmountRange(lo, hi)}
      /\ Constraints(o.body, "payment.budget") = {Budget(max)}
      /\ Constraints(o.body, "payment.allowed_payees") = {AllowedPayees({Shop})}
      /\ Constraints(o.body, "payment.execution_date") = {ExecutionDate(from, to)}
      /\ \A c : c \in Constraints(o.body, "payment.reference") <=> \E d \in pins : c = Reference(d)
  BY <1>0, OneOfEach
<1>2. /\ AmountRange(lo, hi).min = lo /\ AmountRange(lo, hi).max = hi
      /\ Budget(max).max = max /\ AllowedPayees({Shop}).allowed = {Shop}
      /\ ExecutionDate(from, to).not_before = from /\ ExecutionDate(from, to).not_after = to
      /\ \A d : Reference(d).checkout = d
  BY DEF AmountRange, Budget, AllowedPayees, ExecutionDate, Reference
<1>3. \A x : ~(Cardinality({x}) > 1)
  BY OneElement
<1>4. check_payee_allowed(closed, o.body) = "ok" <=> payee \in {Shop}
  <2>1. check_payee_allowed(closed, o.body) = "ok" <=>
          \A c \in {AllowedPayees({Shop})} : {payee} \subseteq c.allowed
    BY <1>1, <1>3 DEF check_payee_allowed, Names, Constrained, Verdict
  <2>2. QED BY <1>2, <2>1
<1>5. check_amount_in_range(closed, o.body) = "ok" <=> Of(closed.amount) \in lo .. hi
  <2>1. check_amount_in_range(closed, o.body) = "ok" <=>
          \A c \in {AmountRange(lo, hi)} : Of(closed.amount) \in c.min .. c.max
    BY <1>1, <1>3 DEF check_amount_in_range, Names, Constrained, Verdict
  <2>2. QED BY <1>2, <2>1
<1>6. ASSUME NEW spent
      PROVE  check_budget(closed, o.body, spent) = "ok" <=> spent + Of(closed.amount) <= max
  <2>1. check_budget(closed, o.body, spent) = "ok" <=>
          \A c \in {Budget(max)} : spent + Of(closed.amount) <= c.max
    BY <1>1, <1>3 DEF check_budget, Names, Constrained, Verdict
  <2>2. QED BY <1>2, <2>1
<1>7. check_execution_date(closed, o.body, now) = "ok" <=>
        Of(closed.when) \in now - Drift .. now + Drift /\ Of(closed.when) \in from .. to
  <2>1. check_execution_date(closed, o.body, now) = "ok" <=>
          /\ Of(closed.when) \in now - Drift .. now + Drift
          /\ \A c \in {ExecutionDate(from, to)} : Of(closed.when) \in c.not_before .. c.not_after
    BY <1>1, <1>3 DEF check_execution_date, Names, Constrained, Verdict
  <2>2. QED BY <1>2, <2>1
<1>8. ASSUME NEW checkout
      PROVE  check_checkout_reference(closed, o.body, checkout) = "ok" <=>
               cart = checkout /\ \A d \in pins : d = checkout
  <2> DEFINE refs == Constraints(o.body, "payment.reference")
  <2>1. ~(Cardinality(refs) > 1)
    <3>1. CASE refs = {}
      BY <3>1, FS_EmptySet
    <3>2. CASE \E c : refs = {c}
      BY <1>3, <3>2
    <3>3. \A c, d \in refs : c = d
      BY <1>1 DEF SaysPlainly
    <3> HIDE DEF refs
    <3>4. ASSUME refs # {}
          PROVE  \E c : refs = {c}
      <4>1. PICK c \in refs : TRUE
        BY <3>4
      <4>2. refs = {c}
        BY <3>3, <4>1
      <4>3. QED BY <4>2
    <3>5. QED BY <3>1, <3>2, <3>4
  <2>2. check_checkout_reference(closed, o.body, checkout) = "ok" <=>
          cart = checkout /\ \A c \in refs : c.checkout = checkout
    BY <2>1 DEF check_checkout_reference, Names, Constrained, Verdict
  <2>3. (\A c \in refs : c.checkout = checkout) <=> \A d \in pins : d = checkout
    BY <1>1, <1>2
  <2>4. QED BY <2>2, <2>3
<1>9. QED BY <1>4, <1>5, <1>6, <1>7, <1>8 DEF ChecksSay

\* A mandate of a signer of this gateway, with an authorisation it wrote.
LEMMA PlainShape ==
  ASSUME SigningInv, AuthorityInv, NEW t \in Rightful \cup UNION {Written(r) : r \in Entitled}, Plain(t)
  PROVE  /\ t.kid \in DOMAIN ring /\ t.key = ring[t.kid].key
         /\ t.iat \in Int /\ t.exp \in Int /\ t.body.vct = "closed"
         /\ \E x : t.body.payee = {x}
         /\ \E x : t.body.checkout = {x}
         /\ Of(t.body.open) \in granted
<1>1. now \in Int /\ now + ClosedTtl \in Int
  BY SigningAssumption DEF AuthorityInv
<1>2. ASSUME NEW r \in Rightful
      PROVE  /\ Shaped(r) /\ r.body.vct = "closed" /\ Copies(r, r)
             /\ r.kid \in DOMAIN ring /\ r.key = ring[r.kid].key
             /\ r.iat \in Int /\ r.exp \in Int
             /\ \E o \in granted : r.body.open = {o}
  <2>1. PICK kid \in DOMAIN ring, o \in granted : r = Presented(<<kid, ring[kid].key>>, o)
    BY <1>2 DEF Rightful
  <2>2. QED BY <1>1, <2>1, PresentedShape
<1>3. CASE t \in Rightful
  BY <1>2, <1>3 DEF Copies, Plain
<1>4. CASE t \in UNION {Written(r) : r \in Entitled}
  <2>1. PICK r \in Rightful : t \in Written(r)
    BY <1>4 DEF Entitled
  <2>2. /\ t.body.vct = "closed"
        /\ \/ t.body.open = r.body.open /\ Copies(t, r)
           \/ t.body.open = {} \/ t.body.open = {r}
    BY <1>2, <2>1, WrittenShape
  <2>3. t.body.open # {}
    BY <2>2 DEF Plain, Fits
  <2>4. t.body.open # {r}
    <3>1. r.body.vct = "closed"
      BY <1>2
    <3>2. \A o \in granted : o.body.vct = "open"
      BY DEF SigningInv, GrantInv
    <3>3. QED BY <3>1, <3>2, OfSingleton DEF Plain
  <2>5. Copies(t, r)
    BY <2>2, <2>3, <2>4
  <2>6. QED BY <1>2, <2>2, <2>5 DEF Copies, Plain
<1>5. QED BY <1>3, <1>4

\* What verify_payment_mandate asks of the envelopes, and of each check.
LEMMA PlainVerdict ==
  ASSUME SigningInv, AuthorityInv, phase = "up", NEW ledger, NEW cart,
         NEW t \in Rightful \cup UNION {Written(r) : r \in Entitled}, Plain(t)
  PROVE  LET o == Of(t.body.open) IN
           verify_payment_mandate(t, cart, ledger, ring, now) = "ALLOW" <=>
             /\ t.exp > now - Skew /\ t.iat <= now + Skew
             /\ o.exp > now - Skew /\ o.key = keys["user"]
             /\ o.body.cnf = {t.key}
             /\ check_payee_allowed(t.body, o.body) = "ok"
             /\ check_amount_in_range(t.body, o.body) = "ok"
             /\ check_budget(t.body, o.body, ledger.spent[o.body.id]) = "ok"
             /\ check_execution_date(t.body, o.body, now) = "ok"
             /\ check_checkout_reference(t.body, o.body, cart) = "ok"
             /\ ledger.owners[t.body.nonce] \subseteq {t.body.id}
<1> DEFINE o == Of(t.body.open)
           checks == Remaining(t.body, o.body, ring[t.kid].key, cart, ledger, now)
<1>1. /\ t.kid \in DOMAIN ring /\ t.key = ring[t.kid].key /\ t.body.vct = "closed"
      /\ t.iat \in Int /\ t.exp \in Int /\ o \in granted
  BY PlainShape
<1>2. /\ o.kid = "user" /\ o.iss = "user" /\ o.iat \in Int /\ o.exp \in Int /\ o.iat <= now
      /\ o.body.vct = "open" /\ Fits(o.body) /\ o.body.currency = "INR" /\ now \in Nat
  BY <1>1 DEF AuthorityInv, Authorises
<1>3. /\ Fits(t.body) /\ t.body.currency = "INR" /\ t.iss = t.kid /\ ring[t.kid].role \in PRESENTER_ROLES
      /\ ring[t.kid].role \in ROLES
  BY DEF Plain, ROLES
<1>4. "user" \in DOMAIN ring /\ ring["user"] = [role |-> "user", key |-> keys["user"]]
  BY SigningAssumption DEF SigningInv, RingInv, Kids
<1>5. Skew \in Nat
  BY MandatesAssumption
<1> HIDE DEF o
<1>6. load_payment_mandate(t, ring, ROLES, now) <=> t.exp > now - Skew /\ t.iat <= now + Skew
  BY <1>1, <1>3 DEF load_payment_mandate, verify_jws
<1>7. load_payment_mandate(o, ring, {"user"}, now) <=> o.exp > now - Skew /\ o.key = keys["user"]
  <2>1. o.iat <= now + Skew
    BY <1>2, <1>5
  <2>2. QED BY <1>2, <1>4, <2>1 DEF load_payment_mandate, verify_jws
<1>8. /\ t.exp > now - Skew /\ t.iat <= now + Skew => check_not_expired(t, now) = "ok"
      /\ o.exp > now - Skew => check_not_expired(o, now) = "ok"
  BY <1>1, <1>2, <1>5 DEF check_not_expired, Verdict
<1>9. verify_payment_mandate(t, cart, ledger, ring, now) = "ALLOW" <=>
        /\ t.exp > now - Skew /\ t.iat <= now + Skew
        /\ o.exp > now - Skew /\ o.key = keys["user"]
        /\ Answer(checks) = "ALLOW"
  <2> HIDE DEF checks
  <2>1. verify_payment_mandate(t, cart, ledger, ring, now) =
          IF ~load_payment_mandate(t, ring, ROLES, now) THEN "DENY"
          ELSE IF \/ check_not_expired(t, now) # "ok"
                  \/ ~load_payment_mandate(o, ring, {"user"}, now)
                  \/ check_not_expired(o, now) # "ok"
               THEN "DENY"
          ELSE Answer(checks)
    BY <1>1, <1>2, <1>3 DEF verify_payment_mandate, o, checks
  <2>2. QED BY <1>6, <1>7, <1>8, <2>1
<1>10. Answer(checks) = "ALLOW" <=> \A i \in DOMAIN checks : checks[i] = "ok"
  <2> HIDE DEF checks
  <2>1. QED BY DEF Answer
<1>11. (\A i \in DOMAIN checks : checks[i] = "ok") <=>
         /\ check_key_binding(o.body, ring[t.kid].key) = "ok"
         /\ check_currency(t.body, o.body) = "ok"
         /\ check_payee_allowed(t.body, o.body) = "ok"
         /\ check_amount_in_range(t.body, o.body) = "ok"
         /\ check_budget(t.body, o.body, ledger.spent[o.body.id]) = "ok"
         /\ check_execution_date(t.body, o.body, now) = "ok"
         /\ check_checkout_reference(t.body, o.body, cart) = "ok"
         /\ check_nonce_unused(t.body, ledger.owners[t.body.nonce]) = "ok"
  BY DEF Remaining
<1>12. /\ check_key_binding(o.body, ring[t.kid].key) = "ok" <=> o.body.cnf = {t.key}
       /\ check_currency(t.body, o.body) = "ok"
       /\ check_nonce_unused(t.body, ledger.owners[t.body.nonce]) = "ok" <=>
            ledger.owners[t.body.nonce] \subseteq {t.body.id}
  BY <1>1, <1>2, <1>3 DEF check_key_binding, check_currency, check_nonce_unused, Verdict
<1> HIDE DEF checks
<1>13. QED BY <1>9, <1>10, <1>11, <1>12 DEF o

\* The verdict Storefront takes from Verifier is the one the code's checks give,
\* for whatever mandate a signer of this gateway wrote, right or with one thing
\* wrong in it (verify_payment_mandate).
THEOREM VerifierIsFaithful == Spec => []StorefrontSeesTheSame
<1> DEFINE ledger == Ledger
<1>1. ASSUME ConstraintInv, phase = "up",
             NEW t \in Rightful \cup UNION {Written(r) : r \in Entitled}, Plain(t)
      PROVE  LET open == Of(t.body.open)
             IN verify_payment_mandate(t, ACart, ledger, ring, now) = "ALLOW" <=>
                  V!Allows(ClosedView(t), OpenView(open, Of(t.body.when)), ACart,
                           ledger.spent[open.body.id], ledger.owners[t.body.nonce])
  <2> HIDE DEF ledger
  <2> DEFINE o == Of(t.body.open)
             when == Of(t.body.when)
             closed == ClosedView(t)
             open == OpenView(o, when)
             spent == ledger.spent[o.body.id]
             owners == ledger.owners[t.body.nonce]
  <2>1. SigningInv /\ AuthorityInv /\ now \in Nat
    BY <1>1 DEF ConstraintInv, AuthorityInv
  <2>2. /\ t.iat \in Int /\ t.exp \in Int /\ o \in granted /\ t.body.aware /\ t.body.currency = "INR"
    BY <1>1, <2>1, PlainShape DEF Plain
  <2>3. PICK payee, cart : t.body.payee = {payee} /\ t.body.checkout = {cart}
    BY <1>1, <2>1, PlainShape
  <2>4. Constrains(o) /\ o.exp \in Int
    BY <2>1, <2>2 DEF AuthorityInv, Authorises
  <2>5. PICK holder : o.body.cnf = {holder}
    BY <2>1, <2>2 DEF AuthorityInv, Authorises
  <2>6. PICK lo, hi, max \in Nat, from, to \in Int, pins \in SUBSET Carts :
          SaysPlainly(o, lo, hi, max, from, to, pins)
    BY <2>4 DEF Constrains, SaysPlainly
  <2> HIDE DEF o
  <2>7. /\ Constraints(o.body, "payment.amount_range") = {AmountRange(lo, hi)}
        /\ Constraints(o.body, "payment.budget") = {Budget(max)}
        /\ Constraints(o.body, "payment.allowed_payees") = {AllowedPayees({Shop})}
        /\ Constraints(o.body, "payment.execution_date") = {ExecutionDate(from, to)}
        /\ \A c : c \in Constraints(o.body, "payment.reference") <=> \E d \in pins : c = Reference(d)
    BY <2>6, OneOfEach DEF SaysPlainly
  <2>8. /\ closed.id = t.body.id /\ closed.signer = t.key /\ closed.payee = payee
        /\ closed.amount = Of(t.body.amount) /\ closed.checkout = cart
        /\ closed.lapsed <=> \/ t.exp <= now - Skew \/ t.iat > now + Skew
                             \/ when \notin now - Drift .. now + Drift
    BY <2>3, OfSingleton DEF ClosedView
  <2>9. /\ open.holder = holder /\ open.min = lo /\ open.max = hi /\ open.budget = max
        /\ open.payees = {Shop}
        /\ open.lapsed <=> o.exp <= now - Skew \/ o.key # keys["user"] \/ when \notin from .. to
    <3>1. /\ Of(o.body.cnf) = holder
          /\ Of(Constraints(o.body, "payment.amount_range")) = AmountRange(lo, hi)
          /\ Of(Constraints(o.body, "payment.budget")) = Budget(max)
          /\ Of(Constraints(o.body, "payment.allowed_payees")) = AllowedPayees({Shop})
          /\ Of(Constraints(o.body, "payment.execution_date")) = ExecutionDate(from, to)
      BY <2>5, <2>7, OfSingleton
    <3>2. /\ AmountRange(lo, hi).min = lo /\ AmountRange(lo, hi).max = hi
          /\ Budget(max).max = max /\ AllowedPayees({Shop}).allowed = {Shop}
          /\ ExecutionDate(from, to).not_before = from /\ ExecutionDate(from, to).not_after = to
      BY DEF AmountRange, Budget, AllowedPayees, ExecutionDate
    <3>3. QED BY <3>1, <3>2 DEF OpenView
  <2>10. open.pinned \subseteq {ACart} <=> \A d \in pins : d = ACart
    <3>1. open.pinned = {c.checkout : c \in Constraints(o.body, "payment.reference")}
      BY DEF OpenView
    <3>2. \A d : Reference(d).checkout = d
      BY DEF Reference
    <3>3. QED BY <2>7, <3>1, <3>2
  <2>11. V!Allows(closed, open, ACart, spent, owners) <=>
           /\ ~closed.lapsed /\ ~open.lapsed
           /\ t.key = holder
           /\ payee \in {Shop}
           /\ Of(t.body.amount) \in lo .. hi
           /\ spent + Of(t.body.amount) <= max
           /\ cart = ACart /\ \A d \in pins : d = ACart
           /\ owners \subseteq {t.body.id}
    <3> HIDE DEF closed, open, spent, owners
    <3>1. QED
      BY <2>8, <2>9, <2>10
      DEF V!Allows, V!InTime, V!KeyBound, V!PayeeAllowed, V!AmountInRange, V!WithinBudget, V!BoundTo,
          V!NonceUnused
  <2>12. verify_payment_mandate(t, ACart, ledger, ring, now) = "ALLOW" <=>
           /\ t.exp > now - Skew /\ t.iat <= now + Skew
           /\ o.exp > now - Skew /\ o.key = keys["user"]
           /\ o.body.cnf = {t.key}
           /\ check_payee_allowed(t.body, o.body) = "ok"
           /\ check_amount_in_range(t.body, o.body) = "ok"
           /\ check_budget(t.body, o.body, spent) = "ok"
           /\ check_execution_date(t.body, o.body, now) = "ok"
           /\ check_checkout_reference(t.body, o.body, ACart) = "ok"
           /\ owners \subseteq {t.body.id}
    BY <1>1, <2>1, PlainVerdict DEF o
  <2>13. /\ check_payee_allowed(t.body, o.body) = "ok" <=> payee \in {Shop}
         /\ check_amount_in_range(t.body, o.body) = "ok" <=> Of(t.body.amount) \in lo .. hi
         /\ check_budget(t.body, o.body, spent) = "ok" <=> spent + Of(t.body.amount) <= max
         /\ check_execution_date(t.body, o.body, now) = "ok" <=>
              when \in now - Drift .. now + Drift /\ when \in from .. to
         /\ check_checkout_reference(t.body, o.body, ACart) = "ok" <=>
              cart = ACart /\ \A d \in pins : d = ACart
    <3> DEFINE body == t.body
    <3>1. Names(body, payee, cart)
      BY <2>2, <2>3 DEF Names
    <3> HIDE DEF body, spent
    <3>2. ChecksSay(o, body, payee, cart, lo, hi, max, from, to, pins)
      BY ONLY <2>6, <3>1, EachCheck
    <3>3. QED BY <3>2 DEF ChecksSay, body, when
  <2> HIDE DEF closed, open, spent, owners, when
  <2>14. /\ t.exp > now - Skew <=> ~(t.exp <= now - Skew)
         /\ t.iat <= now + Skew <=> ~(t.iat > now + Skew)
         /\ o.exp > now - Skew <=> ~(o.exp <= now - Skew)
    BY <2>1, <2>2, <2>4, MandatesAssumption
  <2>15. o.body.cnf = {t.key} <=> t.key = holder
    BY <2>5
  <2>16. verify_payment_mandate(t, ACart, ledger, ring, now) = "ALLOW" <=>
           V!Allows(closed, open, ACart, spent, owners)
    BY <2>8, <2>9, <2>11, <2>12, <2>13, <2>14, <2>15
  <2>17. QED BY <2>16 DEF o, when, closed, open, spent, owners
<1>2. ConstraintInv => StorefrontSeesTheSame
  BY <1>1 DEF StorefrontSeesTheSame
<1>3. QED BY <1>2, ConstraintInvariant, PTL

(***************************************************************************)
(* Delegation.                                                             *)
(***************************************************************************)
\* The authorisations of the agents, and what was booked under them.
Standings == {o \in granted : Constraints(o.body, "payment.reference") = {}}
Delegated == {p \in paid : p.id \in booked /\ Constraints(p.open.body, "payment.reference") = {}}

\* What the agents may spend together, in place of DelegationAddsNothing: each
\* start-up and each delegation adds one budget, with what calls at once may
\* exceed it by.
DelegationIsBounded ==
  SumFunction([p \in Delegated |-> p.amount]) <= Allowance(Daily, Limit) * Cardinality(Standings)

\* A standing authorisation carries the daily budget and the limit.
StandingInv == \A o \in Standings : Caps(o, Limit, Daily)

\* What Standing signs is bounded by the daily budget, whoever it is for.
LEMMA StandingBudget ==
  ASSUME NEW userKey, NEW cnf
  PROVE  Caps(Standing(userKey, cnf), Limit, Daily)
<1> DEFINE o == Standing(userKey, cnf)
<1>1. {Budget(Daily), AmountRange(1, Limit)} \subseteq o.body.constraints
  BY DEF Standing, sign, open_payment_mandate
<1> HIDE DEF o
<1>2. Caps(o, Limit, Daily)
  BY <1>1, SigningAssumption DEF Caps
<1>3. QED BY <1>2 DEF o

\* What a person approves is pinned to its checkout, so it is no standing one.
LEMMA ApprovalPins ==
  ASSUME NEW hold \in Holds, Approve(hold[1], hold[2])
  PROVE  \E o : granted' = granted \cup {o} /\ Reference(hold[1]) \in Constraints(o.body, "payment.reference")
<1> DEFINE o == sign("user", keys["user"],
             open_payment_mandate(NextId,
               {AmountRange(hold[2], hold[2]), Budget(hold[2]), AllowedPayees({Shop}),
                ExecutionDate(now - 1, now + ClosedTtl), Reference(hold[1])}, keys["user"]),
             now, ClosedTtl)
<1>1. granted' = granted \cup {o}
  BY DEF Approve
<1>2. Reference(hold[1]) \in Constraints(o.body, "payment.reference")
  BY DEF sign, open_payment_mandate, Constraints, Reference
<1>3. QED BY <1>1, <1>2

\* No step signs a standing authorisation without the budget.
LEMMA StandingStep ==
  ASSUME StandingInv, [Next]_vars
  PROVE  StandingInv'
<1>1. CASE UNCHANGED granted
  BY <1>1 DEF StandingInv, Standings, Constraints, Caps, Budget, AmountRange
<1>2. ASSUME NEW userKey, NEW cnf, granted' = granted \cup {Standing(userKey, cnf)}
      PROVE  StandingInv'
  <2> DEFINE o == Standing(userKey, cnf)
  <2>1. Caps(o, Limit, Daily)
    BY StandingBudget
  <2>2. granted' = granted \cup {o}
    BY <1>2
  <2> HIDE DEF o
  <2>3. QED BY <2>1, <2>2 DEF StandingInv, Standings, Constraints, Caps, Budget, AmountRange
<1>3. CASE Assemble
  BY <1>2, <1>3 DEF Assemble
<1>4. ASSUME NEW a \in Agents, NEW kid \in Kids \cup Agents, delegate_to(a, kid)
      PROVE  StandingInv'
  BY <1>2, <1>4 DEF delegate_to
<1>5. ASSUME NEW hold \in Holds, Approve(hold[1], hold[2])
      PROVE  StandingInv'
  <2>1. PICK o : granted' = granted \cup {o} /\ Reference(hold[1]) \in Constraints(o.body, "payment.reference")
    BY <1>5, ApprovalPins
  <2>2. QED BY <2>1 DEF StandingInv, Standings, Constraints, Caps, Budget, AmountRange
<1>6. QED
  BY <1>1, <1>3, <1>4, <1>5, EachStep, MoneyAside
  DEF Start, DrawKey, Persisted, IssueReceipt, Die, MoveAside, Tick, Unpaid, vars

\* Each payment the agents made falls to the one authorisation it was made
\* under, and each authorisation keeps its own budget.
LEMMA SharesAddUp ==
  ASSUME ConstraintInv, StandingInv
  PROVE  DelegationIsBounded
<1> DEFINE f == [p \in Delegated |-> p.amount]
           h == [p \in Delegated |-> p.open]
           of(o) == {p \in Delegated : h[p] = o}
           each == Allowance(Daily, Limit)
<1>1. /\ IsFiniteSet(Delegated) /\ IsFiniteSet(Standings) /\ Delegated \subseteq paid
      /\ Standings \subseteq granted
  BY FS_Subset DEF ConstraintInv, SigningInv, GrantInv, CallInv, Delegated, Standings
<1>2. \A p \in Delegated : f[p] \in Nat
  BY <1>1 DEF ConstraintInv, PaidInv, Payments
<1>3. h \in [Delegated -> Standings]
  BY DEF ConstraintInv, SigningInv, Follows, Payments, Delegated, Standings
<1>4. ASSUME NEW o \in Standings
      PROVE  SumFunctionOnSet(f, of(o)) <= each
  <2> DEFINE g == [p \in BookedUnder(o) |-> p.amount]
  <2>1. of(o) = BookedUnder(o) /\ BookedUnder(o) \subseteq Delegated
    BY DEF BookedUnder, PaidUnder, Delegated, Standings
  <2>2. \A p \in BookedUnder(o) : f[p] = g[p]
    BY <2>1
  <2>3. IsFiniteSet(BookedUnder(o)) /\ DOMAIN g = BookedUnder(o) /\ Total(o) = SumFunction(g)
    BY <1>1, <2>1, FS_Subset DEF Total
  <2>4. Total(o) <= each
    BY <1>1, <1>4, BookedFits DEF StandingInv
  <2> HIDE DEF f, g, of, each
  <2>5. SumFunctionOnSet(f, BookedUnder(o)) = SumFunctionOnSet(g, BookedUnder(o))
    BY <2>2, <2>3, SumOfEquals
  <2>6. QED BY <2>1, <2>3, <2>4, <2>5 DEF SumFunction
<1>5. SumFunction(f) = SumFunctionOnSet(f, Delegated)
  BY DEF SumFunction
<1>6. \A o \in Standings : SumFunctionOnSet(f, {p \in Delegated : h[p] = o}) <= each
  BY <1>4
<1>7. each \in Nat
  BY Allowances, SigningAssumption
<1> HIDE DEF f, h, of, each
<1>8. SumFunctionOnSet(f, Delegated) <= each * Cardinality(Standings)
  BY <1>1, <1>2, <1>3, <1>6, <1>7, SumOfShares
<1>9. QED BY <1>5, <1>8 DEF DelegationIsBounded, f, each

\* What is booked for all the agents together is at most one daily budget, and
\* what calls at once may exceed it by, for each authorisation a start-up or a
\* delegation signed, across restarts and whatever is presented (build_gateway,
\* delegate_to, record_spend): the bound the code does keep.
THEOREM DelegationBounded == Spec => []DelegationIsBounded
<1>1. Init => StandingInv
  BY DEF Init, StandingInv, Standings
<1>2. StandingInv /\ [Next]_vars => StandingInv'
  BY StandingStep
<1>3. ConstraintInv /\ StandingInv => DelegationIsBounded
  BY SharesAddUp
<1>4. QED BY <1>1, <1>2, <1>3, ConstraintInvariant, PTL DEF Spec
=============================================================================
