------------------------------- MODULE Agent -------------------------------
(***************************************************************************)
(* The shopping agent of shopping_agent/agent.py: attempt, for one goal    *)
(* each, by several agents at one merchant while other buyers empty the    *)
(* shelves and fill them again.  Every call of a tool is a step, because   *)
(* the world moves between two of them.  The merchant answers as           *)
(* merchant/service.py does; whether a verifier refuses and how a payment  *)
(* ends is open here, and settled by Storefront and Payments.  The goal's  *)
(* pincode is one the shop ships to, and a price that changed is answered  *)
(* the way missing stock is.                                               *)
(***************************************************************************)
EXTENDS Naturals, FiniteSets

CONSTANTS Agents, Skus,
          Ghost,       \* a SKU no merchant sells
          Scope,       \* what the standing authorisation covers
          MAX_REPLANS,
          MaxStock,
          None

ASSUME AgentAssumption ==
  /\ Scope \subseteq Skus /\ Ghost \notin Skus /\ None \notin Skus \cup {Ghost}
  /\ MAX_REPLANS \in Nat /\ MaxStock \in Nat

VARIABLES try,      \* goal.try_sku_first
          pc,       \* where attempt is
          searches, \* searches the loop of _choose_sku has left
          sku,      \* result.sku, or the candidate being looked at
          status,   \* result.status
          hold,     \* the hold on this basket: None, pending, approved, refused
          shown,    \* the authorisation the agent has presented last
          receipt,  \* result.receipt: None, captured or failed
          stock,
          charged   \* for the properties: the buyer's money moved

vars == <<try, pc, searches, sku, status, hold, shown, receipt, stock, charged>>
progress == <<try, searches, sku>>
market == <<hold, shown, receipt, stock, charged>>

Places == {"probe", "search", "confirm", "cart", "create", "complete", "await",
           "complete again", "pay", "charging", "done"}
Statuses == {"pending", "paid", "human_denied", "denied", "declined_stock",
             "payment_failed", "deferred", "not_found", "rejected"}

TypeOK ==
  /\ pc \in [Agents -> Places]
  /\ searches \in [Agents -> 0 .. MAX_REPLANS]
  /\ sku \in [Agents -> Skus \cup {None}]
  /\ status \in [Agents -> Statuses]
  /\ \A a \in Agents : pc[a] = "done" <=> status[a] # "pending"
  /\ hold \in [Agents -> {None, "pending", "approved", "refused"}]
  /\ shown \in [Agents -> {"nothing", "standing", "one-time"}]
  /\ receipt \in [Agents -> {None, "captured", "failed"}]
  /\ stock \in [Skus -> 0 .. MaxStock]
  /\ charged \subseteq Agents

Init ==
  /\ try \in [Agents -> Skus \cup {Ghost, None}]
  /\ pc = [a \in Agents |-> "probe"]
  /\ searches = [a \in Agents |-> MAX_REPLANS]
  /\ sku = [a \in Agents |-> None]
  /\ status = [a \in Agents |-> "pending"]
  /\ hold = [a \in Agents |-> None]
  /\ shown = [a \in Agents |-> "nothing"]
  /\ receipt = [a \in Agents |-> None]
  /\ stock = [s \in Skus |-> MaxStock]
  /\ charged = {}

InStock(s) == stock[s] > 0

Goes(a, place) == pc' = [pc EXCEPT ![a] = place] /\ UNCHANGED status
Ends(a, outcome) ==
  pc' = [pc EXCEPT ![a] = "done"] /\ status' = [status EXCEPT ![a] = outcome]

(***************************************************************************)
(* _choose_sku.                                                            *)
(***************************************************************************)
\* try_sku_first is taken when it exists, whatever its stock.  (result.replans
\* counts this miss and the searches that are used up.)
Probe(a) ==
  /\ pc[a] = "probe"
  /\ IF try[a] \in Skus
     THEN sku' = [sku EXCEPT ![a] = try[a]] /\ Goes(a, "cart")
     ELSE sku' = sku /\ Goes(a, "search")
  /\ UNCHANGED <<try, searches, market>>

Candidates == {s \in Skus : InStock(s)}

\* _select: the preferred one, the cheapest, or what a model picked of the list.
Search(a, s) ==
  /\ pc[a] = "search" /\ searches[a] > 0
  /\ s \in Candidates
  /\ sku' = [sku EXCEPT ![a] = s]
  /\ Goes(a, "confirm")
  /\ UNCHANGED <<try, searches, market>>

GiveUp(a) ==
  /\ pc[a] = "search"
  /\ searches[a] = 0 \/ Candidates = {}
  /\ Ends(a, "not_found")
  /\ UNCHANGED <<progress, market>>

\* Mutant: a candidate that is gone does not use up a search.
SearchesForever(a) == searches

SearchUsed(a) == [searches EXCEPT ![a] = @ - 1]

Confirm(a) ==
  /\ pc[a] = "confirm"
  /\ IF InStock(sku[a])
     THEN Goes(a, "cart") /\ UNCHANGED searches
     ELSE Goes(a, "search") /\ searches' = SearchUsed(a)
  /\ UNCHANGED <<try, sku, market>>

(***************************************************************************)
(* The basket: assemble_cart, create_checkout, complete_checkout.          *)
(***************************************************************************)
\* Mutant: the code of the error is reported as it is.
AbandonedVerbatim(code) == code

\* _abandon reads the code of the error: assemble_cart says
\* product.out_of_stock, the two others stock.unavailable.
Abandoned(code) == IF code = "stock.unavailable" THEN "declined_stock" ELSE "rejected"

AssembleCart(a) ==
  /\ pc[a] = "cart"
  /\ IF InStock(sku[a]) THEN Goes(a, "create") ELSE Ends(a, Abandoned("product.out_of_stock"))
  /\ UNCHANGED <<progress, market>>

CreateCheckout(a) ==
  /\ pc[a] = "create"
  /\ IF InStock(sku[a]) THEN Goes(a, "complete") ELSE Ends(a, Abandoned("stock.unavailable"))
  /\ UNCHANGED <<progress, market>>

\* With the standing authorisation, which may have lapsed.
CompleteCheckout(a) ==
  /\ pc[a] = "complete"
  /\ shown' = [shown EXCEPT ![a] = "standing"]
  /\ \/ Ends(a, Abandoned("mandate.expired")) /\ UNCHANGED hold
     \/ /\ sku[a] \notin Scope
        /\ hold' = [hold EXCEPT ![a] = "pending"]
        /\ Goes(a, "await")
     \/ /\ sku[a] \in Scope
        /\ IF InStock(sku[a]) THEN Goes(a, "pay") ELSE Ends(a, Abandoned("stock.unavailable"))
        /\ UNCHANGED hold
  /\ UNCHANGED <<progress, receipt, stock, charged>>

(***************************************************************************)
(* _escalate: the agent waits for a person, and relays what they signed.   *)
(***************************************************************************)
\* A person, or the clock: declined and expired holds are both not approved.
Decide(a) ==
  /\ pc[a] = "await" /\ hold[a] = "pending"
  /\ \E answer \in {"approved", "refused"} : hold' = [hold EXCEPT ![a] = answer]
  /\ UNCHANGED <<progress, pc, status, shown, receipt, stock, charged>>

\* Mutant: what is not declined counts as approved.
NotDeclined(a) == hold[a] # "refused"

Approved(a) == hold[a] = "approved"

\* await_decision returns with the status of the hold, decided or not: the gate
\* may have waited long enough, and there may be no surface to reach.
HearDecision(a) ==
  /\ pc[a] = "await"
  /\ IF Approved(a) THEN Goes(a, "complete again") ELSE Ends(a, "human_denied")
  /\ UNCHANGED <<progress, market>>

CompleteApproved(a) ==
  /\ pc[a] = "complete again"
  /\ shown' = [shown EXCEPT ![a] = "one-time"]
  /\ \/ Ends(a, Abandoned("mandate.expired"))
     \/ IF InStock(sku[a]) THEN Goes(a, "pay") ELSE Ends(a, Abandoned("stock.unavailable"))
  /\ UNCHANGED <<progress, hold, receipt, stock, charged>>

(***************************************************************************)
(* initiate_payment and _interpret_payment.                                *)
(***************************************************************************)
\* Stock first, then the verifier, which may refuse, ask for a human, or find
\* the mandate malformed or in flight; otherwise the rail is called.
InitiatePayment(a) ==
  /\ pc[a] = "pay"
  /\ IF ~InStock(sku[a]) THEN Ends(a, "declined_stock")
     ELSE \/ \E refusal \in {"denied", "human_denied", "rejected"} : Ends(a, refusal)
          \/ Goes(a, "charging")
  /\ UNCHANGED <<progress, market>>

\* Mutant: an answer that is no refusal is taken for a payment.
AssumesItWorked(answer) == "paid"

Interpreted(answer) ==
  CASE answer = "captured" -> "paid"
    [] answer = "failed" -> "payment_failed"
    [] answer = "deferred" -> "deferred"

\* The end of the ladder.  A failed receipt and a deferral may both hide a
\* charge whose answer was lost; only a captured receipt takes stock.
PaymentAnswered(a, answer) ==
  /\ pc[a] = "charging"
  /\ Ends(a, Interpreted(answer))
  /\ receipt' = [receipt EXCEPT ![a] = IF answer = "deferred" THEN None ELSE answer]
  /\ IF answer = "captured" THEN charged' = charged \cup {a}
     ELSE charged' \in {charged, charged \cup {a}}
  /\ stock' = IF answer = "captured" /\ InStock(sku[a])
              THEN [stock EXCEPT ![sku[a]] = @ - 1] ELSE stock
  /\ UNCHANGED <<progress, hold, shown>>

(***************************************************************************)
(* The world: other buyers, and the merchant's own stock.                  *)
(***************************************************************************)
OthersTake(s) ==
  /\ InStock(s) /\ stock' = [stock EXCEPT ![s] = @ - 1]
  /\ UNCHANGED <<progress, pc, status, hold, shown, receipt, charged>>

Restock(s) ==
  /\ stock[s] < MaxStock /\ stock' = [stock EXCEPT ![s] = @ + 1]
  /\ UNCHANGED <<progress, pc, status, hold, shown, receipt, charged>>

Acts(a) ==
  \/ Probe(a) \/ GiveUp(a) \/ Confirm(a)
  \/ \E s \in Skus : Search(a, s)
  \/ AssembleCart(a) \/ CreateCheckout(a) \/ CompleteCheckout(a)
  \/ HearDecision(a) \/ CompleteApproved(a)
  \/ InitiatePayment(a)
  \/ \E answer \in {"captured", "failed", "deferred"} : PaymentAnswered(a, answer)

Next ==
  \/ \E a \in Agents : Acts(a) \/ Decide(a)
  \/ \E s \in Skus : OthersTake(s) \/ Restock(s)

Spec == Init /\ [][Next]_vars

\* Every call that attempt awaits comes back: the tools answer, and so does the
\* gate, whether or not anybody decided.  Nobody has to decide, and the shelves
\* owe the agent nothing.
FairSpec == Spec /\ \A a \in Agents : WF_vars(Acts(a))

(***************************************************************************)
(* Properties.                                                             *)
(***************************************************************************)
\* "Always returns" (shopping_agent/agent.py): every attempt comes to an end,
\* however the shelves change under it.
AttemptEnds == \A a \in Agents : <>(pc[a] = "done")

\* What the agent reports about the money is so: "paid" was charged and has its
\* receipt, and the statuses that say nothing was charged are never reported
\* over a charge.
StatusIsTruthful ==
  \A a \in Agents :
    /\ status[a] = "paid" => a \in charged /\ receipt[a] = "captured"
    /\ a \in charged => status[a] \in {"paid", "payment_failed", "deferred"}

\* "Ask, do not force": no money leaves for a basket outside the standing
\* authorisation unless a person approved that basket.
ForcedNothing ==
  \A a \in charged : sku[a] \notin Scope => hold[a] = "approved" /\ shown[a] = "one-time"

\* "A basket that sold out is a distinct, expected outcome - not the same thing
\* as a mandate being refused" (shopping_agent/agent.py:559-560): the status for
\* a refused mandate is reported only after one was presented.  The code does
\* not do this: a unit that goes between the last look and assemble_cart is
\* answered with another code than the one _abandon knows.
RejectedWasPresented ==
  \A a \in Agents : status[a] = "rejected" => shown[a] # "nothing"
=============================================================================
