----------------------------- MODULE AgentProofs -----------------------------
(***************************************************************************)
(* Theorems about the shopping agent, for every number of agents, products *)
(* and searches, however the shelves change between two tool calls.        *)
(***************************************************************************)
EXTENDS Agent, TLAPS

\* Every place after the choice of a product.
Basket == {"confirm", "cart", "create", "complete", "await", "complete again", "pay", "charging"}

Placed ==
  \A a \in Agents :
    /\ pc[a] \in Basket => sku[a] \in Skus
    /\ pc[a] = "confirm" => searches[a] > 0

\* Until an attempt has ended its money has not moved.
UnchargedUntilDone == \A a \in Agents : pc[a] # "done" => a \notin charged

\* Who stands at the till is inside the standing authorisation or was approved.
Entitled ==
  \A a \in Agents :
    /\ pc[a] = "complete again" => hold[a] = "approved"
    /\ pc[a] \in {"pay", "charging"} /\ sku[a] \notin Scope =>
         hold[a] = "approved" /\ shown[a] = "one-time"

AgentInv ==
  /\ TypeOK /\ Placed /\ UnchargedUntilDone /\ Entitled
  /\ StatusIsTruthful /\ ForcedNothing

LEMMA AgentInit == Init => AgentInv
BY AgentAssumption
   DEF Init, AgentInv, TypeOK, Placed, Basket, UnchargedUntilDone, Entitled, StatusIsTruthful,
       ForcedNothing, Places, Statuses


(***************************************************************************)
(* Types.                                                                  *)
(***************************************************************************)
ControlTyped ==
  /\ pc \in [Agents -> Places]
  /\ status \in [Agents -> Statuses]
  /\ \A a \in Agents : pc[a] = "done" <=> status[a] # "pending"

RestTyped ==
  /\ searches \in [Agents -> 0 .. MAX_REPLANS]
  /\ sku \in [Agents -> Skus \cup {None}]
  /\ hold \in [Agents -> {None, "pending", "approved", "refused"}]
  /\ shown \in [Agents -> {"nothing", "standing", "one-time"}]
  /\ receipt \in [Agents -> {None, "captured", "failed"}]
  /\ stock \in [Skus -> 0 .. MaxStock]
  /\ charged \subseteq Agents

LEMMA Halves == TypeOK <=> ControlTyped /\ RestTyped
BY DEF TypeOK, ControlTyped, RestTyped

\* An attempt that goes on is pending and stays so.
LEMMA GoesTyped ==
  ASSUME ControlTyped, NEW a \in Agents, pc[a] # "done",
         NEW place \in Places \ {"done"}, Goes(a, place)
  PROVE  ControlTyped'
BY DEF ControlTyped, Goes

LEMMA EndsTyped ==
  ASSUME ControlTyped, NEW a \in Agents,
         NEW outcome \in Statuses \ {"pending"}, Ends(a, outcome)
  PROVE  ControlTyped'
<1>1. "done" \in Places
  BY DEF Places
<1>2. QED BY <1>1 DEF ControlTyped, Ends

\* Each step of an agent goes to a place or ends with a status.
Moves(a) ==
  /\ pc[a] # "done"
  /\ \/ \E place \in Places \ {"done"} : Goes(a, place)
     \/ \E outcome \in Statuses \ {"pending"} : Ends(a, outcome)

LEMMA ActsMoves ==
  ASSUME NEW a \in Agents, Acts(a)
  PROVE  Moves(a)
<1> USE DEF Places, Statuses, Moves, Abandoned
<1>1. CASE Probe(a) BY <1>1 DEF Probe
<1>2. CASE GiveUp(a) BY <1>2 DEF GiveUp
<1>3. CASE Confirm(a) BY <1>3 DEF Confirm
<1>4. ASSUME NEW s \in Skus, Search(a, s) PROVE Moves(a)
  BY <1>4 DEF Search
<1>5. CASE AssembleCart(a) BY <1>5 DEF AssembleCart
<1>6. CASE CreateCheckout(a) BY <1>6 DEF CreateCheckout
<1>7. CASE CompleteCheckout(a) BY <1>7 DEF CompleteCheckout
<1>8. CASE HearDecision(a) BY <1>8 DEF HearDecision
<1>9. CASE CompleteApproved(a) BY <1>9 DEF CompleteApproved
<1>10. CASE InitiatePayment(a) BY <1>10 DEF InitiatePayment
<1>11. ASSUME NEW answer \in {"captured", "failed", "deferred"}, PaymentAnswered(a, answer)
       PROVE  Moves(a)
  <2>1. Interpreted(answer) \in Statuses \ {"pending"}
    BY DEF Interpreted
  <2>2. QED BY <1>11, <2>1 DEF PaymentAnswered
<1>12. QED
  BY <1>1, <1>2, <1>3, <1>4, <1>5, <1>6, <1>7, <1>8, <1>9, <1>10, <1>11 DEF Acts

LEMMA ActsRest ==
  ASSUME RestTyped, Placed, NEW a \in Agents, Acts(a)
  PROVE  RestTyped'
<1> USE DEF RestTyped, progress, market
<1>1. CASE Probe(a) BY <1>1 DEF Probe
<1>2. CASE GiveUp(a) BY <1>2 DEF GiveUp
<1>3. CASE Confirm(a)
  <2>1. searches[a] > 0 /\ searches[a] \in 0 .. MAX_REPLANS
    BY <1>3 DEF Confirm, Placed
  <2>2. searches[a] - 1 \in 0 .. MAX_REPLANS
    BY <2>1, AgentAssumption
  <2>3. QED BY <1>3, <2>2 DEF Confirm, SearchUsed
<1>4. ASSUME NEW s \in Skus, Search(a, s) PROVE RestTyped'
  BY <1>4 DEF Search
<1>5. CASE AssembleCart(a) BY <1>5 DEF AssembleCart
<1>6. CASE CreateCheckout(a) BY <1>6 DEF CreateCheckout
<1>7. CASE CompleteCheckout(a) BY <1>7 DEF CompleteCheckout
<1>8. CASE HearDecision(a) BY <1>8 DEF HearDecision
<1>9. CASE CompleteApproved(a) BY <1>9 DEF CompleteApproved
<1>10. CASE InitiatePayment(a) BY <1>10 DEF InitiatePayment
<1>11. ASSUME NEW answer \in {"captured", "failed", "deferred"}, PaymentAnswered(a, answer)
       PROVE  RestTyped'
  <2>1. sku[a] \in Skus
    BY <1>11 DEF PaymentAnswered, Placed, Basket
  <2>2. stock' \in [Skus -> 0 .. MaxStock]
    BY <1>11, <2>1, AgentAssumption DEF PaymentAnswered, InStock
  <2>3. receipt' \in [Agents -> {None, "captured", "failed"}]
    BY <1>11 DEF PaymentAnswered
  <2>4. QED BY <1>11, <2>2, <2>3 DEF PaymentAnswered
<1>12. QED
  BY <1>1, <1>2, <1>3, <1>4, <1>5, <1>6, <1>7, <1>8, <1>9, <1>10, <1>11 DEF Acts

LEMMA TypeStep ==
  ASSUME TypeOK, Placed, [Next]_vars
  PROVE  TypeOK'
<1>0. ControlTyped /\ RestTyped
  BY Halves
<1>1. ASSUME NEW a \in Agents, Acts(a)
      PROVE  ControlTyped' /\ RestTyped'
  BY <1>0, <1>1, ActsMoves, ActsRest, GoesTyped, EndsTyped DEF Moves
<1>2. ASSUME NEW a \in Agents, Decide(a)
      PROVE  ControlTyped' /\ RestTyped'
  BY <1>0, <1>2 DEF Decide, progress, ControlTyped, RestTyped
<1>3. ASSUME NEW s \in Skus, OthersTake(s) \/ Restock(s)
      PROVE  ControlTyped' /\ RestTyped'
  BY <1>0, <1>3, AgentAssumption
     DEF OthersTake, Restock, InStock, progress, ControlTyped, RestTyped
<1>4. ASSUME UNCHANGED vars
      PROVE  ControlTyped' /\ RestTyped'
  BY <1>0, <1>4 DEF vars, ControlTyped, RestTyped
<1>5. ControlTyped' /\ RestTyped'
  BY <1>1, <1>2, <1>3, <1>4 DEF Next
<1>6. QED BY <1>5 DEF TypeOK, ControlTyped, RestTyped

(***************************************************************************)
(* The other parts.  One agent's step leaves the fields of the others      *)
(* alone; the shelves' and the surface's leave the agents where they are.  *)
(***************************************************************************)
LEMMA PlacedStep ==
  ASSUME TypeOK, Placed, [Next]_vars
  PROVE  Placed'
<1> USE DEF Placed, Basket, TypeOK, Goes, Ends, progress
<1>1. ASSUME NEW a \in Agents, Acts(a)
      PROVE  Placed'
  <2>1. CASE Probe(a) BY <2>1 DEF Probe
  <2>2. CASE GiveUp(a) BY <2>2 DEF GiveUp
  <2>3. CASE Confirm(a) BY <2>3 DEF Confirm, SearchUsed
  <2>4. ASSUME NEW s \in Skus, Search(a, s) PROVE Placed'
    BY <2>4 DEF Search
  <2>5. CASE AssembleCart(a) BY <2>5 DEF AssembleCart
  <2>6. CASE CreateCheckout(a) BY <2>6 DEF CreateCheckout
  <2>7. CASE CompleteCheckout(a) BY <2>7 DEF CompleteCheckout
  <2>8. CASE HearDecision(a) BY <2>8 DEF HearDecision
  <2>9. CASE CompleteApproved(a) BY <2>9 DEF CompleteApproved
  <2>10. CASE InitiatePayment(a) BY <2>10 DEF InitiatePayment
  <2>11. ASSUME NEW answer \in {"captured", "failed", "deferred"}, PaymentAnswered(a, answer)
         PROVE  Placed'
    BY <2>11 DEF PaymentAnswered
  <2>12. QED
    BY <1>1, <2>1, <2>2, <2>3, <2>4, <2>5, <2>6, <2>7, <2>8, <2>9, <2>10, <2>11 DEF Acts
<1>2. ASSUME NEW a \in Agents, Decide(a)
      PROVE  Placed'
  BY <1>2 DEF Decide
<1>3. ASSUME NEW s \in Skus, OthersTake(s) \/ Restock(s)
      PROVE  Placed'
  BY <1>3 DEF OthersTake, Restock
<1>4. CASE UNCHANGED vars
  BY <1>4 DEF vars
<1>5. QED BY <1>1, <1>2, <1>3, <1>4 DEF Next

\* What the money of one agent has to do with the rest of its fields.
Sound(a) ==
  /\ pc[a] # "done" => a \notin charged
  /\ pc[a] = "complete again" => hold[a] = "approved"
  /\ pc[a] \in {"pay", "charging"} /\ sku[a] \notin Scope =>
       hold[a] = "approved" /\ shown[a] = "one-time"
  /\ status[a] = "paid" => a \in charged /\ receipt[a] = "captured"
  /\ a \in charged => status[a] \in {"paid", "payment_failed", "deferred"}
  /\ a \in charged /\ sku[a] \notin Scope => hold[a] = "approved" /\ shown[a] = "one-time"

LEMMA AccountsBreakdown ==
  ASSUME charged \subseteq Agents
  PROVE  (\A a \in Agents : Sound(a)) <=>
           UnchargedUntilDone /\ Entitled /\ StatusIsTruthful /\ ForcedNothing
BY DEF Sound, UnchargedUntilDone, Entitled, StatusIsTruthful, ForcedNothing

Untouched(b) ==
  /\ pc'[b] = pc[b] /\ status'[b] = status[b] /\ sku'[b] = sku[b]
  /\ hold'[b] = hold[b] /\ shown'[b] = shown[b] /\ receipt'[b] = receipt[b]
  /\ b \in charged' <=> b \in charged

LEMMA UntouchedSound ==
  ASSUME NEW b \in Agents, Sound(b), Untouched(b)
  PROVE  Sound(b)'
BY DEF Sound, Untouched

LEMMA OthersUntouched ==
  ASSUME TypeOK, NEW a \in Agents, Acts(a), NEW b \in Agents \ {a}
  PROVE  Untouched(b)
<1> USE DEF TypeOK, Untouched, Goes, Ends, progress, market
<1>1. CASE Probe(a) BY <1>1 DEF Probe
<1>2. CASE GiveUp(a) BY <1>2 DEF GiveUp
<1>3. CASE Confirm(a) BY <1>3 DEF Confirm
<1>4. ASSUME NEW s \in Skus, Search(a, s) PROVE Untouched(b)
  BY <1>4 DEF Search
<1>5. CASE AssembleCart(a) BY <1>5 DEF AssembleCart
<1>6. CASE CreateCheckout(a) BY <1>6 DEF CreateCheckout
<1>7. CASE CompleteCheckout(a) BY <1>7 DEF CompleteCheckout
<1>8. CASE HearDecision(a) BY <1>8 DEF HearDecision
<1>9. CASE CompleteApproved(a) BY <1>9 DEF CompleteApproved
<1>10. CASE InitiatePayment(a) BY <1>10 DEF InitiatePayment
<1>11. ASSUME NEW answer \in {"captured", "failed", "deferred"}, PaymentAnswered(a, answer)
       PROVE  Untouched(b)
  BY <1>11 DEF PaymentAnswered
<1>12. QED
  BY <1>1, <1>2, <1>3, <1>4, <1>5, <1>6, <1>7, <1>8, <1>9, <1>10, <1>11 DEF Acts

LEMMA ActsSound ==
  ASSUME TypeOK, NEW a \in Agents, Sound(a), Acts(a)
  PROVE  Sound(a)'
<1> USE DEF TypeOK, Sound, Goes, Ends, progress, market
<1>1. CASE Probe(a) BY <1>1 DEF Probe
<1>2. CASE GiveUp(a) BY <1>2 DEF GiveUp
<1>3. CASE Confirm(a) BY <1>3 DEF Confirm
<1>4. ASSUME NEW s \in Skus, Search(a, s) PROVE Sound(a)'
  BY <1>4 DEF Search
<1>5. CASE AssembleCart(a) BY <1>5 DEF AssembleCart, Abandoned
<1>6. CASE CreateCheckout(a) BY <1>6 DEF CreateCheckout, Abandoned
<1>7. CASE CompleteCheckout(a) BY <1>7 DEF CompleteCheckout, Abandoned
<1>8. CASE HearDecision(a) BY <1>8 DEF HearDecision, Approved
<1>9. CASE CompleteApproved(a) BY <1>9 DEF CompleteApproved, Abandoned
<1>10. CASE InitiatePayment(a) BY <1>10 DEF InitiatePayment
<1>11. ASSUME NEW answer \in {"captured", "failed", "deferred"}, PaymentAnswered(a, answer)
       PROVE  Sound(a)'
  BY <1>11 DEF PaymentAnswered, Interpreted
<1>12. QED
  BY <1>1, <1>2, <1>3, <1>4, <1>5, <1>6, <1>7, <1>8, <1>9, <1>10, <1>11 DEF Acts

LEMMA AccountsStep ==
  ASSUME TypeOK, \A b \in Agents : Sound(b), [Next]_vars
  PROVE  (\A b \in Agents : Sound(b))'
<1>1. ASSUME NEW a \in Agents, Acts(a), NEW b \in Agents
      PROVE  Sound(b)'
  BY <1>1, ActsSound, OthersUntouched, UntouchedSound
<1>2. ASSUME NEW a \in Agents, Decide(a), NEW b \in Agents
      PROVE  Sound(b)'
  BY <1>2 DEF Decide, progress, Sound, TypeOK
<1>3. ASSUME NEW s \in Skus, OthersTake(s) \/ Restock(s), NEW b \in Agents
      PROVE  Sound(b)'
  BY <1>3 DEF OthersTake, Restock, progress, Sound
<1>4. ASSUME UNCHANGED vars, NEW b \in Agents
      PROVE  Sound(b)'
  BY <1>4 DEF vars, Sound
<1>5. QED BY <1>1, <1>2, <1>3, <1>4 DEF Next

(***************************************************************************)
(* The theorems.                                                           *)
(***************************************************************************)
LEMMA AgentInvariant == Spec => []AgentInv
<1>1. Init => AgentInv
  BY AgentInit
<1>2. AgentInv /\ [Next]_vars => AgentInv'
  <2> SUFFICES ASSUME AgentInv, [Next]_vars
               PROVE  AgentInv'
    OBVIOUS
  <2>1. TypeOK' /\ Placed'
    BY TypeStep, PlacedStep DEF AgentInv
  <2>2. (\A b \in Agents : Sound(b))'
    BY AccountsStep, AccountsBreakdown DEF AgentInv, TypeOK
  <2>3. (charged \subseteq Agents)'
    BY <2>1 DEF TypeOK
  <2>4. (UnchargedUntilDone /\ Entitled /\ StatusIsTruthful /\ ForcedNothing)'
    BY <2>2, <2>3 DEF Sound, UnchargedUntilDone, Entitled, StatusIsTruthful, ForcedNothing
  <2>5. QED BY <2>1, <2>4 DEF AgentInv
<1>3. QED BY <1>1, <1>2, PTL DEF Spec

\* Every variable of the agent keeps its type, the searches left and the units
\* on the shelves stay inside their bounds, and an attempt has a final status
\* exactly when it has ended (attempt in shopping_agent/agent.py).
THEOREM AgentTypes == Spec => []TypeOK
<1>1. AgentInv => TypeOK
  BY DEF AgentInv
<1>2. QED BY <1>1, AgentInvariant, PTL

\* What the agent reports about the money is so, whatever the merchant, the
\* rail and the shelves did (_interpret_payment and _abandon).
THEOREM TellsTheTruth == Spec => []StatusIsTruthful
<1>1. AgentInv => StatusIsTruthful
  BY DEF AgentInv
<1>2. QED BY <1>1, AgentInvariant, PTL

\* No money leaves for a basket outside the standing authorisation unless a
\* person approved that basket and its own authorisation was presented
\* (_escalate).
THEOREM NothingForced == Spec => []ForcedNothing
<1>1. AgentInv => ForcedNothing
  BY DEF AgentInv
<1>2. QED BY <1>1, AgentInvariant, PTL
=============================================================================
