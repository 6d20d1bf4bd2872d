------------------------------ MODULE Overruns ------------------------------
(***************************************************************************)
(* Payments with a history of its leases.  A lease lasts for               *)
(* ATTEMPT_LEASE_SECONDS, 120, and by default the Razorpay rail polls for  *)
(* 180, so a lease can lapse under a live attempt, and the next attempt    *)
(* then runs beside it; whichever ends first clears the lease of both.     *)
(* The history tells the mandates this happens to from the others.         *)
(***************************************************************************)
EXTENDS PaymentsInvariants

VARIABLE overrun   \* of each mandate: never, now or past

historyVars == <<vars, overrun>>

Attempted(m) == \E w \in Workers : InAttempt(w, m)

\* An overrun begins when a lease lapses under an attempt, and is over when no
\* attempt on the mandate is left: neither the one that outlasted its lease nor
\* any that began beside it.
Overrun(m) ==
  CASE LeaseExpires(m) /\ Attempted(m) -> "now"
    [] overrun[m] = "now" /\ ~Attempted(m)' -> "past"
    [] OTHER -> overrun[m]

HistoryInit == Init /\ overrun = [m \in Mandates |-> "never"]

HistoryNext == Next /\ overrun' = [m \in Mandates |-> Overrun(m)]

HistorySpec == HistoryInit /\ [][HistoryNext]_historyVars

-----------------------------------------------------------------------------
\* The conditional UPDATE and the finally keep two attempts on one mandate apart,
\* across threads, processes and crashes, except while an attempt goes on that
\* outlasted its lease or began beside such a one; and they do so again after it.
OneAttemptUnlessOverrun ==
  \A m \in Mandates : overrun[m] # "now" =>
    \A w1, w2 \in Workers : InAttempt(w1, m) /\ InAttempt(w2, m) => w1 = w2

\* Every order money can move on is in the record the capture probe reads, unless
\* an attempt on the mandate outlasted its lease: the order is noted before the
\* rail is asked to pay it, and note_order's read and write lose no other's note.
NotedUnlessOverrun ==
  \A m \in Mandates : overrun[m] = "never" =>
    \A o \in OrdersOf(m) : rail[o] \in {"payable", "captured"} => o \in noted[m]

-----------------------------------------------------------------------------
(* The inductive invariant behind both: without an overrun the lease is up *)
(* for as long as the attempt lasts, so an attempt reads and rewrites the  *)
(* list of orders undisturbed.                                             *)

Leased(m) ==
  /\ \A w \in Workers : InAttempt(w, m) => leased[m]
  /\ \A w1, w2 \in Workers : InAttempt(w1, m) /\ InAttempt(w2, m) => w1 = w2

Noted(m) ==
  /\ \A w \in Workers : task[w] = m =>
       /\ At(w, {"write"}) => noted[m] \subseteq seen[w]
       /\ At(w, {"pay"}) => order[w] \in noted[m]
  /\ \A o \in OrdersOf(m) : rail[o] \in {"payable", "captured"} => o \in noted[m]

Exclusion ==
  /\ Accounting
  /\ overrun \in [Mandates -> {"never", "now", "past"}]
  /\ \A m \in Mandates : overrun[m] # "now" => Leased(m)
  /\ \A m \in Mandates : overrun[m] = "never" => Noted(m)
=============================================================================
