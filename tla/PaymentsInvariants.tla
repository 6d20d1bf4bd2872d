------------------------- MODULE PaymentsInvariants -------------------------
(***************************************************************************)
(* The inductive invariants behind the promises of Payments: what has to   *)
(* be true of the worker's locals, the ledger and the rail at every line   *)
(* for the promise to survive the next one.                                *)
(***************************************************************************)
EXTENDS Payments

At(w, steps) == pc[w] \in steps

\* The steps at which a worker holds an order nobody was asked to pay yet.
Paying == {"note", "write", "pay"}

(***************************************************************************)
(* Whatever the rail, the leases and the other workers do: orders stay with*)
(* the mandate they were made for, and a worker that is settling holds a   *)
(* captured order of its own mandate.                                      *)
(***************************************************************************)
OrdersBelong ==
  /\ \A o \in Orders : rail[o] = "unused" => owner[o] = None
  /\ \A m \in Mandates : noted[m] \subseteq OrdersOf(m)
  /\ \A w \in Workers :
       /\ At(w, {"lease", "probe", "write"}) => seen[w] \subseteq OrdersOf(task[w])
       /\ At(w, Paying) => owner[order[w]] = task[w] /\ rail[order[w]] = "created"
  /\ \A w, u \in Workers :
       w # u /\ At(w, Paying) /\ At(u, Paying) => order[w] # order[u]

SettlesCaptured == \A w \in Workers :
  /\ At(w, {"spend", "settle", "close"}) => order[w] \in Captured(task[w])
  /\ At(w, {"settle", "close"}) => spent[task[w]] # None

Accounting ==
  TypeOK /\ OrdersBelong /\ SettlesCaptured /\ SpendBackedByCapture /\ CapturedReceiptBacked

(***************************************************************************)
(* While no mandate is in two calls, an attempt reads and rewrites the     *)
(* list of orders undisturbed.  Overruns says it of leases.                *)
(***************************************************************************)
NotesKept == \A w \in Workers :
  /\ At(w, {"write"}) => noted[task[w]] \subseteq seen[w]
  /\ At(w, {"pay"}) => order[w] \in noted[task[w]]

PayableOrdersNoted ==
  \A m \in Mandates : \A o \in OrdersOf(m) :
    rail[o] \in {"payable", "captured"} => o \in noted[m]

(***************************************************************************)
(* When no mandate is in two calls at once, over a rail that answers every *)
(* probe and takes no late payment: the record a call reads is current, so *)
(* a probe that finds nothing means that nothing was captured.  Calls for  *)
(* different mandates run side by side, in any number of processes.        *)
(***************************************************************************)
ProbeIsCurrent == \A w \in Workers :
  /\ At(w, {"lease", "probe"}) => noted[task[w]] \subseteq seen[w]
  /\ At(w, {"create", "note", "write", "pay"}) => Captured(task[w]) = {}

OpenWhileAttempted == \A w \in Workers :
  At(w, {"lease", "fail_write"} \cup (AttemptSteps \ {"release"})) => ~Terminal(task[w])

NothingPayable == \A o \in Orders : rail[o] # "payable"

ReliableRail == ~CallsMayFail /\ ~PaidLate

\* One caller at a time presents a mandate; one worker is the special case.
OneCallPerMandate == \A w, u \in Workers :
  ~At(w, {"idle"}) /\ ~At(u, {"idle"}) /\ task[w] = task[u] => w = u

Sequential ==
  /\ Accounting
  /\ NotesKept
  /\ PayableOrdersNoted
  /\ ProbeIsCurrent
  /\ OpenWhileAttempted
  /\ NothingPayable
  /\ AtMostOneCapture
=============================================================================
