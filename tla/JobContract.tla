---------------------------- MODULE JobContract ----------------------------
(***************************************************************************)
(* What a client of the job store may rely on, with no leases, workers,    *)
(* retries or counters: a job is open, held by a pause, closing after a    *)
(* cancellation, or over, and it is over from the very step that settles   *)
(* the last of its items.                                                  *)
(***************************************************************************)
EXTENDS Integers

CONSTANTS
  Job,
  Items         \* Items[j]: the set of the items of job j

VARIABLES
  phase,        \* phase[j]: "absent", "open", "held", "closing" or a verdict
  outcome       \* outcome[j][i]: "open" or what became of item i of job j

Verdicts == {"succeeded", "partial", "failed", "cancelled"}
Outcomes == {"open", "succeeded", "failed", "cancelled"}

Init ==
  /\ phase = [j \in Job |-> "absent"]
  /\ outcome = [j \in Job |-> [i \in Items[j] |-> "open"]]

OpenNext(j) == {i \in Items[j] : outcome'[j][i] = "open"}
Became(j, o) == {i \in Items[j] : outcome'[j][i] = o}

\* Items only ever leave "open", for one of the outcomes in S.
SettleInto(j, S) ==
  \A i \in Items[j] :
    \/ outcome'[j][i] = outcome[j][i]
    \/ outcome[j][i] = "open" /\ outcome'[j][i] \in S

Create(j) ==
  /\ phase[j] = "absent"
  /\ phase'[j] = "open"
  /\ outcome'[j] = outcome[j]

\* Work goes on while the job is open: the last item decides how it ends.
Progress(j) ==
  /\ phase[j] = "open"
  /\ SettleInto(j, {"succeeded", "failed"})
  /\ \/ OpenNext(j) # {} /\ phase'[j] \in {"open", "held"}
     \/ /\ OpenNext(j) = {}
        /\ \/ Became(j, "failed") = {} /\ phase'[j] = "succeeded"
           \/ Became(j, "succeeded") = {} /\ phase'[j] = "failed"
           \/ /\ Became(j, "failed") # {} /\ Became(j, "succeeded") # {}
              /\ phase'[j] = "partial"

\* Nothing settles in a job that is held.
Release(j) ==
  /\ phase[j] = "held"
  /\ phase'[j] = "open"
  /\ outcome'[j] = outcome[j]

\* After a cancellation, open items may be dropped and running ones settle.
Close(j) ==
  /\ phase[j] \in {"open", "held", "closing"}
  /\ SettleInto(j, IF phase[j] = "closing" THEN Outcomes ELSE {"cancelled"})
  /\ phase'[j] = IF OpenNext(j) = {} THEN "cancelled" ELSE "closing"

Stay(j) == phase'[j] = phase[j] /\ outcome'[j] = outcome[j]

\* One transaction of the store may settle the requests of several jobs.
Next ==
  \A j \in Job : Stay(j) \/ Create(j) \/ Progress(j) \/ Release(j) \/ Close(j)

Spec == Init /\ [][Next]_<<phase, outcome>>
=============================================================================
