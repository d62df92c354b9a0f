----------------------------- MODULE MCWorkEnds -----------------------------
(* What must come to an end, in three models that share no state: a job of  *)
(* two items and two slots that serve any job; a delivery to a file, of     *)
(* three attempts; and two fetches that share a queue of up to three        *)
(* proxies.  A behaviour is about one of them, the others stay as they      *)
(* begin, where no fair action of theirs can change them.                   *)
EXTENDS ProxyPool, TLC

CONSTANTS
  Slot, Owner, NoOwner,
  Job, Size, Priority, Parent, MaxAttempts, Sink, MaxClaims, AnyOf, NoItem, AnyJob,
  Delivery, ResultOf, SinkOf, DeliveryAttempts, Holds, AllOf, NoDelivery

VARIABLES
  about,                                                            \* the model
  db, jobSlot,                                                      \* of CrawlJobs
  row, slot, fileLock, file, receipt, pushed, marker, inserted      \* of Delivery

EndsJob == {"pair"}
EndsSize == "pair" :> 2
EndsPriority == "pair" :> 0
EndsParent == "pair" :> NoItem
EndsMaxAttempts == "pair" :> 2
EndsOwner == [s \in Slot |-> s]
EndsAnyOf == [s \in Slot |-> {AnyJob}]

EndsDelivery == {"f"}
EndsResultOf == "f" :> "f"
EndsSinkOf == "f" :> "jsonl"
EndsHolds == [d \in Delivery |-> <<"result">>]
EndsAllOf == [s \in Slot |-> {Delivery}]

Jobs == INSTANCE CrawlJobs WITH slot <- jobSlot, Scopes <- AnyOf
Deliveries == INSTANCE Delivery WITH
  lock <- fileLock, MaxAttempts <- DeliveryAttempts, Scopes <- AllOf

jobVars == <<db, jobSlot>>
outboxVars == <<row, slot, fileLock, file, receipt, pushed, marker, inserted>>
allVars == <<about, jobVars, outboxVars, vars>>

EndsInit ==
  /\ about \in {"jobs", "deliveries", "proxies"}
  /\ Jobs!Init /\ Deliveries!Init /\ Init

EndsNext ==
  \/ about = "jobs" /\ Jobs!Next /\ UNCHANGED <<about, outboxVars, vars>>
  \/ about = "deliveries" /\ Deliveries!Next /\ UNCHANGED <<about, jobVars, vars>>
  \/ about = "proxies" /\ Next /\ UNCHANGED <<about, jobVars, outboxVars>>

EndsSpec ==
  /\ EndsInit /\ [][EndsNext]_allVars
  /\ Jobs!Fairness /\ Deliveries!Fairness /\ Fairness

\* A cancellation ends the job and a pause request is settled, crashes included
\* (_reconcile_controls, _refresh_job).
ControlsSettle == Jobs!ControlsSettle

\* A job that is not held up by a control request ends (Worker.process_one over
\* claim_next, fail_item and _recover_expired).
JobsEnd == Jobs!JobsEnd

\* Every queued delivery ends, delivered or as a dead letter (DeliveryWorker.process_one
\* over claim_delivery, fail_delivery and the recovery of expired leases).
DeliveriesEnd == Deliveries!DeliveriesEnd
=============================================================================
