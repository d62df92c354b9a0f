----------------------------- MODULE MCDelivery -----------------------------
(* Instances of Delivery for TLC. *)
EXTENDS Delivery, TLC

\* A result for each kind of sink, two slots that write the same lease_owner.
MCDeliveries == {"f", "r", "m"}
MCResultOf == [d \in MCDeliveries |-> "result"]
MCSinkOf == "f" :> "jsonl" @@ "r" :> "legacy_redis" @@ "m" :> "legacy_mysql"
MCHolds == [d \in MCDeliveries |-> <<"result", "product">>]
MCOwner == [s \in Slot |-> "w"]
MCScopes == [s \in Slot |-> {Delivery}]
MCSymmetry == Permutations(Slot)

\* Two results for one file.
FileDeliveries == {"f", "g"}
FileResultOf == [d \in FileDeliveries |-> d]
FileSinkOf == [d \in FileDeliveries |-> "jsonl"]
FileHolds == [d \in FileDeliveries |-> <<"result">>]
FileScopes == [s \in Slot |-> {Delivery, {"g"}}]
=============================================================================
