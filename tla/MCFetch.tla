------------------------------ MODULE MCFetch ------------------------------
(* Instances of Fetch for TLC. *)
EXTENDS Fetch, TLC

\* One site under two names, asked for by one of them; a cookie and a proxy, or a
\* proxy alone, that all fetches share.
MCHost == {"www.site", "site"}
MCOrigin == {"www.site"}
MCBare == [h \in Host |-> "site"]
MCLease == {"cookie", "proxy"}
OneLease == {"proxy"}
MCKind == [l \in Lease |-> l]
=============================================================================
