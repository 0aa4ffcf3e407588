-------------------------- MODULE AttachmentContract --------------------------
(***************************************************************************)
(* What the attachment subsystem promises for one database and one object   *)
(* store, whatever the order of requests, failures and crashes: an          *)
(* attachment that became visible keeps its bytes until its deletion        *)
(* commits; bytes are erased only when no commit can make them visible any  *)
(* more; and what was deleted never comes back.                             *)
(***************************************************************************)
CONSTANT Keys

VARIABLES
    phase,  \* phase[k]: "new", "pending", "attached" or "gone"
    bytes   \* keys whose bytes exist somewhere in the store

cvars == <<phase, bytes>>

CInit == phase = [k \in Keys |-> "new"] /\ bytes = {}

\* A transaction moves a set of keys from one phase to the next.
Move(K, from, to) ==
    /\ \A k \in K : phase[k] = from
    /\ phase' = [k \in Keys |-> IF k \in K THEN to ELSE phase[k]]

Reserve(k) == Move({k}, "new", "pending") /\ UNCHANGED bytes

Store(k) ==
    /\ phase[k] = "pending"
    /\ bytes' = bytes \cup {k}
    /\ UNCHANGED phase

Attach(k) == k \in bytes /\ Move({k}, "pending", "attached") /\ UNCHANGED bytes

\* The upload failed; on S3 the failed request may have stored the object.
Abandon(k) == Move({k}, "pending", "gone") /\ bytes' \in {bytes, bytes \cup {k}}

Detach(K) == K # {} /\ Move(K, "attached", "gone") /\ UNCHANGED bytes

Erase(k) ==
    /\ phase[k] = "gone"
    /\ bytes' = bytes \ {k}
    /\ UNCHANGED phase

CNext ==
    \/ \E k \in Keys : Reserve(k) \/ Store(k) \/ Attach(k) \/ Abandon(k) \/ Erase(k)
    \/ \E K \in SUBSET Keys : Detach(K)

CSpec == CInit /\ [][CNext]_cvars
=============================================================================
