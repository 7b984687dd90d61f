--------------------------- MODULE AnchorService ---------------------------
(***************************************************************************)
(* What the publishing pipeline promises between the delivery topic and    *)
(* the chain: only broadcast CIDs are registered, a registration is for    *)
(* good, and every broadcast CID is registered in the end.                 *)
(***************************************************************************)
CONSTANT Cids

VARIABLES broadcast,   \* CIDs seen on the delivery topic
          registered   \* CIDs with a record on chain

vars == <<broadcast, registered>>

Init == broadcast = {} /\ registered = {}

Broadcast(c) == /\ broadcast' = broadcast \cup {c}
                /\ UNCHANGED registered

\* One transaction, of any anchoring user.
Register(S) == /\ S # {}
               /\ S \subseteq broadcast \ registered
               /\ registered' = registered \cup S
               /\ UNCHANGED broadcast

Next == \/ \E c \in Cids : Broadcast(c)
        \/ \E S \in SUBSET Cids : Register(S)

Spec == Init /\ [][Next]_vars

Live == \A c \in Cids : c \in broadcast ~> c \in registered
=============================================================================
