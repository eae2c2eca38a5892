-------------------------------- MODULE Fleet -------------------------------
(***************************************************************************)
(* The two kinds of identity the fleet modules share.  Both are naturals   *)
(* because the code sorts by them: poller ids to make the ring independent *)
(* of registration order, node ids to cut a snapshot into chunks.          *)
(***************************************************************************)
EXTENDS Naturals, FiniteSets

CONSTANTS Pollers,   \* every poller id that can ever join the pool
          Nodes      \* every monitored node id

ASSUME FleetAssumption ==
    /\ Pollers \subseteq Nat
    /\ Nodes \subseteq Nat
    /\ IsFiniteSet(Pollers)
    /\ IsFiniteSet(Nodes)
=============================================================================
