------------------------------ MODULE HashRing ------------------------------
(***************************************************************************)
(* The consistent-hash ring that decides which live poller owns a node     *)
(* (crates/yagra-core/src/fleet/ring.rs).                                  *)
(*                                                                         *)
(* A member contributes VNodes points; a point is a <<hash, member>> pair  *)
(* and the ring is the set of points sorted by hash, a tie going to the    *)
(* member that sorts first.  Poller ids are naturals so that "sorts first" *)
(* is <.  The two hash functions (FNV-1a plus an avalanche finaliser) are  *)
(* parameters: nothing below depends on what they compute.                 *)
(***************************************************************************)
EXTENDS Fleet

CONSTANTS VNodes,        \* VNODES_PER_MEMBER
          VnodePoint,    \* [Pollers -> [0..VNodes-1 -> Nat]]
          NodeHash       \* [Nodes -> Nat]

ASSUME RingAssumption ==
    /\ VNodes \in Nat \ {0}
    /\ VnodePoint \in [Pollers -> [0..(VNodes - 1) -> Nat]]
    /\ NodeHash \in [Nodes -> Nat]

-----------------------------------------------------------------------------
(* HashRing::new: the points of a member set.  A set needs no sort and no   *)
(* dedup; FirstPoint below is where the sorted order is used.               *)
Points(members) ==
    {<<VnodePoint[m][i], m>> : m \in members, i \in 0..(VNodes - 1)}

(* The order the points are sorted in.                                      *)
Sorted(a, b) == a[1] < b[1] \/ (a[1] = b[1] /\ a[2] =< b[2])

FirstPoint(points) ==
    CHOOSE a \in points : \A b \in points : Sorted(a, b)

(* partition_point: everything not below h, and the whole ring when that is *)
(* past the last point (the wrap to index 0).                               *)
Clockwise(members, h) ==
    LET after == {a \in Points(members) : a[1] >= h}
    IN  IF after = {} THEN Points(members) ELSE after

(* HashRing::assign, for a non-empty ring.                                  *)
Assign(members, n) == FirstPoint(Clockwise(members, NodeHash[n]))[2]
=============================================================================
