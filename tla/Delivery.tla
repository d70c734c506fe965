------------------------------ MODULE Delivery ------------------------------
(***************************************************************************)
(* What the collector promises of the events it takes: they wait in the    *)
(* order of their arrival, and the oldest ones, together, are stored or    *)
(* given up.  No event is stored twice, and none overtakes another.        *)
(***************************************************************************)
EXTENDS Naturals, Sequences

VARIABLES
  pending,  \* the events taken and not settled, the oldest first
  stored,   \* the events in the database
  count     \* how many events have been taken

deliveryVars == <<pending, stored, count>>

DeliveryInit == pending = <<>> /\ stored = <<>> /\ count = 0

\* A message brings the next events.
Accept ==
  /\ count' \in Nat /\ count' >= count
  /\ pending' = pending \o [i \in 1 .. count' - count |-> count + i]
  /\ UNCHANGED stored

\* The first n of the waiting events leave together.
Settle(n) ==
  /\ pending' = SubSeq(pending, n + 1, Len(pending))
  /\ stored' \in {stored, stored \o SubSeq(pending, 1, n)}
  /\ UNCHANGED count

\* A shutdown settles some events and gives up the rest.
Abandon(n) ==
  /\ pending' = <<>>
  /\ stored' \in {stored, stored \o SubSeq(pending, 1, n)}
  /\ UNCHANGED count

DeliveryNext ==
  \/ Accept
  \/ \E n \in 1 .. Len(pending) : Settle(n)
  \/ \E n \in 0 .. Len(pending) : Abandon(n)

DeliverySpec == DeliveryInit /\ [][DeliveryNext]_deliveryVars

=============================================================================
