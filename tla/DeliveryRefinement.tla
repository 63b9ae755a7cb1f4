--------------------------- MODULE DeliveryRefinement ---------------------------
(***************************************************************************)
(* Delivery implements DeliveryLifecycle: the status column is the status, *)
(* and a chat is reached when Telegram has accepted a copy.                *)
(***************************************************************************)
EXTENDS Delivery

Lifecycle == INSTANCE DeliveryLifecycle
    WITH status <- log,
         reached <- {d \in Deliveries : accepted[d] > 0}

\* Every step of the queue, the workers, the handlers and the recovery is a
\* step of the promised life cycle or changes nothing of it.
FollowsLifecycle == Lifecycle!Spec
=============================================================================
