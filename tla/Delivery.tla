------------------------------ MODULE Delivery ------------------------------
(***************************************************************************)
(* What the acts and docs daemons promise to whoever writes a package: it  *)
(* is delivered to the server, once it has been written, and for good.  A  *)
(* package may be spoiled instead: the server is given a part of it and    *)
(* told that this is all.                                                  *)
(***************************************************************************)
CONSTANT Packages

VARIABLES
  written,    (* Packages put into the profile directory.                   *)
  delivered,  (* Packages the server has received in one piece.             *)
  spoiled     (* Packages of which it took a part for the whole, last time. *)

deliveryVars == <<written, delivered, spoiled>>

DeliveryInit ==
  /\ written = {}
  /\ delivered = {}
  /\ spoiled = {}

Hand(k) ==
  /\ k \notin written
  /\ written' = written \cup {k}
  /\ UNCHANGED <<delivered, spoiled>>

(* What was spoiled may still come whole. *)
Deliver(k) ==
  /\ k \in written
  /\ k \notin delivered \/ k \in spoiled
  /\ delivered' = delivered \cup {k}
  /\ spoiled' = spoiled \ {k}
  /\ UNCHANGED written

(* Even the copy of a package that came whole may be replaced by a part. *)
Spoil(k) ==
  /\ k \in written \ spoiled
  /\ spoiled' = spoiled \cup {k}
  /\ UNCHANGED <<written, delivered>>

(* The first answer of the server about a package. *)
Settle(k) ==
  /\ k \notin delivered \cup spoiled
  /\ Deliver(k) \/ Spoil(k)

DeliveryNext == \E k \in Packages : Hand(k) \/ Deliver(k) \/ Spoil(k)

DeliverySpec == DeliveryInit /\ [][DeliveryNext]_deliveryVars

(* Nothing that was written stays without an answer for ever. *)
DeliveryFairness == \A k \in Packages : WF_deliveryVars(Settle(k))

FairDelivery == DeliverySpec /\ DeliveryFairness
=============================================================================
