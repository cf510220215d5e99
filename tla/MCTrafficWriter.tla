-------------------------- MODULE MCTrafficWriter --------------------------
(* Instances of TrafficWriter for TLC. *)
EXTENDS TrafficWriter, TLC

CONSTANTS e1, e2, alice, phone, page, closing

AlicesPhone == (phone :> alice)
AliceAndNobody == (e1 :> alice @@ e2 :> Nobody)
PhoneAndNone == (e1 :> phone @@ e2 :> Nobody)
=============================================================================
