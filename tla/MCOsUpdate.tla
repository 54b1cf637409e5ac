----------------------------- MODULE MCOsUpdate -----------------------------
(* Two small instances of OsUpdate in one state graph: forced retries and  *)
(* an unhealthy release without delayed reports, or two healthy releases   *)
(* whose reports are delayed, reordered and lost.                          *)
EXTENDS OsUpdate

VARIABLE instance

Delivery == INSTANCE OsUpdate
              WITH MaxVer <- 2, Healthy <- {1, 2}, MaxForces <- 0,
                   MaxInFlight <- 2, MaxHandlers <- 1

MCInit == instance \in {"retries", "delivery"} /\ Init

MCNext ==
  /\ UNCHANGED instance
  /\ \/ instance = "retries" /\ Next
     \/ instance = "delivery" /\ Delivery!Next

(* The delivery instance is fair, as FairSpec is. *)
MCSpec == MCInit /\ [][MCNext]_<<vars, instance>> /\ Delivery!Fairness

(* NewBootReported in the delivery instance: without forced retries a      *)
(* confirmed boot of the newest release is reported to the server.         *)
DeliveredBootReported == instance = "delivery" => Delivery!NewBootReported
=============================================================================
