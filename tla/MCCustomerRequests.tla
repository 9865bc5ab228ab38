------------------------- MODULE MCCustomerRequests -------------------------
(* CustomerRequests for TLC: the endpoints that can be open at a time.     *)
EXTENDS CustomerRequests, TLC

(* The way from the first document to the EDD decision.  Left out: PATCH,  *)
(* which both promises except, and what writes no column they are about.   *)
OnboardingOps == {"upload_id", "upload_selfie", "verify", "pipeline", "score",
                  "start_edd", "approve_edd", "reject_edd"}

HighRisk     == {"high_risk"}
EveryCountry == {"prohibited", "high_risk", "low_risk", "other"}

Symmetry == Permutations(Req)
=============================================================================
