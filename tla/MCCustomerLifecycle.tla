------------------------- MODULE MCCustomerLifecycle -------------------------
(* CustomerLifecycle for TLC: three EDD cases and freeze records in all,   *)
(* and every nationality class.                                            *)
EXTENDS CustomerLifecycle

MCCountries == {"prohibited", "high_risk", "low_risk", "other"}
=============================================================================
