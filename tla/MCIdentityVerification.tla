------------------------ MODULE MCIdentityVerification ------------------------
(* IdentityVerification for TLC: the routing settings that calls can read. *)
EXTENDS IdentityVerification, TLC

ShuftiFirst == [primary |-> "shufti", fallback |-> "nadra", trigger |-> "timeout"]
ShuftiTwice == [primary |-> "shufti", fallback |-> "shufti", trigger |-> "always_both"]

AllRoutings == Routing
TwoShufti   == {ShuftiFirst, ShuftiTwice}
OneShufti   == {ShuftiFirst}

CallbackSymmetry == Permutations(Callback)
=============================================================================
