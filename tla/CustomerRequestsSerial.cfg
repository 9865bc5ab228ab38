SPECIFICATION Spec
CONSTANTS
  MaxIds = 2
  Countries <- EveryCountry
  Req = {r1}
  Ops <- AllOps
  NoReq = NoReq
INVARIANT TypeOK
PROPERTY OneAtATime
