SPECIFICATION Spec
CONSTANTS
  Req = {r1, r2}
  Ctx = {c1, c2}
  Buf = {b1, b2}
  NoReq = NoReq
  NoCtx = NoCtx
  NoBuf = NoBuf
  Sizes <- MCSizes
  Routes <- MCRoutes
  AppLimit = 1
  DefaultLimit = 2
  PoolCap = 1
SYMMETRY Symmetry
INVARIANTS CtxExclusive BufExclusive Isolation OwnResponse BodyBounded IInv
