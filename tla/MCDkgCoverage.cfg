SPECIFICATION Spec
CONSTANTS
  None = None
  Q = 11
  N = 4
  T = 3
  EvenY <- MCEvenY
  PopNonce <- MCPopNonce
  PopHash <- MCPopHash
  Rho <- MCRho
  Challenge <- MCChallenge
  Hmac <- MCHmac
  Message = 2
  Tweakings <- MCTweakings
  Polynomials <- MCPolynomials
  DealerKeys <- MCDealerKeys
  RefreshDraws <- MCRefreshDraws
  RecoveryDraws <- MCRecoveryDraws
  Flaky = {4}
  Losable = {3}
INVARIANT FinalizedSharesCover
CHECK_DEADLOCK FALSE
