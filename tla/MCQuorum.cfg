SPECIFICATION Spec
CONSTANTS
  None = None
  Q = 11
  N = 3
  T = 2
  MaxMembers = 5
  MaxRequests = 2
  EvenY <- MCEvenY
  PopNonce <- MCPopNonce
  PopHash <- MCPopHash
  Rho <- MCRho
  Challenge <- MCChallenge
  Hmac <- MCHmac
  H3 <- MCH3
  BinderHash <- MCBinderHash
  Offers <- MCOffers
  Groups <- MCGroups
  NonceOrders <- MCNonceOrders
  MemberLists <- MCMemberLists
  Seeds <- MCSeeds
  Hashes <- MCHashes
INVARIANTS TypeOK PartialSignaturesVerify AnsweredRequestsVerify  EcdhSecretAgrees
CHECK_DEADLOCK FALSE
