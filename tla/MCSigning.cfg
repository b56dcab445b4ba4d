SPECIFICATION Spec
CONSTANTS
  None = None
  Client = {c1, c2}
  Handler = {h1, h2}
  Nonce = {n1, n2}
  Hash = {m1, m2}
  Idx = {1, 2}
  MemberSets <- MCMemberSets
  Group = {g1}
  Email = {}
  Password = {}
  Otp = {}
  Recovery = {FALSE}
  Path = {"/register", "/sign/commit", "/sign/complete", "/session/delete"}
  KeyReuse = TRUE
  Elapses = {"commit"}
  MaxRestarts = 1
SYMMETRY Symmetry
INVARIANTS NonceSignsOnce SignedAsCommitted
PROPERTIES ImplementsOneTimeNonce
