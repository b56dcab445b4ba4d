SPECIFICATION Spec
CONSTANTS
  None = None
  Client = {c1, c2}
  Handler = {h1, h2}
  Nonce = {n1}
  Hash = {m1}
  Idx = {1}
  MemberSets = {{1}}
  Group = {g1}
  Email = {e1}
  Password = {p1}
  Otp = {}
  Recovery = {TRUE}
  Path = {"/register", "/recovery/setup", "/sign/commit", "/sign/complete", "/ecdh", "/session/deactivate", "/login/start", "/login/select"}
  KeyReuse = TRUE
  Elapses = {"grant"}
  MaxRestarts = 0
SYMMETRY Symmetry
PROPERTIES RevokedForGood
