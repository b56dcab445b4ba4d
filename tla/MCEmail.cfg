SPECIFICATION ApartSpec
CONSTANTS
  None = None
  Client = {c1, c2, c3}
  Handler = {h1, h2}
  Nonce = {n1}
  Hash = {m1}
  Idx = {1}
  MemberSets = {{1}}
  Group = {g1}
  Email = {e1, e2}
  Password = {p1}
  Otp = {o1}
  Recovery = {TRUE}
  Path = {"/register", "/ecdh", "/recovery/setup", "/challenge", "/login/start", "/login/select", "/session/delete"}
  KeyReuse = FALSE
  Elapses = {"session"}
  MaxRestarts = 1
SYMMETRY Symmetry
INVARIANTS IndexComplete EmailOwnsItsSessions
CHECK_DEADLOCK FALSE
