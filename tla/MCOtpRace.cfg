SPECIFICATION Spec
CONSTANTS
  None = None
  Client = {c1, c2, c3}
  Handler = {h1, h2}
  Nonce = {n1}
  Hash = {m1}
  Idx = {1}
  MemberSets = {{1}}
  Group = {g1}
  Email = {e1}
  Password = {p1}
  Otp = {o1}
  Recovery = {TRUE}
  Path = {"/register", "/recovery/setup", "/challenge", "/login/start"}
  KeyReuse = FALSE
  Elapses = {}
  MaxRestarts = 0
SYMMETRY Symmetry
INVARIANTS OtpAcceptedOnce
CHECK_DEADLOCK FALSE
