SPECIFICATION ApartSpec
CONSTANTS
  None = None
  Client = {c1, c2}
  Handler = {h1, h2}
  Nonce = {n1}
  Hash = {m1}
  Idx = {1}
  MemberSets = {{1}}
  Group = {g1}
  Email = {e1}
  Password = {p1, p2}
  Otp = {o1, o2}
  Recovery = {TRUE}
  Path = {"/register", "/recovery/setup", "/challenge", "/login/start", "/login/select", "/recovery/start", "/recovery/select", "/session/delete"}
  KeyReuse = TRUE
  Elapses = {"grant"}
  MaxRestarts = 0
SYMMETRY Symmetry
INVARIANTS TypeOK KeyRoles OtpAcceptedOnce
