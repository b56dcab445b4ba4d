SPECIFICATION FairSpec
CONSTANTS
  None = None
  Client = {c1}
  Handler = {h1, h2}
  Nonce = {n1}
  Hash = {m1}
  Idx = {1}
  MemberSets = {{1}}
  Group = {g1}
  Email = {e1}
  Password = {p1}
  Otp = {o1}
  Recovery = {TRUE}
  Path = {"/register", "/recovery/setup", "/challenge", "/login/start", "/sign/commit", "/sign/complete", "/session/delete"}
  KeyReuse = TRUE
  Elapses = {"commit", "session"}
  MaxRestarts = 0
PROPERTIES RequestsAnswered CommitsEnd
CHECK_DEADLOCK FALSE
