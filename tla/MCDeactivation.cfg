SPECIFICATION Spec
CONSTANTS
  None = None
  Client = {c1, c2}
  Handler = {h1, h2}
  Nonce = {n1}
  Hash = {m1}
  Idx = {1}
  MemberSets = {{1}}
  Group = {g1}
  Email = {}
  Password = {}
  Otp = {}
  Recovery = {FALSE}
  Path = {"/register", "/ecdh", "/session/deactivate"}
  KeyReuse = FALSE
  Elapses = {}
  MaxRestarts = 0
SYMMETRY Symmetry
PROPERTIES DeactivationSticks
CHECK_DEADLOCK FALSE
