\* Two clients with the tokens of two users, of which either may expire.
SPECIFICATION Spec
CONSTANTS
  ann = ann
  bob = bob
  a = a
  b = b
  f = f
  g = g
  p = p
  q = q
  Clients = {c1, c2}
  Users = {ann, bob}
  NoUser = NoUser
  Tokens = {a, b}
  NoToken = NoToken
  Owner <- OwnerOf
  Ids = {f, g}
  Data = {p, q}
  NoData = NoData
  Requests <- ViewsAndCalls
  Stored <- SomeFiles
  Faults = TRUE
INVARIANTS TypeOK
PROPERTIES FilesOfCaller PagesAndCallsAgree RedirectsEnd
