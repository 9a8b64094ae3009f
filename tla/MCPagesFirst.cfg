\* One client, and statements that do not fail.
SPECIFICATION Spec
CONSTANTS
  ann = ann
  bob = bob
  a = a
  b = b
  f = f
  g = g
  p = p
  q = q
  Clients = {c1}
  Users = {ann, bob}
  NoUser = NoUser
  Tokens = {a, b}
  NoToken = NoToken
  Owner <- OwnerOf
  Ids = {f, g}
  Data = {p, q}
  NoData = NoData
  Requests <- ViewsAndCalls
  Stored <- SomeFiles
  Faults = FALSE
PROPERTIES PicturesStored
