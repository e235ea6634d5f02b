SPECIFICATION Spec

CONSTANTS
  a = a
  b = b
  p1 = p1
  p2 = p2
  c1 = c1
  c2 = c2
  c3 = c3
  Procs = {a, b}
  Ports = {p1}
  DEFAULT_PORT = p1
  Clients = {c1, c2}
  NoPort = NoPort
  NoClient = NoClient

INVARIANT ServerKeepsServing
CHECK_DEADLOCK FALSE
