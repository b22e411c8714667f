SPECIFICATION ClientsSpec
CONSTANTS
  Names = {"a", "b"}
  MaxBegun = 3
  MaxWriters = 5
  MaxRoots = 2
  MaxEntries = 4
  MaxReads = 1
  Paths = {"a"}
  MaxChanges = 2
  MaxFaults = 1
  MaxPosts = 1
  Clients = {c1, c2}
  Passwords = {p1, p2}
  MaxLogins = 3
SYMMETRY Sym
INVARIANTS PathsKept SpacesAuthorised SpacesClean   AccountsWhole PasswordInForce
CHECK_DEADLOCK FALSE
