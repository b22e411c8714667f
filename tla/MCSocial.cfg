SPECIFICATION SocialSpec
CONSTANTS
  Users = {u1, u2}
  Asking = {TRUE}
  MaxOps = 5
  MaxFaults = 1
  MaxCut = 14
  MaxMail = 3
  Items = {f, d}
  Files = {f}
  MaxShares = 4
  MaxLinks = 3
  MaxCommits = 24
  Devices = {d1, d2}
  MaxLinkOps = 2
SYMMETRY Sym
INVARIANTS GroupsReconciled BlockStands RetryWorks  RepairedLater LinksKept
CHECK_DEADLOCK FALSE
