SPECIFICATION SpecCrash
CONSTANTS
  s1 = s1
  s2 = s2
  btc = btc
  eth = eth
  p1 = p1
  p2 = p2
  Seeds = {s1, s2}
  Coins = {btc}
  Btc = btc
  RECOVERY_DERIVAT_NUM = 2
  Passwords = {p1}
  ImportNames <- ImportAccount1
  NoName = NoName
  NoWallet = NoWallet
  NoPw = NoPw
  NoCheck = NoCheck
  Attached = Attached
INVARIANTS
  HdLive
  GroupHasHead
PROPERTY
  WalletsAreNotReplaced
