SPECIFICATION FairSpec

CONSTANTS
  k1 = k1
  k2 = k2
  NoKey = NoKey
  plain = plain
  spaced = spaced
  other = other
  indented = indented
  closed = closed
  quoted = quoted
  colon = colon
  slash = slash
  NoName = NoName
  Keys = {k1, k2}
  Names <- MCNames
  Grammar <- MCGrammar
  Wanted <- MCWanted
  t1 = t1
  Creators = {t1, t2}
  MaxWallets = 2
  MaxAddresses = 1

INVARIANTS
  TypeOK
  KeysKept
  AddressesKept
  StartsUnlessCut

PROPERTIES
  KeptAsAsked
  CreationEnds

CONSTRAINT Bounded

CHECK_DEADLOCK FALSE
