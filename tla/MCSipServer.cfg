SPECIFICATION Spec
CONSTANTS
  Datagrams <- MCDatagrams
  MaxBuffer = 2
  CallLogMax = 3
  MaxLogged = 5
INVARIANTS
  RepliesMatch
  NoStrayReplies
  AskedForThem
  NoneStranded
  RingHoldsLatest
