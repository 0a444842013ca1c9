\* Dispatch, Channel, Censor, DccFiles and Startup side by side.
CONSTANTS
  Nicks = {anna, bert, carl}
  NoNick = noNick
  person = person
  bot1 = bot1
  bot2 = bot2
  Clients <- MCClients
  Casts <- MCCasts
  NoCast = noCast
  Nobody = nobody
  BoxCap = 3
  MaxTalk = 2
  Visitors = {vera, will}
  Names = {name1, name2}
  NoName = noName
  MaxEvents = 2
  MaxSwears = 4
  Transfers = {dcc1, dcc2, dcc3}
  Hole = hole
  MaxChunks = 2
  MaxFiles = 2
  Leftovers = {0, 1, 6667}
  Unset = unset
SPECIFICATION Spec
INVARIANTS
  DispatchTypeOK
  ViewComplete
  ViewStale
  ReadsWithin
  ParentCalled
  ChannelTypeOK
  OnlyPeopleCue
  CensorTypeOK
  CountFollows
  NoUndeservedKick
  FilesTypeOK
  TransferIntact
  FilesAccounted
  StartupTypeOK
  DialsAsMeant
PROPERTIES
  LoneAnswererSettles
  HalloSettles
  OffenderKicked
\* Programs exit, people leave, transfers end: a machine may stop.
CHECK_DEADLOCK FALSE
