\* No trouble at all: a message merged while the snapshot is fetched
CONSTANTS
  Same = Same
  Nothing = Nothing
  Asked = Asked
  MaxClients = 1
  MaxQueued = 2
  MaxVersion = 2
  MaxWire = 1
  MaxTroubles = 0
SPECIFICATION LiveFairSpec
PROPERTY AlwaysEndsCurrent
CHECK_DEADLOCK FALSE
