\* One page; its stream breaks, a fetch fails or the page is hidden, once
CONSTANTS
  Same = Same
  Nothing = Nothing
  Asked = Asked
  MaxClients = 1
  MaxQueued = 2
  MaxVersion = 2
  MaxWire = 1
  MaxTroubles = 1
SPECIFICATION LiveFairSpec
INVARIANTS TypeOK StreamCompletes
PROPERTIES EndsCurrent ListsFollow Reconnects
CHECK_DEADLOCK FALSE
