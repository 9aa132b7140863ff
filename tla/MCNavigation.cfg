SPECIFICATION Spec
CONSTANTS
  home = home
  work = work
  party = party
  Lists <- AllLists
  Old <- OldLists
  Root = Root
  Unknown = Unknown
  MaxEdits = 2
  MaxForeign = 1
  MaxLosses = 1
INVARIANT TypeOK QuietListsServed
PROPERTY OnlyServerUnlists SettlesOnList
