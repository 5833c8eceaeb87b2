SPECIFICATION Spec
CONSTANTS
  c1 = c1
  c2 = c2
  Clients <- MCClients
  Texts <- MCTexts
  Comma = Comma
  Dash = Dash
  Other = Other
  WordWidth = 2
  WordMax = 2
  EntryMax = 8
  Vids = {100}
  MaxBoots = 2
INVARIANTS
  TypeOK
  ParsedAsWritten
  TableFollowsCommands
  ListShowsCommands
  OutcomeIsHonest
SYMMETRY MCSymmetry
