SPECIFICATION Spec
CONSTANTS
  Base = 16
  MaxMsgLen = 160
  Children <- Three
  FirstName <- ThreeNamed
  NewNames <- Longer
  MaxRenames = 1
  ReadSizes = {1, 200}
  Rooms = {56, 200}
  IOUnit = 200
  Exchanges <- Others
INVARIANTS WithinMsize ListingRight ReplyUnderWay
PROPERTIES MessagesArrive
CHECK_DEADLOCK FALSE
