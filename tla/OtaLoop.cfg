SPECIFICATION UpdateSpec
CONSTANTS
  Chunk = 5
  Room = 5
  Responses <- MCResponses
  Misread = {0, 2}
  MaxRequests = 2
  Sockets = 1
INVARIANTS
  PiecesAreTheBody
  OkMeansWhole
  ErrorsHaveAReason
  SocketsComeBack
  ReceivedIsAll
PROPERTIES
  ReceiveEnds
  ImplementsSource
  PiecesAreInPlace
CHECK_DEADLOCK FALSE
