SPECIFICATION Spec
CONSTANTS
  Indexes <- MCIndexes
  FileSize = 32
  Slack = 4
  Modulus = 24
  Versions = {0, 1}
  Clients = {"demo", "utils"}
  Careful = {"demo"}
INVARIANTS TypeOK RoomForRead HandleLive ReadBack
