SPECIFICATION Spec
CONSTANTS
  FourCC <- MCFourCC
  Modulus <- MCModulus
  NestLimit = 4
  Payloads <- SoundPayloads
  Cursors = {c1, c2}
  FindKeys = {"ACCL", "STRM"}
CONSTRAINT LoneCursor
INVARIANTS CursorOnKlv DeviceNamed
PROPERTY KeepsPromise
