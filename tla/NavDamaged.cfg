SPECIFICATION FairSpec
CONSTANTS
  FourCC <- MCFourCC
  Modulus <- MCModulus
  NestLimit = 2
  Payloads <- DamagedPayloads
  Cursors = {c1}
  FindKeys = {"ACCL"}
INVARIANTS TypeOK CursorInBuffer
PROPERTY CallsEnd
