SPECIFICATION Spec
CONSTANTS
  FourCC <- MCFourCC
  Modulus <- MCModulus
  NestLimit = 4
  Payloads <- SoundPayloads
  Cursors = {c1}
  FindKeys = {"ACCL"}
INVARIANT SoundNeverBad
