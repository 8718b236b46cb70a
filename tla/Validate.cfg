SPECIFICATION Spec
CONSTANTS
  FourCC <- MCFourCC
  Modulus <- MCModulus
  NestLimit = 3
  Payloads <- PaddedPayloads
  MaxDevices = 3
INVARIANTS TypeOK VettedWalks
PROPERTIES VerdictOnSound StreamKept
