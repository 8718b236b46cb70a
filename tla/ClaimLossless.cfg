SPECIFICATION Spec
CONSTANTS
  FourCC <- MCFourCC
  Modulus <- MCModulus
  NestLimit = 4
  Beyond <- MCBeyond
  Entries <- JustPacked
  TypeRoom = 8
  OutTypes <- MCOutTypes
INVARIANT Lossless
