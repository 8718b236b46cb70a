SPECIFICATION Spec
CONSTANTS
  FourCC <- MCFourCC
  Modulus <- MCModulus
  NestLimit = 4
  Beyond <- MCBeyond
  Entries <- MCEntries
  TypeRoom = 8
  OutTypes <- MCOutTypes
INVARIANTS TypeOK InStep FormattedRight ScaledRight SizesSuffice
