SPECIFICATION Spec
CONSTANTS
  FourCC <- MCFourCC
  Modulus <- MCModulus
  NestLimit = 4
  Payloads <- MCPayloadsToEdit
  News <- MCNews
  FindKeys = {"ACCL", "TSMP", "FACE"}
  MaxEdits = 2
INVARIANTS TypeOK WalksOn
PROPERTIES RightEntry StoredByType
CHECK_DEADLOCK FALSE
