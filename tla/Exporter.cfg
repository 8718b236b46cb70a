SPECIFICATION Spec
CONSTANTS
  Files <- MCFiles
  Keys <- MCKeys
  Mapping <- MCMapping
  SizeOf <- MCSizeOf
  ValueName = "value"
  Roundings <- MCRoundings
CHECK_DEADLOCK FALSE
INVARIANTS TypeOK FilesAgree XmlRight CsvRight
