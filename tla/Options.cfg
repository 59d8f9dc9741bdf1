CONSTANTS
  Addresses <- MCAddresses
  Numbers <- MCNumbers
  Resolved <- MCResolved
  Subnets <- MCSubnets
  None = None
  Entries <- MCEntries
  MaxEntries = 3
CHECK_DEADLOCK FALSE
SPECIFICATION OptionsSpec
INVARIANTS ParsedAsWritten BuiltAsWritten
