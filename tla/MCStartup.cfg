SPECIFICATION StartupSpec
CONSTANTS
  Names <- MCNames
  Label <- MCLabel
  Lower <- MCLower
  Addresses <- MCAddresses
  Zones <- MCZones
  Starts <- MCStarts
\* A process that has exited takes no more steps.
CHECK_DEADLOCK FALSE
INVARIANTS
  MostSpecificRule
  AllErrorsReported
  GroupsFollowTheFile
  AddressesParseBack
  AllOrNothing
  OneListenerPerSocket
  FamiliesCoexist
