SPECIFICATION Spec
CONSTANTS
  PageSize = 3
  Addresses <- MCAddresses
  Residents <- MCResidents
  blockWords = 2
  bytes = 2
  Boot <- MCBoot
  DiscFile <- MCDisc
  TapeFiles <- MCTapes
  kbb_size = 3
  Keys <- MCKeys
  Requests <- MCRequests
  Clock = {50}
  DateOf <- MCDateOf
  Junk = {60}
  MaxOps = 3
 
PROPERTIES SuccessMoved BlocksWhole FaultShows Ends
