SPECIFICATION AnySpec
CONSTANTS
  MaxCiphers = 4
  MaxForeign = 1
  MaxFaults = 2
  MaxCrashes = 2
  Out = Out
  Nothing = Nothing
INVARIANTS NeverTorn PreviousRecoverable HonestResult ShownIsOneMomentEverywhere FundingIsVerifiedEverywhere
PROPERTIES PublicationAuthorized
CHECK_DEADLOCK FALSE
