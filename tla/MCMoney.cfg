SPECIFICATION MoneySpec
CONSTANTS
  Inputs = {"u1", "u2"}
  Gap = 2
  MaxPayments = 3
  MaxReceive = 1
  MaxLocks = 2
  MaxFaults = 1
  Nothing = Nothing
INVARIANTS SentIsRecorded NoSilentDoubleSpend PlanIsRight FundingIsOwn AddressesAreRight EveryPublicationExact
PROPERTIES EveryCatalogCatchesUp
CHECK_DEADLOCK FALSE
