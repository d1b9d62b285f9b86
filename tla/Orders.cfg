SPECIFICATION FairSpec
CONSTANTS
  call1 = call1
  call2 = call2
  call3 = call3
  call4 = call4
  call5 = call5
  intent1 = intent1
  intent2 = intent2
  shop1 = shop1
  shop2 = shop2
  NONE = NONE
  Calls = {call1, call2, call3, call4, call5}
  Intents = {intent1, intent2}
  Workloads <- MCWorkloads
  Connectors <- MCConnectors
  Wants <- MCWants
  Offers <- MCOffers
  Forms <- MCForms
  PlatformMax = 100
  KnownCategories = {"grocery", "tobacco"}
  Tolerance = 1
INVARIANTS TypeOK ChargeWasConsented SuccessHasOrder CancelledAtMerchant CapsNeedOverlap
PROPERTIES ImplementsLedger ExecutionSettles
CHECK_DEADLOCK FALSE
