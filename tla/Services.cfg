SPECIFICATION Spec
CONSTANTS
  call1 = call1
  call2 = call2
  call3 = call3
  call4 = call4
  call5 = call5
  item1 = item1
  item2 = item2
  home = home
  office = office
  NONE = NONE
  Calls = {call1, call2, call3, call4, call5}
  Items = {item1, item2}
  Addresses = {home, office}
  Limit <- MCLimit
  Sites <- MCSites
  WebLimit <- MCWebLimit
  ShopLimit = 2
  Listings <- MCListings
  Shops <- MCShops
  Tenants = {"tenant", "other"}
  EventTypes = {"succeeded", "failed"}
  Deliveries <- MCDeliveries
  Conditions <- MCConditions
  Transactions <- MCTransactions
  Workloads <- MCWorkloads
INVARIANTS ServicesTypeOK PlanWasPaidFor PaidIsRemembered ResetEndsSessions AgentsFollowOwners
           PolicyInForce RecordsAgree OrderHoldsCart ReportedTruly
           WindowsHold CodesAreOwn AnswersAreRanked HooksArrive
PROPERTY OwnNameKept
CHECK_DEADLOCK FALSE
