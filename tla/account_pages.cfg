\* Three requests or visits of the user, two plans and room for a third, two backups, one on a page.
CONSTANTS
  MaxSecret = 1
  MaxSent = 3
  MaxUnderWay = 9
  PlanLimit = 1
  MaxPlans = 3
  Days = {179, 180}
  JobLimit = 1
  MaxRebuilds = 3
  Decimals = 3
  Costs <- SomeCosts
SPECIFICATION Spec
CHECK_DEADLOCK FALSE
INVARIANTS ObjectsNeedToken PrefillWorks PlansAreCurrent PlansLastLong SummaryShowsPlan RebuildsAsConfirmed ConfirmShowsRebuild TablesFollowPagers PriceIsCost CardsMissNoJob MasksEnd
PROPERTIES PlansAsAsked SessionEndsForAReason
