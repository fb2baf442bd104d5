\* The same instance; delegations whose reward periods are gone.
CONSTANTS
    v1 = v1  v2 = v2  d1 = d1  d2 = d2
    Validators = {v1, v2}
    Delegations = {d1, d2}
    Chains <- MCChains
    Unit = 2
    MaxValidators = 1
    BadAddress = BadAddress
SPECIFICATION Spec
CHECK_DEADLOCK FALSE
INVARIANT RewardPeriodsKept
