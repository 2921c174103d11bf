CONSTANTS
    Services = {1, 2}
    Deps <- MCDeps
    OnFailure <- MCRestarted
    Limit <- MCLimits
    Lifetime <- MCLifetime
    Boot = {1, 2}
    Capacity = 2
    MaxDelay = 2
CHECK_DEADLOCK FALSE
SPECIFICATION SupervisionSpec
PROPERTIES LaunchEligible
