SPECIFICATION FairSpec
CONSTANTS
    Unset = Unset
    Unparsable = Unparsable
    Environments <- MCEnvironments
    Handlers = {h1}
    MaxClock = 10
INVARIANTS
    TypeOK
    AcceptedConfigurationRuns
    NoRequestAfterTelemetry
    SuccessIsClean
    NothingLeftOpen
PROPERTIES
    TelemetryReserve
    RunReturns
