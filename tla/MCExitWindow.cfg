SPECIFICATION RunSpec
CONSTANTS
    Unset = Unset
    Unparsable = Unparsable
    Environments <- MCHanging
    Handlers = {h1}
    MaxClock = 10
INVARIANT ExitsWithinWindow
