\* Two inputs, or one and a full kernel queue, or two full ones, in every interleaving of the four tasks.
CONSTANTS
    Hellos <- OneHello
    Inputs <- MixedThenFlood
    MaxEvents = 2
    Floods <- SomeFloods
    Failing = {"v6"}
SPECIFICATION StartSpec
INVARIANTS TypeOK NoLostWakeup OnlyFatalKills OnlyConfiguredRuns
PROPERTIES KeepsService
\* The node rests when the inputs are handled, or has stopped.
CHECK_DEADLOCK FALSE
