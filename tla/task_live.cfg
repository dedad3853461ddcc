\* Everything is handled, or a record that cannot be read or an error of the interface
\* stops the whole node.
CONSTANTS
    Hellos <- NoHello
    Inputs <- TrafficOrBad
    MaxEvents = 2
    Floods <- SomeFloods
    Failing = {"v6", "tun"}
SPECIFICATION FairStartSpec
INVARIANTS RestsWhenDone
PROPERTIES Drains FailStop NoTaskSpins
\* The node rests when the inputs are handled, or has stopped.
CHECK_DEADLOCK FALSE
