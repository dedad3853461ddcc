\* A ping is to be answered.
CONSTANTS
    Hellos <- NoHello
    Inputs <- OnePing
    MaxEvents = 1
    Floods <- SomeFloods
    Failing = {}
SPECIFICATION FairStartSpec
PROPERTIES PingAnswered
\* The node rests when the inputs are handled, or has stopped.
CHECK_DEADLOCK FALSE
