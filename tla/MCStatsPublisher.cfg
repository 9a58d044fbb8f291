SPECIFICATION Spec
CONSTANTS
    Interval = 3
    Never = Never
    Kinds = {"python", "immediate", "zmq", "ros2"}
    Hwm = 1
    CallPeriod = 2
    MaxSamples = 3
INVARIANT NeverSilent
PROPERTIES NothingVanishes Spaced
