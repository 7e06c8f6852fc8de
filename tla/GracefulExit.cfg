SPECIFICATION Spec
CONSTANTS
    None = None
    j1 = j1
    w1 = w1
    Jobs = {j1}
    Workers = {w1}
    BufferSize = 1
    ConfigTimeout = 1
    MaxStops = 1
    MaxOvertakes = 0
PROPERTY GracefulExit
