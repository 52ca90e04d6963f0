SPECIFICATION RSpec
CONSTANTS
    NULL = NULL
    Monitor = {"m1"}
    Kind = {"CERT"}
    Interval = 1
    MaxCount = 1
    Threshold = {2}
    Horizon = 6
    MaxRenewals = 1
PROPERTY
    OwedGoesOut
