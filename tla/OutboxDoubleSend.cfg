\* Timeouts and leases in units of 10 seconds, as in the code, but for a
\* provider that answers or fails within 20 of the 30 seconds a send may take:
\* only a row that waited for its slot is sent past its lease.  Without crashes,
\* stalls or failures of the database.
SPECIFICATION PromptSpec
CONSTANTS
    a1 = a1
    a2 = a2
    d1 = d1
    d2 = d2
    Alert = {a1, a2}
    Recipient = {a2}
    Dispatcher = {d1, d2}
    BatchSize = 2
    Slots = 1
    MaxAttempts = 2
    SendTimeout = 2
    BatchTimeout = 12
    LeaseBase = 3
    LeaseCap = 12
    MaxFaults = 0
INVARIANT
    Exclusive
