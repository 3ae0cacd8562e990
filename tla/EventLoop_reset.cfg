SPECIFICATION Spec
CONSTANTS
    Clients = {"client"}
    Incoming = {"in1"}
    Udps = {}
    Held = {}
    Resets = {"client", "in1"}
    Removed = {}
    MaxEvents = 2
INVARIANT ClientsStay
