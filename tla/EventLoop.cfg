SPECIFICATION FairSpec
CONSTANTS
    Clients = {"client"}
    Incoming = {"in1"}
    Udps = {"udp"}
    Held = {}
    Resets = {"in1"}
    Removed = {"udp"}
    MaxEvents = 2
INVARIANTS
    NoUseAfterFree
    OneReconnect
    UnlistedNotPolled
PROPERTIES
    LostLeaves
    ClientReconnects
