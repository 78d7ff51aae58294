\* One robot, and a signal at any moment.
SPECIFICATION FairSpec
CONSTANTS
    Clients = {c1}
    NumDescriptors = 3
    Missing = {}
    ServerFaults = {"signal"}
PROPERTIES
    SignalEnds
CHECK_DEADLOCK FALSE
