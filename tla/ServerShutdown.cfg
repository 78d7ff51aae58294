\* One robot being served, and a signal.
SPECIFICATION Spec
CONSTANTS
    Clients = {c1}
    NumDescriptors = 3
    Missing = {}
    ServerFaults = {"signal"}
INVARIANT ShutdownWaits
CHECK_DEADLOCK FALSE
