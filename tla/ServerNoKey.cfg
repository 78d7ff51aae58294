\* Nothing is missing but, perhaps, the key.
SPECIFICATION Spec
CONSTANTS
    Clients = {c1}
    NumDescriptors = 3
    Missing = {"key"}
    ServerFaults = {}
INVARIANT FallbackWithoutKey
CHECK_DEADLOCK FALSE
