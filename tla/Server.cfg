\* Two robots and three descriptors, one of them the listening socket's: two
\* sessions, or a session and its GPT call, leave none for accept.
SPECIFICATION FairSpec
CONSTANTS
    Clients = {c1, c2}
    NumDescriptors = 3
    Missing = {"curl", "key", "template", "port"}
    ServerFaults = {"thread", "sigpipe", "nullContent", "signal"}
INVARIANTS
    TypeOK
    IInv
    NoDescriptorLeak
    DescriptorsStayOwn
    MainCutsNoSession
    OnlyTheRequiredIsFatal
PROPERTIES
    ClientsServed
    SignalEndsUnlessLogging
\* A server nobody dials waits for ever, and so does one that is over.
CHECK_DEADLOCK FALSE
