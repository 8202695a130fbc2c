CONSTANTS
    Callers = {c1, c2}
    Slots = {"renewing"}
    Retries = 1
    MaxMinted = 3
SPECIFICATION Spec
INVARIANT RetriesWithAnother
PROPERTIES KeeperSpec EveryCallEnds
