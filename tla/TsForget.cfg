CONSTANTS
    Callers = {c1, c2}
    Slots = {"renewing"}
    Retries = 1
    MaxMinted = 2
SPECIFICATION Spec
PROPERTIES RefreshOnceOn401
