SPECIFICATION Spec
CONSTANTS
    Transports = {"sse"}
    MaxRequests = 0
PROPERTIES
    StopsOnErrorOrSignal
