SPECIFICATION Spec
CONSTANTS
    Transports = {"stdio", "sse", "http", "grpc"}
    MaxRequests = 2
INVARIANTS
    TypeOK
    OpenWhileServing
    FailureIsReported
PROPERTIES
    SignalStops
    UnknownTransportStops
