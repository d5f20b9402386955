SPECIFICATION Spec
CONSTANTS
    Receivers = {"a"}
    TypeName <- MCTypeName
    ExportedNames <- MCExported
    MethodsOf <- MCMethods
    ServiceNames = {}
    NCalls = 2
    Kinds <- EchoKinds
    PanicNames = {}
    MaxKeepAlives = 0
    NoCall = NoCall
INVARIANTS RecoversAfterHeader
CHECK_DEADLOCK FALSE
