SPECIFICATION FairSpec
CONSTANTS
    Receivers = {"a", "b"}
    TypeName <- MCTypeName
    ExportedNames <- MCExported
    MethodsOf <- MCMethods
    ServiceNames <- MCNames
    NCalls = 2
    Kinds <- AllKinds
    PanicNames <- MCPanicNames
    MaxKeepAlives = 1
    NoCall = NoCall
INVARIANTS TypeOK IInv OwnArgs SuccessIsReal OutOfStepForAReason RegisteredIsServable
PROPERTIES WrittenIsReported FoundIsFoundAgain ExecutedOnce
CHECK_DEADLOCK FALSE
