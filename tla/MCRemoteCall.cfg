SPECIFICATION FairSpec

CONSTANTS
    Encode <- Serialize
    Decode <- Deserialize
    ToNative <- AnyValueFromJObject
    ToJava <- JObjectFromAnyValue
    Lossless <- IsLossless
    IntBits = 4
    illFormed = illFormed
    Classes <- MCClasses
    Fields <- MCFields
    Calls <- MCCalls
    JavaReturns <- MCJavaReturns
    NativeReplies <- MCNativeReplies

INVARIANTS
    EchoUnchanged
    FlatMethodIsFound

PROPERTIES
    CallCompletes
    CancelReachesService

CHECK_DEADLOCK FALSE
