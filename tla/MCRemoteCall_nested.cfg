SPECIFICATION FairSpec

CONSTANTS
    Encode <- Serialize
    Decode <- Deserialize
    ToNative <- AnyValueFromJObject
    ToJava <- JObjectFromAnyValue
    Lossless <- IsLossless
    IntBits = 4
    illFormed = illFormed
    Classes <- MCClasses
    Fields <- MCFields
    Calls <- NestedCalls
    JavaReturns <- MCJavaReturns
    NativeReplies <- MCNativeReplies

INVARIANT
    MethodIsFound

CHECK_DEADLOCK FALSE
