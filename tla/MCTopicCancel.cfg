SPECIFICATION Spec
CONSTANTS
    kA = kA
    m1 = m1
    m2 = m2
    m3 = m3
    NoMsg = NoMsg
    Keys <- MCKeys
    Msgs <- MCMsgs
    KeyOf <- MCKeyOf
    MsgId <- MCMsgId
    Background = {m3}
PROPERTIES
    CancelHoldsTheQueue
CHECK_DEADLOCK FALSE
