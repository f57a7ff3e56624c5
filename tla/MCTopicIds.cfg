SPECIFICATION Spec
CONSTANTS
    kA = kA
    kB = kB
    m1 = m1
    m2 = m2
    n1 = n1
    NoMsg = NoMsg
    Keys <- MCKeys
    Msgs <- MCMsgs
    KeyOf <- MCKeyOf
    MsgId <- MCMsgId
    Background = {}
PROPERTIES
    ReactionHitsOwnTopic
CHECK_DEADLOCK FALSE
