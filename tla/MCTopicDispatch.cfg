SPECIFICATION FairSpec
CONSTANTS
    kA = kA
    m1 = m1
    m2 = m2
    m3 = m3
    NoMsg = NoMsg
    Keys <- MCKeys
    Msgs <- MCMsgs
    KeyOf <- MCKeyOf
    MsgId <- MCMsgId
    Background = {m3}
INVARIANTS
    TypeOK
    RunningHasBatch
    NoStrandedMessage
    DispatchedOnce
    NoneForgotten
    EntriesAreLive
    JobsCanBeCancelled
    DiscardNeedsCancel
PROPERTIES
    FateIsFinal
    EveryMessageSettles
CHECK_DEADLOCK FALSE
