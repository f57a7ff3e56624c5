SPECIFICATION FairSpec
CONSTANTS
    agent = agent
    bash = bash
    blank = blank
    t1 = t1
    t2 = t2
    Tools <- MCTools
    Agents <- MCAgents
    EventCap = 2
    TextCap = 1
    TailCap = 1
    Texts <- MCTexts
    Blank = blank
    NoText = NoText
    MaxLines = 2
INVARIANTS
    TypeOK
    AllEventsSeen
    FinalTextShown
    NoTextGetsStuck
PROPERTIES
    EveryFeedEnds
    TailersEnd
CHECK_DEADLOCK FALSE
