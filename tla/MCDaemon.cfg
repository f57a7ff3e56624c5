SPECIFICATION Spec
CONSTANTS
    Users = {u1, u2}
    FirstUsers = {{}, {u1}}
    Setters = {s1}
    Settings = {on, bad}
    Refused = {bad}
    AutoOn = {on}
    NoSetting = NoSetting
    NoConfig = NoConfig
    Torn = Torn
    NoOne = NoOne
    Watcher = Watcher
    Main = Main
    MaxUnread = 1
    Chats = {c1, c2}
    Updater = Updater
    Shell = Shell
    NoBuilder = NoBuilder
    NoFile = NoFile
    NoImage = NoImage
    MaxCommit = 1
    Limits <- MCLimits
    Apart = TRUE
    Unreadable = Unreadable
CHECK_DEADLOCK FALSE
INVARIANTS
    TypeOK
    OwnersStay
    AddedUsersStay
    CopiesAgree
    JobsOnce
PROPERTIES
    GrantTakesEffect
    ComesBack
    UpdateIsAnswered
