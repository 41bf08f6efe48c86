SPECIFICATION Spec
CONSTANTS
    Client = {c1, c2}
    Apps = 2
    MaxRest = 3
    Rover = c1
    Slash = "/"
    Letter = {"a", "b"}
    NoMatch = NoMatch
    Missing = Missing
    NoName = NoName
    Trees <- AllTrees
    Method = {"GET", "HEAD", "POST", "CONNECT"}
    Digit = "b"
    MaxInt = 10
    Variants <- SmallVariants
    NoValue = NoValue
    Refused = Refused
    NotAllowed = NotAllowed
    Panicked = Panicked
    Reader = c1
    Texts <- SmallTexts
    Asked <- SmallAsked
    Static <- SmallStatic
    Sites <- SmallSites
    Guessed <- SmallGuessed
    Separator = "/"
    Failures <- SmallFailures
    Answers <- SmallAnswers
    NoStatus = NoStatus
    Broken = Broken
    Params <- SmallParams
    Durations <- SmallDurations
    Dates <- SmallDates
    Urls <- SmallUrls
    DebugBuild = FALSE
    Files <- SmallFiles
INVARIANTS ServesWhenReady RoutesToFirst AnswersMeant SettingsMeant
PROPERTIES RedirectsLead DocumentHolds Stops
CHECK_DEADLOCK FALSE
