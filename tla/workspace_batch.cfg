SPECIFICATION Spec
CONSTANTS
    Names = {"free", "gone", "paid"}
    Rank <- MCRank
    Place <- MCPlace
    Alphabet <- MCAlphabet
    MinAttempts = 2
    MinSuccesses = 1
    Interval = 1
    Window = 2
    TailLength = 2
    Urls = {"shop", "intranet"}
    Domain <- MCDomain
    Public = {"shop"}
    ConsoleUrls = {"shop"}
    Matched = {"shop", "intranet"}
    Recipe <- MCRecipe
    Commands <- MCCommands
    Histories <- MCHistories
    Requests = {1}
    Installed = {"free", "paid"}
    Base <- MCBase
    Settings <- MCSettings
    Price <- MCPrice
    Exact <- MCExact
    Limit = 2
    Start = 3
    Stop = 4
INVARIANTS
    BatchScrapesEveryUrl
CHECK_DEADLOCK FALSE
