SPECIFICATION CSpec
CONSTANTS
    MaxTextLen <- SmallMaxTextLen
    UdhLen <- SmallUdhLen
    MaxParts = 6
    MaxLength = 16
    MaxOut = 8
    CharactersAt <- SmallCharactersAt
    Most <- SmallMost
    Symbols <- SmallSymbols
    Zero = Zero
    Samples <- SmallSamples
    LineFeed = "lf"
    Nul = "nul"
    Characters = {"O", "K", "E", "R", "cr", "lf", "nul"}
    MaxText = 6
    Words = {"a", "b"}
    Empty = ""
    Default = Default
    ClockWord = 16
    TestBit = 4
    Patience = 2
    UserAccess <- SmallAccess
    Blank = Blank
    BadSenders = {"malformed"}
    Strangers = {"unknown"}
    CommandNames = {"pon", "reboot"}
    CommandHandlers = {"cmd_a", "cmd_b"}
    CommandLevels = {1, 3}
    MaxModules = 3
    CommandSize = 3
    MaxCommands = 3
    MaxElapsed = 7
INVARIANTS
    CodesAreTranslated
    TextsArriveUnlessCut
    AnswersAreHeard
    StartsAsAsked
    TimeoutsAreKept
    CommandsArriveUnlessCut
    EnvelopesAreRead
    CharactersSurvive
    CommandsAreGuarded
    DocumentsReadBack
