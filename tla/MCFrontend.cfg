\* Three clicks or inputs in an editor; of the columns two reorders, or one and two changes (a
\* reorder counts twice of MaxWrites); two requests of the picker, two rows of history and two
\* loads of it; queries of two tokens; one fault, one change by another tab.
SPECIFICATION FrontendSpec
CONSTANTS
    Texts = {0, 1}
    Tags = {x}
    Budget = 3
    MaxReorders = 2
    MaxFaults = 1
    MaxChanges = 2
    MaxWrites = 4
    MaxRequests = 2
    MaxEdits = 1
    MaxOthers = 1
    MaxRows = 2
    MaxLoads = 2
    MaxTokens = 2
    Number <- Numbers
    GivenTags <- TagSets
    GivenBodies <- CardBodies
    Tokens <- SearchTokens
    LinkCards = {0, 1, 2}
    OpenCard = 0
    Recency <- Changed
    Narrowings = {{1, 2}, {1}}
    GivenLinks <- FirstLinks
    Contested <- OthersLinks
    Reasons = {1}
    MaxOffered = 1
    MaxRemembered = 2
    Kind <- Kinds
    LinkEnds <- LinkedCards
    Scopes = {"c1", "k1", "b"}
    FieldEdits <- ChangedFields
    FirstOf <- FirstRows
INVARIANTS
    FrontendTypeOK EditorStoresEdits  PickerOffersWell 
    SearchShowsMatches
PROPERTY FinishedTagsStay
CONSTRAINT OrderNotExcused
CONSTRAINT DrawerMayShow
CHECK_DEADLOCK FALSE
