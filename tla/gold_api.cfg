SPECIFICATION Spec
CONSTANTS
    Clients = {t1}
    Console = {c}
    NRows = 2
    NoFilter = none
    country = country
    pipedCountry = pipedCountry
    pipedMethod = pipedMethod
    Filters = {none, country, pipedCountry, pipedMethod}
    FormFilters = {none, country}
    Selects <- MCSelects
    KeyText <- MCKeyText
    ClientRequests <- MCClientRequests
    Limit = 1
    MaxEntries = 1
    MaxCommits = 2
    MaxOutages = 1
    MaxImpatient = 0
SYMMETRY ThreadSymmetry
INVARIANTS
    TypeOK
    AnswersAreFresh
    AnswersFit
    ListedInOrder
PROPERTIES
    WalkMissesNothing
