SPECIFICATION Spec
CONSTANTS
    Clients = {t1}
    Console = {}
    NRows = 1
    NoFilter = none
    country = country
    pipedCountry = pipedCountry
    pipedMethod = pipedMethod
    Filters = {none}
    FormFilters = {none}
    Selects <- MCSelects
    KeyText <- MCKeyText
    ClientRequests <- MCClientRequests
    Limit = 1
    MaxEntries = 1
    MaxCommits = 2
    MaxOutages = 0
    MaxImpatient = 0
INVARIANTS
    PageIsOfItsSnapshot
