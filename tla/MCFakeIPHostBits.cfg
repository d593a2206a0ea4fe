SPECIFICATION DsSpec
CONSTANTS
    Clients = {c1}
    Names = {n1, n2}
    Size = 4
    Base = 2
    Events = {}
    DomainOf <- MCDomainOf
    Lists <- MCLists
    RuleLists <- MCRuleLists
    Sites <- MCSites
    Keywords <- MCKeywords
    Regexes <- MCRegexes
    n1 = n1
    n2 = n2
    n3 = n3
CHECK_DEADLOCK FALSE
INVARIANTS
    NameReached
