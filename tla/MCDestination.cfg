SPECIFICATION DsSpec
CONSTANTS
    Clients = {c1}
    Names = {n1, n2, n3}
    Size = 5
    Base = 0
    Events = {"restart"}
    DomainOf <- MCDomainOf
    Lists <- MCLists
    RuleLists <- MCRuleLists
    Sites <- MCSites
    Keywords <- MCKeywords
    Regexes <- MCRegexes
    n1 = n1
    n2 = n2
    n3 = n3
CHECK_DEADLOCK FALSE
INVARIANTS
    ForwardLeadsBack
    ConnectionRouted
