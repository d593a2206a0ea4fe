--------------------------- MODULE MCDestination ---------------------------
(* A small instance of Destination for TLC: names in a domain, in one of   *)
(* its subdomains and in another, and sections that treat them apart.      *)
EXTENDS Destination, TLC

CONSTANTS n1, n2, n3

\* As Routing writes them.
Value(labels, form) == [labels |-> labels, form |-> form]
Rule(action, type, value) == [action |-> action, type |-> type, value |-> value]

AB == << "a", "b" >>
WAB == << "w", "a", "b" >>
CD == << "c", "d" >>
MCDomainOf == n1 :> AB @@ n2 :> WAB @@ n3 :> CD

X == << "x" >>
Y == << "y" >>

MCLists == {<< >>, << Value(AB, "plain") >>, << Value(X, "plain") >>,
            << Value(X, "dot"), Value(Y, "geosite") >>, << Value(<< >>, "plain") >>}

MCRuleLists ==
    {<< >>,
     << Rule("block", "exact", Value(AB, "plain")), Rule("direct", "suffix", Value(AB, "plain")) >>,
     << Rule("", "keyword", Value(<< "w", "a" >>, "plain")), Rule("block", "geosite", Value(X, "plain")) >>,
     << Rule("direct", "geosite", Value(X, "geosite")), Rule("block", "suffix", Value(X, "geosite")),
        Rule("direct", "exact", Value(CD, "geosite")) >>,
     << Rule("block", "regex", Value(CD, "plain")), Rule("", "geosite", Value(Y, "plain")) >>,
     << Rule("direct", "other", Value(CD, "plain")) >>,
     << Rule("block", "", Value(CD, "geosite")), Rule("direct", "", Value(WAB, "plain")) >>,
     << Rule("direct", "regex", Value(AB, "plain")) >>}

MCSites ==
    << [code |-> X, domains |-> << Rule("", "suffix", Value(AB, "plain")),
                                   Rule("", "regex", Value(AB, "plain")) >>],
       [code |-> Y, domains |-> << Rule("", "exact", Value(CD, "plain")),
                                   Rule("", "keyword", Value(<< "w" >>, "plain")) >>],
       [code |-> << "exact" >>, domains |-> << Rule("", "suffix", Value(CD, "plain")) >>] >>

MCKeywords == {<< << "w", "a" >>, WAB >>, << << "w" >>, WAB >>}

MCRegexes == [v \in {CD} |-> {CD, WAB}]
=============================================================================
