------------------------------ MODULE Routing ------------------------------
(***************************************************************************)
(* How targets are routed (src/internal/routing/routing.go): the lists,    *)
(* rules and geosite entries of a configuration are compiled into one      *)
(* sequence of rules, of which the first that matches decides.  Targets    *)
(* and values are normalized names (lower case, no final dot); which names *)
(* a keyword or a regular expression matches is a parameter.               *)
(***************************************************************************)
EXTENDS Naturals, Sequences, SequencesExt

CONSTANTS
    Lists,      \* what each of the three domain lists may be
    RuleLists,  \* what "rules" may be
    Sites,      \* the geosite file: its sites in order, with their domains
    Keywords,   \* the pairs of a keyword and a domain it is a substring of
    Regexes     \* the domains each regular expression matches, if it compiles

VARIABLES
    cfg,     \* the routing section
    matcher  \* the Matcher it was compiled to

Actions == {"direct", "proxy", "block"}
Paths == {"", "readable", "missing"}
NoName == << >>
NoMatcher == [enabled |-> FALSE, def |-> "none", rules |-> << >>]
Address == << >>  \* a target that is an IP address

\* As written: "a.b", ".a.b" or "geosite:a".
Value(labels, form) == [labels |-> labels, form |-> form]
Rule(action, type, value) == [action |-> action, type |-> type, value |-> value]
Values == [labels : Seq(STRING), form : {"plain", "dot", "geosite"}]
\* No type is "suffix", too; of the synonyms of a type one stands for all.
SuffixTypes == {"", "suffix"}
Types == SuffixTypes \cup {"exact", "keyword", "regex", "geosite", "other"}
Rules == [action : Actions \cup {""}, type : Types, value : Values]

Init ==
    /\ cfg \in [enabled : BOOLEAN, default : Actions \cup {""}, path : Paths, direct : Lists,
                proxy : Lists, block : Lists, rules : RuleLists]
    /\ matcher = NoMatcher

----------------------------------------------------------------------------
(* Compiling (New).                                                        *)

normalizeAction(a) == IF a = "" THEN "proxy" ELSE a

\* A value without a dot names a geosite entry, with or without its prefix.
geositeCode(v) == IF v.form # "dot" /\ Len(v.labels) = 1 THEN v.labels ELSE NoName

\* A geosite rule whose value names none goes by its type, if it has one.
ruleCode(r) ==
    IF geositeCode(r.value) # NoName \/ r.type = "" THEN geositeCode(r.value) ELSE << r.type >>

isGeositeRule(r) == r.type = "geosite" \/ r.value.form = "geosite"

\* compileRule refuses it.
Refused(r) ==
    \/ r.value.labels = << >> /\ r.value.form # "geosite"
    \/ r.type \notin SuffixTypes \cup {"exact", "keyword", "regex"}
    \/ r.type = "regex" /\ r.value.labels \notin DOMAIN Regexes

\* A pass of a loop appends x or goes on to the next element.
Append1(keep, x) == IF keep THEN << x >> ELSE << >>

listRules(list, action) ==
    FlattenSeq([i \in DOMAIN list |->
        Append1(geositeCode(list[i]) = NoName, Rule(action, "suffix", list[i]))])

ownRules(rules) ==
    FlattenSeq([i \in DOMAIN rules |->
        Append1(~isGeositeRule(rules[i]), [rules[i] EXCEPT !.action = normalizeAction(@)])])

\* Mutated form of domainRules: the block list comes first.
DomainRulesBlockFirst(c) ==
    listRules(c.block, "block") \o listRules(c.direct, "direct") \o listRules(c.proxy, "proxy")
        \o ownRules(c.rules)

domainRules(c) ==
    listRules(c.direct, "direct") \o listRules(c.proxy, "proxy") \o listRules(c.block, "block")
        \o ownRules(c.rules)

listCodes(list, action) ==
    FlattenSeq([i \in DOMAIN list |->
        Append1(geositeCode(list[i]) # NoName, [code |-> geositeCode(list[i]), action |-> action])])

ownCodes(rules) ==
    FlattenSeq([i \in DOMAIN rules |->
        Append1(isGeositeRule(rules[i]) /\ ruleCode(rules[i]) # NoName,
                [code |-> ruleCode(rules[i]), action |-> normalizeAction(rules[i].action)])])

\* What is said about geosite entries, in the order of the assignments to the
\* map: the last one stays.
siteActions(c) ==
    listCodes(c.direct, "direct") \o listCodes(c.proxy, "proxy") \o listCodes(c.block, "block")
        \o ownCodes(c.rules)

LastSaid(c, code) == SelectLastInSeq(siteActions(c), LAMBDA s : s.code = code)

rulesOf(c, site) ==
    IF LastSaid(c, site.code) = 0 THEN << >>
    ELSE FlattenSeq([i \in DOMAIN site.domains |->
            Append1(~Refused(site.domains[i]),
                    [site.domains[i] EXCEPT !.action = siteActions(c)[LastSaid(c, site.code)].action])])

siteRules(c) == FlattenSeq([i \in DOMAIN Sites |-> rulesOf(c, Sites[i])])

loadGeositeRules(c) == IF c.path = "" THEN << >> ELSE siteRules(c)

Refuses(c) ==
    /\ c.enabled
    /\ c.path = "missing" \/ \E i \in DOMAIN domainRules(c) : Refused(domainRules(c)[i])

New ==
    /\ matcher = NoMatcher
    /\ ~Refuses(cfg)
    /\ matcher' = [enabled |-> cfg.enabled, def |-> normalizeAction(cfg.default),
                   rules |-> IF cfg.enabled THEN domainRules(cfg) \o loadGeositeRules(cfg)
                                            ELSE << >>]
    /\ UNCHANGED cfg

----------------------------------------------------------------------------
(* Asking (ActionFor).                                                     *)

Match(r, d) ==
    /\ r.value.form # "geosite"
    /\ \/ r.type \in SuffixTypes /\ IsSuffix(r.value.labels, d)
       \/ r.type = "exact" /\ r.value.labels = d
       \/ r.type = "keyword" /\ << r.value.labels, d >> \in Keywords
       \/ r.type = "regex" /\ d \in Regexes[r.value.labels]

FirstMatch(d) == SelectInSeq(matcher.rules, LAMBDA r : Match(r, d))

ActionFor(t) ==
    IF ~matcher.enabled THEN "proxy"
    ELSE IF t = Address \/ FirstMatch(t) = 0 THEN matcher.def
    ELSE matcher.rules[FirstMatch(t)].action

----------------------------------------------------------------------------
(* Properties.                                                             *)

\* What the section says of a target, read off the section itself.
ListSays(list, d) ==
    \E i \in DOMAIN list : geositeCode(list[i]) = NoName /\ list[i].form # "geosite"
                               /\ IsSuffix(list[i].labels, d)

RuleSays(d, i) == ~isGeositeRule(cfg.rules[i]) /\ Match(cfg.rules[i], d)

Named(list, code) == \E i \in DOMAIN list : geositeCode(list[i]) = code

RulesOn(code) == {i \in DOMAIN cfg.rules : isGeositeRule(cfg.rules[i]) /\ ruleCode(cfg.rules[i]) = code}

\* The action of a geosite entry: its last rule, or else the last list with it.
\* Nothing can be said about an entry without a code.
SiteSays(code, a) ==
    /\ code # NoName
    /\ \/ \E i \in RulesOn(code) :
             (\A j \in RulesOn(code) : j <= i) /\ a = normalizeAction(cfg.rules[i].action)
       \/ /\ RulesOn(code) = {}
          /\ \/ a = "block" /\ Named(cfg.block, code)
             \/ a = "proxy" /\ Named(cfg.proxy, code) /\ ~Named(cfg.block, code)
             \/ a = "direct" /\ Named(cfg.direct, code) /\ ~Named(cfg.proxy, code)
                             /\ ~Named(cfg.block, code)

InSite(site, d) == \E i \in DOMAIN site.domains : ~Refused(site.domains[i]) /\ Match(site.domains[i], d)

\* Action a is what the section prescribes for domain d: the direct list before
\* the proxy list before the block list, then the first rule, then the first
\* site of the file that anything is said about.
Prescribed(d, a) ==
    LET lists == ListSays(cfg.direct, d) \/ ListSays(cfg.proxy, d) \/ ListSays(cfg.block, d)
        rules == {i \in DOMAIN cfg.rules : RuleSays(d, i)}
        sites == {i \in DOMAIN Sites : /\ cfg.path # "" /\ InSite(Sites[i], d)
                                       /\ \E b \in Actions : SiteSays(Sites[i].code, b)}
    IN \/ a = "direct" /\ ListSays(cfg.direct, d)
       \/ a = "proxy" /\ ListSays(cfg.proxy, d) /\ ~ListSays(cfg.direct, d)
       \/ a = "block" /\ ListSays(cfg.block, d) /\ ~ListSays(cfg.direct, d) /\ ~ListSays(cfg.proxy, d)
       \/ ~lists /\ \E i \in rules : (\A j \in rules : i <= j) /\ a = normalizeAction(cfg.rules[i].action)
       \/ ~lists /\ rules = {} /\ \E i \in sites : (\A j \in sites : i <= j) /\ SiteSays(Sites[i].code, a)
       \/ ~lists /\ rules = {} /\ sites = {} /\ a = normalizeAction(cfg.default)

\* With routing disabled everything goes through the client's proxy.
RoutedAs(t, a) ==
    IF ~cfg.enabled THEN a = "proxy"
    ELSE IF t = Address THEN a = normalizeAction(cfg.default)
    ELSE Prescribed(t, a)
=============================================================================
