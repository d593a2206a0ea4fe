---------------------------- MODULE Destination ----------------------------
(***************************************************************************)
(* Where a connection to an address of the FakeIP network goes: handle of  *)
(* src/internal/gateway/gateway.go turns the address back into a name and  *)
(* routes by the name.  It composes the FakeIP store, which is asked by    *)
(* the DNS proxy and forgets everything with the process, and the compiled *)
(* rules, which the process needs to start (src/cmd/sock5gw/main.go).      *)
(***************************************************************************)
EXTENDS FakeIP, Sequences

CONSTANTS
    DomainOf,  \* the labels of each name
    Lists, RuleLists, Sites, Keywords, Regexes  \* of Routing

VARIABLES
    cfg,     \* the routing section of the file
    matcher  \* what the gateway routes with, once the process runs

R == INSTANCE Routing

\* Load of src/internal/config/config.go refuses a section with another action.
ASSUME SectionAssumption ==
    /\ Lists \subseteq Seq(R!Values) /\ RuleLists \subseteq Seq(R!Rules)
    /\ Sites \in Seq([code : Seq(STRING), domains : Seq(R!Rules)])
ASSUME AddressAssumption == Size \notin Names

dsVars == << vars, cfg, matcher >>

Running == matcher # R!NoMatcher

DsInit == Init /\ R!Init

\* main: the process compiles the rules before anything is served, or exits.
start == R!New /\ UNCHANGED vars

resolve(c, n) == Running /\ Query(c, n) /\ UNCHANGED << cfg, matcher >>

forget(c) == Forget(c) /\ UNCHANGED << cfg, matcher >>

crash ==
    /\ Running
    /\ Restart
    /\ matcher' = R!NoMatcher
    /\ UNCHANGED cfg

DsNext ==
    \/ start
    \/ \E c \in Clients : forget(c) \/ \E n \in Names : resolve(c, n)
    \/ crash

DsSpec == DsInit /\ [][DsNext]_dsVars

\* rewriteFakeIPTarget and routeAction: what happens to a connection to address a.
Rewritten(a) == IF Target(a) \in Names THEN DomainOf[Target(a)] ELSE R!Address
routeAction(a) == R!ActionFor(Rewritten(a))

----------------------------------------------------------------------------
(* Properties.                                                             *)

\* "Maps domains through FakeIP" and the order of the routing lists, end to end:
\* a connection to the address a name has now is routed as the section
\* prescribes for that name, whatever was asked for and however often the
\* process came back, and one to an address of its own by the default.
ConnectionRouted ==
    Running =>
        /\ \A n \in Names : nameToIP[n] # NoAddress =>
              R!RoutedAs(DomainOf[n], routeAction(nameToIP[n]))
        /\ R!RoutedAs(R!Address, routeAction(Size))
=============================================================================
