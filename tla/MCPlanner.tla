------------------------------ MODULE MCPlanner ------------------------------
(* Two lines: main, in the 1.x band and released at the root commit, and   *)
(* next, in the 2.0.x band and not born yet.                               *)
EXTENDS Planner

MCLines == {"main", "next"}
MCBand == [main |-> [major |-> 1, minor |-> NoMinor], next |-> [major |-> 2, minor |-> 0]]
MCAllow == [main |-> {1, 2}, next |-> {1}]
MCFormat == [main |-> "bare", next |-> "bare"]
MCMoved == [main |-> {"stable"}, next |-> {"next"}]
MCPublishes == [main |-> "core", next |-> "next"]
MCBirths == {NoBootstrap, Version(2, 0, 0)}
Plain(type) == [type |-> type, scope |-> "none", footer |-> NoFooter]
MCShapes == {Plain("fix"), [Plain("breaking") EXCEPT !.scope = "held"]}
MCBaseline ==
    [commits |-> <<[type |-> "feat", scope |-> "none", footer |-> NoFooter,
                    pick |-> 0, parents |-> {}]>>,
     heads |-> [main |-> 1, next |-> 1],
     tags |-> {[name |-> "bare", version |-> Version(1, 0, 0), commit |-> 1]}]
Release == [kind |-> "release"]
Pre(l, s) == [kind |-> "prerelease", line |-> l, stream |-> s]
MCIntentSets ==
    {{Release}, {Pre("main", 1)}, {Pre("main", 2)}, {Pre("next", 2)},
     {[kind |-> "promote", line |-> "main"]},
     {[kind |-> "release-as", version |-> Version(1, 0, 1)]}}
MCDepths == {1, 2}
=============================================================================
