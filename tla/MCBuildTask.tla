------------------------------ MODULE MCBuildTask ------------------------------
(* Constants for BuildTask. *)
EXTENDS BuildTask, TLC

T(name, aliases, replaces, dist, version, api, fit) ==
    [name |-> name, aliases |-> aliases, replaces |-> replaces, dist |-> dist,
     version |-> version, api |-> api, fit |-> fit]

EP(name, loads, targets) == [name |-> name, loads |-> loads, targets |-> targets]

MCBuiltins == << T("c", {"c2"}, {}, "pssc", 0, TRUE, TRUE),
                 T("sv", {}, {}, "pssc", 0, TRUE, TRUE) >>

\* A plugin of one target, and its next version.
Acme(v) == EP("acme", TRUE, << T("acme", {"a2"}, {}, "acme", v, TRUE, TRUE) >>)
\* One that takes over a built-in, by its name and by an alias.
Over(v) == EP("over", TRUE, << T("sv", {}, {"sv"}, "over", v, TRUE, TRUE),
                               T("osv", {"c2"}, {"c2"}, "over", v, TRUE, TRUE) >>)
\* A family whose second target takes a name of pssc, or of another plugin.
Greedy == EP("greedy", TRUE, << T("g", {}, {}, "greedy", 1, TRUE, TRUE),
                                T("h", {"c2"}, {}, "greedy", 1, TRUE, TRUE) >>)
Rival  == EP("rival", TRUE, << T("r", {}, {}, "rival", 1, TRUE, TRUE),
                               T("acme", {}, {}, "rival", 1, TRUE, TRUE) >>)
Dead   == EP("dead", FALSE, << T("d", {}, {}, "dead", 1, TRUE, TRUE) >>)
Old    == EP("old", TRUE, << T("o", {}, {}, "old", 1, FALSE, TRUE) >>)
Unfit  == EP("unfit", TRUE, << T("u1", {}, {}, "unfit", 1, TRUE, TRUE),
                               T("u2", {}, {}, "unfit", 1, TRUE, FALSE) >>)
Empty  == EP("empty", TRUE, << >>)
\* A plugin on the path without metadata.
Local  == EP("local", TRUE, << T("acme", {}, {}, "nometa", 1, TRUE, TRUE) >>)

Env(p, eps) == [pssc |-> p, eps |-> eps]

MCInstallations == << Env(1, << >>), Env(1, <<Acme(1)>>), Env(2, <<Dead, Old, Greedy, Acme(1)>>),
                      Env(1, <<Greedy, Unfit, Acme(2), Over(1)>>),
                      Env(1, <<Empty, Local, Rival>>) >>

MCEither == BOOLEAN

MCTasks == {[target |-> "acme", opt |-> "o1"], [target |-> "acme", opt |-> "o2"],
            [target |-> "c", opt |-> "o1"]}

\* The sources that compile are interchangeable.
MCSymmetry == Permutations(Good)

\* What the theorem about FreshReuse asks of the targets.
ASSUME MCIdentifiable == Identifiable
=============================================================================
