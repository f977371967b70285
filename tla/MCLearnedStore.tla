--------------------------- MODULE MCLearnedStore ---------------------------
(* Small instances of LearnedStore for TLC. *)
EXTENDS LearnedStore

CONSTANTS here, there, install, build, t1, t2, k1, i1, i2, i3, i4, i5

\* c1 and c2 are run in one project and have different matchers; c3 has c1's
\* matcher in another project.
MCProjectOf == [c1 |-> here, c2 |-> here, c3 |-> there]
MCMatcherOf == [c1 |-> install, c2 |-> build, c3 |-> install]
\* c2's text also begins with c1's prefix.
MCPasses == [c1 |-> {install}, c2 |-> {install, build}, c3 |-> {install}]
\* here has no rules of its own; there allows what passes install.
MCProjectRules ==
    [p \in {here, there} |->
        IF p = here THEN <<>>
        ELSE <<[id |-> "own", tests |-> {install}, branch |-> None, decision |-> "allow"]>>]
OneTask == {t1}
TwoTasks == {t1, t2}
OneCli == {k1}
FiveInodes == {i1, i2, i3, i4, i5}
=============================================================================
