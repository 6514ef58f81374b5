-------------------------- MODULE MCCatalogRefresh --------------------------
(* CatalogRefresh with constants for TLC: configurations that share their   *)
(* channels, each with a guide that is about to end and one that goes on.  *)
EXTENDS CatalogRefresh

CONSTANTS k1, k2, k3, c1, c2, c3, s1, s2, p1, p2, h1, t1

MCProgram(k, c, end) == [config |-> k, channel |-> c, end |-> end]

MCXtream == [k \in Configs |-> "xtream"]
MCMixed  == [k \in Configs |-> CASE k = k1 -> "xtream" [] k = k2 -> "m3u"
                                 [] k = k3 -> "dispatcharr"]

MCAnyChange == Configs \X Configs
MCForward   == {<<k1, k2>>, <<k2, k3>>}

MCOneSource  == [k \in Configs |-> {s1}]
MCTwoSources == [k \in Configs |-> IF k = k3 THEN {s1, s2} ELSE {s1}]
MCPlain      == [k \in Configs |-> s1]

MCOwner == [c \in Channels |-> IF c = c1 THEN p1 ELSE p2]

MCOneOwner == [c \in Channels |-> p1]

MCLineups  == [k \in Configs |-> {{c1, c2}}]
MCLineup3 == [k \in Configs |-> {{c1, c2, c3}}]
MCTwoLineups == [k \in Configs |-> {{c1, c2}, {c1}}]

MCFeeds == [k \in Configs |->
    {{MCProgram(k, c1, 2), MCProgram(k, c2, 9)}, {MCProgram(k, c1, 9)}}]

\* The second guide has two programs of one channel, for three channels.
MCFeeds3 == [k \in Configs |->
    {{MCProgram(k, c, 9) : c \in {c1, c2, c3}}, {MCProgram(k, c1, 2), MCProgram(k, c1, 9)}}]

MCVisible == {{c1}}
MCVisible2 == {{c1}, {c1, c2}}

=============================================================================
