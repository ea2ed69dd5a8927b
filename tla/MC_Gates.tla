------------------------------ MODULE MC_Gates ------------------------------
EXTENDS Gates
W(l, s, c, g, p, o) == [lang |-> l, subs |-> s, contract |-> c, gate |-> g, packages |-> p, later |-> o]
MCWorlds == { W("node", {"n1", "n2"}, {}, FALSE, {}, {}),
              W("node", {"n1", "pn"}, {}, FALSE, {}, {}),
              W("go", {"g1", "gn"}, {}, FALSE, {}, {}),
              W("rust", {"r1", "r2"}, {}, FALSE, {}, {}),
              W("rust", {"r1", "r2"}, {}, TRUE, {"r1"}, {}),
              W("python", {"p1", "p2"}, {}, FALSE, {}, {}),
              W("mixed", {"nn", "pn"}, {}, FALSE, {}, {}),
              W("node", {"n1"}, {"file", "scenario", "test"}, FALSE, {}, {"n1"}) }
MCMaxEdits == [w \in MCWorlds |-> IF w.subs \in {{"n1", "n2"}, {"r1", "r2"}} /\ ~w.gate THEN 2 ELSE 1]
MCFamily == [s \in {"n1", "n2", "nn", "p1", "p2", "pn", "g1", "gn", "r1", "r2"} |->
               CASE s \in {"n1", "n2", "nn"} -> "node" [] s \in {"p1", "p2", "pn"} -> "python"
                 [] s \in {"g1", "gn"} -> "go" [] OTHER -> "rust"]
MCNested == {"nn", "pn", "gn"}
=============================================================================
