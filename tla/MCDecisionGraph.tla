--------------------------- MODULE MCDecisionGraph ---------------------------
(* Instances of DecisionGraph for TLC. *)
EXTENDS DecisionGraph, SequencesExt

Edge(s, t, c) == [source |-> s, target |-> t, cond |-> c]

Yes(n) == [path |-> n, holds |-> {"yes"}]

Graph(edges, kinds, errors, retries, par) ==
    [nodes |-> <<"a", "b", "c">>, edges |-> edges,
     kind |-> [a |-> kinds[1], b |-> kinds[2], c |-> kinds[3]],
     onError |-> [a |-> errors[1], b |-> errors[2], c |-> errors[3]],
     retries |-> retries, maxParallel |-> par,
     gate |-> [mode |-> "all", conds |-> {Yes("a")}]]

\* A definition for each set of edges over three nodes, cyclic ones included.
AllShapes ==
    {Graph([i \in DOMAIN s |-> Edge(s[i][1], s[i][2], IF s[i][1] = "a" THEN Yes("b") ELSE None)],
           <<"semantic", "semantic", "emit">>, <<"skip", "fail", "skip">>, 0, 1) :
        s \in {SetToSeq(E) : E \in SUBSET {e \in {"a", "b", "c"} \X {"a", "b", "c"} : e[1] # e[2]}}}

\* A semantic node asks a gate; what passes is reviewed or acted on.
Gated == Graph(<<Edge("a", "b", None), Edge("b", "c", Yes("b"))>>,
               <<"semantic", "gate", "review">>, <<"fail", "fail", "review">>, 1, 2)

\* The same graph with gates that always raise.
Ungated == [Gated EXCEPT !.gate.conds = {}, !.retries = 0]

WrongMode == [Gated EXCEPT !.gate.mode = "most"]

\* Two webhooks at once, and a review of their outcome.
Hooks == Graph(<<Edge("a", "c", None), Edge("b", "c", None)>>,
               <<"webhook", "webhook", "review">>, <<"skip", "fail", "skip">>, 0, 2)

\* A single action that needs no receiver, and a webhook that is retried.
Emit == [Graph(<< >>, <<"emit", "emit", "emit">>, <<"fail", "fail", "fail">>, 0, 3)
            EXCEPT !.nodes = <<"a">>]

Hook == [Emit EXCEPT !.kind["a"] = "webhook", !.retries = 1]

Small == [Emit EXCEPT !.nodes = <<"a", "b">>, !.edges = <<Edge("a", "b", None)>>]

Definitions == AllShapes \cup {Gated, Ungated, WrongMode, Hooks, Hook, Emit}

OneUpdate == {Small}

MCRequests == {[dry |-> TRUE, key |-> None, retain |-> FALSE],
               [dry |-> FALSE, key |-> None, retain |-> TRUE],
               [dry |-> FALSE, key |-> "k1", retain |-> FALSE]}

\* One run of each graph in one process; two runs of the webhook; and two
\* processes that store versions and a run.
MCScope == [d \in Definitions |->
    [procs |-> IF d = Emit THEN {"p1", "p2"} ELSE {"p1"},
     runs |-> IF d = Hook THEN {"r1", "r2"} ELSE {"r1"},
     versions |-> IF d = Emit THEN 3 ELSE 1,
     requests |-> CASE d \in {Emit, Hook} -> MCRequests
                    [] d \in {Gated, Hooks} -> {q \in MCRequests : q.key = None}
                    [] OTHER -> {q \in MCRequests : q.retain},
     faults |-> CASE d \in {Gated, Hooks} -> {"node", "deadline", "project"}
                  [] d = Hook -> {"node"}
                  [] OTHER -> {"node", "deadline"}]]

=============================================================================
