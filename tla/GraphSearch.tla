----------------------------- MODULE GraphSearch -----------------------------
(***************************************************************************)
(* graph.reachable (ast/builtins.py): nodes wait in a queue, a node that   *)
(* was visited is skipped, and the neighbours of one that was not join the *)
(* queue.  A graph is a function from nodes to the sets of their           *)
(* neighbours, which need not be in its domain.                            *)
(***************************************************************************)
EXTENDS Integers, FiniteSets, SequencesExt

Adjacent(graph, n) == IF n \in DOMAIN graph THEN graph[n] ELSE {}
Edges(graph) == UNION {{n} \X graph[n] : n \in DOMAIN graph}

\* Mutant: the search ends at the first node it meets again.
TurnOnce(graph, s) ==
  IF s.queue = <<>> \/ Head(s.queue) \in s.visited THEN [s EXCEPT !.queue = <<>>]
  ELSE [queue |-> Tail(s.queue) \o SetToSeq(Adjacent(graph, Head(s.queue))),
        visited |-> s.visited \cup {Head(s.queue)}]

\* One turn of the loop
Turn(graph, s) ==
  IF s.queue = <<>> THEN s
  ELSE IF Head(s.queue) \in s.visited THEN [queue |-> Tail(s.queue), visited |-> s.visited]
  ELSE [queue |-> Tail(s.queue) \o SetToSeq(Adjacent(graph, Head(s.queue))),
        visited |-> s.visited \cup {Head(s.queue)}]

\* A node waits once for its place in the start and once for each edge that leads to it.
Turns(graph, start) == Len(start) + Cardinality(Edges(graph))

\* The queue and the visited nodes after each turn
Searched(graph, start) ==
  LET at[n \in 0..Turns(graph, start)] ==
        IF n = 0 THEN [queue |-> start, visited |-> {}] ELSE Turn(graph, at[n - 1])
  IN at

Search(graph, start) == Searched(graph, start)[Turns(graph, start)].visited
=============================================================================
