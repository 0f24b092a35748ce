------------------------------ MODULE GlrCalculus ------------------------------
(***************************************************************************)
(* Generalised LR parsing as a calculus: a graph of stack nodes that grows *)
(* by one justified edge at a time, in any order.  It says what an edge of *)
(* the engine's stack may rest on, and nothing about worklists, heads,     *)
(* laps, ancestor walks or the tree.                                       *)
(***************************************************************************)
EXTENDS GlrTables

CONSTANT Jobs

VARIABLES
  job,    \* the grammar and the source
  stack   \* set of edges [child, parent, sym] between nodes [state, pos]

Table(s, a) == ToSet(Actions(job.grammar, s, a))

Bottom == [state |-> 0, pos |-> 0]
Nodes == {Bottom} \cup {e.child : e \in stack}

Push(s, p, n, sym) ==
  stack' = stack \cup {[child |-> [state |-> s, pos |-> p], parent |-> n, sym |-> sym]}

\* There are d edges in a row that lead from node n down to node m.
Path(n, m, d) ==
  IF d = 0 THEN n = m
  ELSE \E f \in [1 .. d -> stack] :
         /\ f[1].child = n
         /\ f[d].parent = m
         /\ \A i \in 1 .. d - 1 : f[i].parent = f[i + 1].child

Init == job \in Jobs /\ stack = {}

\* The next token after n is shifted: only bytes that carry no token, and those
\* before an edit, are passed over.
Shifts ==
  \E n \in Nodes, k \in 0 .. Len(job.source) - 1, s \in States(job.grammar) :
    /\ n.pos <= k
    /\ \A b \in n.pos .. k - 1 : job.source[b + 1] \in NoToken \/ b < job.from
    /\ Shift(s) \in Table(n.state, job.source[k + 1])
    /\ Push(s, k + 1, n, job.source[k + 1])

\* A production is reduced over a path of its length.
Reduces ==
  \E n, m \in Nodes, p \in DOMAIN job.grammar.prods, a \in Symbols(job.grammar) :
    LET prod == job.grammar.prods[p]
        target == GotoState(job.grammar, m.state, prod.lhs)
    IN /\ Reduce(p) \in Table(n.state, a)
       /\ target # NoState
       /\ Push(target, n.pos, m, prod.lhs)
       /\ Path(n, m, Len(prod.rhs))

\* An error: a node is carried over some source to a token it has an action for.
Resyncs ==
  \E n \in Nodes, k \in 0 .. Len(job.source) - 1 :
    /\ n.pos < k
    /\ Table(n.state, job.source[k + 1]) # {}
    /\ Push(n.state, k, n, ERROR)

Next == (Shifts \/ Reduces \/ Resyncs) /\ UNCHANGED job

Spec == Init /\ [][Next]_<<job, stack>>
=============================================================================
