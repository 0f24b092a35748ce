----------------------------- MODULE TreeReaders -----------------------------
(***************************************************************************)
(* The clients of a frozen tree.  A tree is shared and immutable (marking  *)
(* works on a copy of its own), so each reading is a thread of its own.    *)
(***************************************************************************)
EXTENDS TreeOps, Query

Phase(task) == IF task \in {"query", "highlight"} THEN "compile" ELSE task

Init ==
  /\ job \in Readings
  /\ phase = Phase(job.task)
  /\ OpsInit
  /\ QueryInit

Next == (OpsNext /\ UNCHANGED queryVars) \/ (QueryNext /\ UNCHANGED opsVars)

vars == <<readVars, opsVars, queryVars>>

\* A reading is a call that runs until it returns.
Spec == Init /\ [][Next]_vars /\ WF_vars(Next)

\* What is in hand are nodes of the tree, children and patterns that exist.
ReadersTypeOK ==
  /\ OpsTypeOK
  /\ phase \in {"walk", "find", "mark", "compile", "query", "resolve", "refused", "done"}
  /\ stack \in Seq(DOMAIN Nodes)
  /\ nextPat \in Nat \ {0} /\ back \in BOOLEAN
  /\ \A i \in 1 .. Len(stack) - 1 : stack[i + 1] \in ToSet(Kids(stack[i]))
  /\ \A i \in DOMAIN ranges : ranges[i].start <= ranges[i].end

\* Every walk, search and query of a finite tree ends, also where subtrees are shared; no
\* node is twice a child of one parent, as freeze makes the trees.
Returns == <>(phase \in {"done", "refused"})
=============================================================================
