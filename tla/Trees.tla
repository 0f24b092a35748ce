-------------------------------- MODULE Trees --------------------------------
(***************************************************************************)
(* A frozen parse tree of glr-core: the arena freeze makes, in which       *)
(* children stand before their parents.  A node may have several parents   *)
(* (interpretations of an ambiguous source share subtrees).                *)
(*                                                                         *)
(* A reading is one use of a tree by a client, chosen at the start.        *)
(* Indices start at 1 and 0 stands for None.                               *)
(***************************************************************************)
EXTENDS Integers, Sequences, SequencesExt

CONSTANT Readings   \* records with the fields task, tree and what the task needs

NodeOK(t, n) ==
  /\ t.nodes[n].start \in Nat /\ t.nodes[n].end \in Nat
  /\ t.nodes[n].start <= t.nodes[n].end
  /\ t.nodes[n].kids \in Seq(1 .. n - 1)

TreeOK(t) ==
  /\ t.nodes \in Seq({t.nodes[n] : n \in DOMAIN t.nodes})
  /\ \A n \in DOMAIN t.nodes : NodeOK(t, n)
  /\ t.root \in DOMAIN t.nodes

\* At least one text, each a sequence of lexemes.
TextsOK(r) ==
  /\ r.texts \in Seq({r.texts[q] : q \in DOMAIN r.texts})
  /\ r.texts # <<>>
  /\ \A q \in DOMAIN r.texts : r.texts[q] \in Seq(ToSet(r.texts[q]))

ReadingOK(r) ==
  /\ r.task \in {"walk", "find", "mark", "query", "highlight"}
  /\ TreeOK(r.tree)
  /\ r.task = "find" => r.byte \in Nat
  /\ r.task = "mark" => r.from \in Nat /\ r.to \in Nat
  /\ r.task \in {"query", "highlight"} => TextsOK(r)

ASSUME ReadingsAssumption == \A r \in Readings : ReadingOK(r)

VARIABLES
  job,     \* the reading
  phase    \* what its client is doing

readVars == <<job, phase>>

KidsOf(t, n) == t.nodes[n].kids

Nodes == job.tree.nodes
Root == job.tree.root
Kids(n) == Nodes[n].kids

\* For each node of t the nodes below it, itself included, in the order of a walk from the left.
Preorder(t) ==
  LET pre[n \in DOMAIN t.nodes] ==
        <<n>> \o FlattenSeq([i \in DOMAIN t.nodes[n].kids |-> pre[t.nodes[n].kids[i]]])
  IN pre

Walked == Preorder(job.tree)[Root]
Below(n) == ToSet(Preorder(job.tree)[n])
Reachable == Below(Root)

Covers(n, k) == Nodes[n].start <= k /\ k < Nodes[n].end
=============================================================================
