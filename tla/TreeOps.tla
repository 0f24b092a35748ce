------------------------------- MODULE TreeOps -------------------------------
(***************************************************************************)
(* The operations of a frozen tree: TreeCursor, node_at_byte and           *)
(* mark_edit_range.  The client of a cursor walks the whole tree, as the   *)
(* doc of TreeCursor has it, in depth-first order.                         *)
(***************************************************************************)
EXTENDS Trees

VARIABLES
  path,     \* TreeCursor::path
  move,     \* the call its client makes next: "child", "sibling" or "parent"
  seen,     \* the nodes the client met
  here,     \* the node node_at_byte looks at, in the end its answer
  frames,   \* the stack of mark_range_inner, [node, done]
  changed   \* the nodes whose flag is set

opsVars == <<path, move, seen, here, frames, changed>>

OpsInit ==
  /\ path = <<>>
  /\ move = "child"
  /\ seen = IF job.task = "walk" THEN <<Root>> ELSE <<>>
  /\ here = IF job.task = "find" THEN Root ELSE 0
  /\ frames = IF job.task = "mark" THEN <<[node |-> Root, done |-> FALSE]>> ELSE <<>>
  /\ changed = {}

-------------------------------------------------------------------------------
(* TreeCursor.                                                             *)

\* The nodes a path leads along, 0 from where it leaves the tree.
Along(t, p) ==
  LET at[i \in 0 .. Len(p)] ==
        IF i = 0 THEN t.root
        ELSE IF at[i - 1] = 0 \/ p[i] > Len(t.nodes[at[i - 1]].kids) THEN 0
        ELSE t.nodes[at[i - 1]].kids[p[i]]
  IN at

\* TreeCursor::node for a path, 0 if the path leaves the tree.
Resolve(p) == Along(job.tree, p)[Len(p)]

Sideways == [path EXCEPT ![Len(path)] = @ + 1]

\* The call fails where the node has no children, and changes nothing.
GotoFirstChild ==
  /\ phase = "walk" /\ move = "child"
  /\ \/ /\ Kids(Resolve(path)) # <<>>
        /\ path' = Append(path, 1)
        /\ seen' = Append(seen, Resolve(path'))
        /\ UNCHANGED move
     \/ /\ Kids(Resolve(path)) = <<>>
        /\ move' = "sibling"
        /\ UNCHANGED <<path, seen>>
  /\ UNCHANGED <<readVars, here, frames, changed>>

\* Fault: a step out of the tree is not taken back.
StepOut == Sideways

\* A step out of the tree is taken back.
StepBack == [Sideways EXCEPT ![Len(path)] = @ - 1]

GotoNextSibling ==
  /\ phase = "walk" /\ move = "sibling"
  /\ \/ /\ path # <<>> /\ Resolve(Sideways) # 0
        /\ path' = Sideways
        /\ seen' = Append(seen, Resolve(path'))
        /\ move' = "child"
     \/ /\ path # <<>> /\ Resolve(Sideways) = 0
        /\ path' = StepBack
        /\ move' = "parent"
        /\ UNCHANGED seen
     \/ /\ path = <<>>
        /\ move' = "parent"
        /\ UNCHANGED <<path, seen>>
  /\ UNCHANGED <<readVars, here, frames, changed>>

GotoParent ==
  /\ phase = "walk" /\ move = "parent"
  /\ path # <<>>
  /\ path' = Front(path)
  /\ move' = "sibling"
  /\ UNCHANGED <<readVars, seen, here, frames, changed>>

\* goto_parent fails at the root.
WalkEnds ==
  /\ phase = "walk" /\ move = "parent"
  /\ path = <<>>
  /\ phase' = "done"
  /\ UNCHANGED <<job, opsVars>>

-------------------------------------------------------------------------------
(* node_at_byte: the first child that contains the byte answers for all.   *)

\* Fault: the byte after the node counts as its own.
HoldersWide == {i \in DOMAIN Kids(here) : Covers(Kids(here)[i], job.byte)
                                            \/ Nodes[Kids(here)[i]].end = job.byte}

Holders == {i \in DOMAIN Kids(here) : Covers(Kids(here)[i], job.byte)}

FindBelow ==
  /\ phase = "find"
  /\ Covers(Root, job.byte)
  /\ Holders # {}
  /\ here' = Kids(here)[Min(Holders)]
  /\ UNCHANGED <<readVars, path, move, seen, frames, changed>>

FindEnds ==
  /\ phase = "find"
  /\ Covers(Root, job.byte) => Holders = {}
  /\ here' = IF Covers(Root, job.byte) THEN here ELSE 0
  /\ phase' = "done"
  /\ UNCHANGED <<job, path, move, seen, frames, changed>>

-------------------------------------------------------------------------------
(* mark_range_inner.                                                       *)

Top == Last(frames)
Outside(n) == Nodes[n].end <= job.from \/ Nodes[n].start >= job.to

Marking(n, done) ==
  /\ phase = "mark"
  /\ frames # <<>>
  /\ n = Top.node /\ done = Top.done
  /\ UNCHANGED <<readVars, path, move, seen, here>>

\* Fault: the frame is not taken from the stack.
MarkSkipStays ==
  /\ frames # <<>> /\ Outside(Top.node)
  /\ Marking(Top.node, Top.done)
  /\ frames' = frames
  /\ UNCHANGED changed

MarkSkip ==
  /\ frames # <<>> /\ Outside(Top.node)
  /\ Marking(Top.node, Top.done)
  /\ frames' = Front(frames)
  /\ UNCHANGED changed

\* Fault: the first child is left out.
FreshTail(n) ==
  [i \in 1 .. Len(Kids(n)) - 1 |-> [node |-> Reverse(Kids(n))[i], done |-> FALSE]]

Fresh(n) == [i \in DOMAIN Kids(n) |-> [node |-> Reverse(Kids(n))[i], done |-> FALSE]]

MarkBelow ==
  /\ frames # <<>> /\ ~Outside(Top.node)
  /\ Marking(Top.node, FALSE)
  /\ frames' = Front(frames) \o <<[node |-> Top.node, done |-> TRUE]>> \o Fresh(Top.node)
  /\ UNCHANGED changed

MarkNode ==
  /\ frames # <<>> /\ ~Outside(Top.node)
  /\ Marking(Top.node, TRUE)
  /\ frames' = Front(frames)
  /\ changed' = IF (Nodes[Top.node].start < job.to /\ Nodes[Top.node].end > job.from)
                     \/ ToSet(Kids(Top.node)) \cap changed # {}
                THEN changed \cup {Top.node} ELSE changed

MarkEnds ==
  /\ phase = "mark"
  /\ frames = <<>>
  /\ phase' = "done"
  /\ UNCHANGED <<job, opsVars>>

-------------------------------------------------------------------------------
OpsNext == \/ GotoFirstChild \/ GotoNextSibling \/ GotoParent \/ WalkEnds
           \/ FindBelow \/ FindEnds
           \/ MarkSkip \/ MarkBelow \/ MarkNode \/ MarkEnds

-------------------------------------------------------------------------------
\* What is in hand are nodes of the tree, and nothing but the task is done.
OpsTypeOK ==
  /\ job.task \in {"walk", "find", "mark"} => phase \in {job.task, "done"}
  /\ path \in Seq(Nat \ {0}) /\ move \in {"child", "sibling", "parent"}
  /\ seen \in Seq(DOMAIN Nodes)
  /\ here \in DOMAIN Nodes \cup {0}
  /\ frames \in Seq([node : DOMAIN Nodes, done : BOOLEAN])
  /\ changed \subseteq DOMAIN Nodes

\* A node's span holds the spans of its children.
Nested ==
  \A n \in Reachable : \A c \in ToSet(Kids(n)) :
    Nodes[n].start <= Nodes[c].start /\ Nodes[c].end <= Nodes[n].end

(***************************************************************************)
(* A cursor never leaves the tree, not by a call that fails either, and a  *)
(* client that asks for the first child, else the next sibling, else the   *)
(* parent, meets every node below the root, each as often as it hangs in   *)
(* the tree, parents first.                                                *)
(***************************************************************************)
WalkIsPreorder ==
  job.task = "walk" =>
    /\ Resolve(path) # 0
    /\ IsPrefix(seen, Walked)
    /\ phase = "done" => seen = Walked

\* The children of a node follow each other.
Ordered ==
  \A n \in Reachable : \A i, j \in DOMAIN Kids(n) :
    i < j => Nodes[Kids(n)[i]].end <= Nodes[Kids(n)[j]].start

(***************************************************************************)
(* node_at_byte answers the innermost node at the byte: whatever contains  *)
(* the byte contains the answer, and None means that nothing does.         *)
(***************************************************************************)
DeepestFound ==
  job.task = "find" /\ phase = "done" /\ Nested /\ Ordered =>
    IF here = 0 THEN \A n \in Reachable : ~Covers(n, job.byte)
    ELSE /\ Covers(here, job.byte)
         /\ \A n \in Reachable : Covers(n, job.byte) => here \in Below(n)

(***************************************************************************)
(* mark_edit_range marks the nodes that overlap the edit, those and no     *)
(* others, although it walks by a stack and passes whole subtrees over.    *)
(***************************************************************************)
MarkedExactly ==
  job.task = "mark" /\ phase = "done" /\ Nested =>
    changed = {n \in Reachable : Nodes[n].start < job.to /\ Nodes[n].end > job.from}
=============================================================================
