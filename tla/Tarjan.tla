------------------------------- MODULE Tarjan -------------------------------
(***************************************************************************)
(* _cyclic_components: Tarjan's algorithm with its recursion kept on an    *)
(* explicit work list, as the validator runs it over a dict from names to  *)
(* the known names they consume.  A work entry (node, child_index) is kept *)
(* as the node and the neighbours not looked at yet, taken in any order:   *)
(* the order of an input_from list is nothing the result may depend on.    *)
(***************************************************************************)
EXTENDS Validator, SequencesExt

VARIABLES
  edges,        \* name -> set of names it consumes
  order,        \* the roots the outer loop has still to try
  index_of,     \* name -> when it was first seen, for those that were
  low,          \* name -> lowest index known to be in its component
  counter,      \* the next index
  stack,        \* names whose component is still open, on_stack with it
  work,         \* the explicit recursion
  components    \* the result
tarjanVars == <<edges, order, index_of, low, counter, stack, work, components>>

OnStack == ToSet(stack)
Seen == DOMAIN index_of
Min2(a, b) == IF a <= b THEN a ELSE b
Frame(node, rest) == [node |-> node, rest |-> rest]
Top == Last(work)

\* Called with a dict over the names of the plan and the list of its names.
Call(dict, names) ==
  /\ edges = dict
  /\ order = names
  /\ index_of = <<>> /\ low = <<>> /\ counter = 0
  /\ stack = <<>> /\ work = <<>>
  /\ components = {}

TryRoot ==
  /\ work = <<>> /\ order # <<>>
  /\ order' = Tail(order)
  /\ work' = IF Head(order) \in Seen THEN <<>>
             ELSE <<Frame(Head(order), edges[Head(order)])>>
  /\ UNCHANGED <<edges, index_of, low, counter, stack, components>>

\* A popped entry with child_index 0.
Enter ==
  /\ work # <<>> /\ Top.node \notin Seen
  /\ LET Numbered(f) == [x \in Seen \cup {Top.node} |-> IF x = Top.node THEN counter ELSE f[x]]
     IN  index_of' = Numbered(index_of) /\ low' = Numbered(low)
  /\ counter' = counter + 1
  /\ stack' = Append(stack, Top.node)
  /\ UNCHANGED <<edges, order, work, components>>

Descend(child) ==
  /\ work # <<>> /\ Top.node \in Seen
  /\ child \in Top.rest \ Seen
  /\ work' = Append(Append(Front(work), Frame(Top.node, Top.rest \ {child})),
                    Frame(child, edges[child]))
  /\ UNCHANGED <<edges, order, index_of, low, counter, stack, components>>

\* Mutant: a neighbour in a closed component still lowers the node.
GlanceAtAnySeen(child) ==
  /\ work # <<>> /\ Top.node \in Seen
  /\ child \in Top.rest \cap Seen
  /\ work' = Append(Front(work), Frame(Top.node, Top.rest \ {child}))
  /\ low' = [low EXCEPT ![Top.node] = Min2(@, index_of[child])]
  /\ UNCHANGED <<edges, order, index_of, counter, stack, components>>

\* A neighbour already seen matters only while its component is open.
Glance(child) ==
  /\ work # <<>> /\ Top.node \in Seen
  /\ child \in Top.rest \cap Seen
  /\ work' = Append(Front(work), Frame(Top.node, Top.rest \ {child}))
  /\ low' = IF child \in OnStack
            THEN [low EXCEPT ![Top.node] = Min2(@, index_of[child])] ELSE low
  /\ UNCHANGED <<edges, order, index_of, counter, stack, components>>

(***************************************************************************)
(* All neighbours looked at: close the component if the node is its root,  *)
(* popping the stack down to it, then lower the parent.                    *)
(***************************************************************************)
Place(node) == CHOOSE k \in DOMAIN stack : stack[k] = node
Popped(node) == {stack[k] : k \in Place(node) .. Len(stack)}

Leave ==
  /\ work # <<>> /\ Top.node \in Seen /\ Top.rest = {}
  /\ LET node == Top.node
         closes == low[node] = index_of[node]
     IN  /\ stack' = IF closes THEN SubSeq(stack, 1, Place(node) - 1) ELSE stack
         /\ components' = IF closes /\ (Cardinality(Popped(node)) > 1 \/ node \in edges[node])
                          THEN components \cup {Popped(node)} ELSE components
         /\ low' = IF Len(work) = 1 THEN low
                   ELSE [low EXCEPT ![Last(Front(work)).node] = Min2(@, low[node])]
  /\ work' = Front(work)
  /\ UNCHANGED <<edges, order, index_of, counter>>

TarjanNext ==
  \/ TryRoot \/ Enter \/ Leave
  \/ \E child \in DOMAIN edges : Descend(child) \/ Glance(child)

\* _cycle_errors makes the call for a plan.
TarjanSpec ==
  /\ \E p \in AgentPlan : Call(Edges(p.steps), [i \in DOMAIN p.steps |-> p.steps[i].id])
  /\ [][TarjanNext]_tarjanVars

-----------------------------------------------------------------------------
\* _cycle_errors reports one error per cycle, "well defined even when several
\* cyclic paths overlap": whatever the order of the neighbours, the loop returns
\* the classes of names that are upstream of each other, self-loops included.
ReportsEveryCycleOnce ==
  (work = <<>> /\ order = <<>>) => components = CyclicComponents(edges)
=============================================================================
