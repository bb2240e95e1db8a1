----------------------------- MODULE MCWorkflow -----------------------------
(* Small instances of Workflow for TLC: a step that may be retried, and one *)
(* that may send the run back.                                              *)
EXTENDS Workflow, TLC

Edge(from, on, to, max) == [from |-> from, on |-> on, to |-> to, max |-> max]

ReworkEdges ==
  <<Edge("A", "done", "B", 2), Edge("A", "failed", "A", 1),
    Edge("B", "done", "end", 1), Edge("B", "failed", "A", 1)>>

\* Without the edge back, and without one for a failed B.
ChainEdges ==
  <<Edge("A", "done", "B", 1), Edge("A", "failed", "A", 1), Edge("B", "done", "end", 1)>>
=============================================================================
