------------------------------ MODULE Workflow ------------------------------
(***************************************************************************)
(* The workflow engine (core/workflow.py, core/models/workflow.py) and the *)
(* graphs of states that it is given (hr/fixtures/hr_workflow_nodes.json,  *)
(* core/fixtures/system_workflow_nodes.json).  An object has a set of      *)
(* active states.  A node names the states that stay active beside it, and *)
(* the states it requires, here as a family of sets of which one must be   *)
(* active; {{}} requires nothing.                                          *)
(***************************************************************************)
EXTENDS Naturals

Node(active, required) == [active |-> active, required |-> required]
AnyOf(S) == {{n} : n \in S}

\* hr.timesheet
TimeSheetGraph ==
  [n \in {10, 20, 30, 40, 70} |->
     CASE n = 10 -> Node({10}, {{}})
       [] n = 20 -> Node({20}, AnyOf({10}))
       [] n = 30 -> Node({20, 30}, AnyOf({20}))
       [] n = 40 -> Node({20, 30, 40}, {{20, 30}})
       [] n = 70 -> Node({20, 30, 40, 70}, {{20, 30, 40}})]

\* hr.job
JobGraph ==
  [n \in {10, 20, 40, 60} |->
     CASE n = 10 -> Node({10}, {{}})
       [] n = 20 -> Node({20}, AnyOf({10, 40}))
       [] n = 40 -> Node({30, 40}, AnyOf({20}))
       [] n = 60 -> Node({60}, AnyOf({20}))]

\* core.companyrel
ClientGraph ==
  LET lead == {10, 20, 30, 40} IN
  [n \in lead \cup {0, 60, 70, 80, 90} |->
     CASE n = 0  -> Node({0}, AnyOf(lead))
       [] n = 10 -> Node({10}, {{}})
       [] n \in lead \ {10} -> Node({k \in lead : k <= n}, AnyOf({n - 10}))
       [] n = 60 -> Node(lead \cup {60}, AnyOf({40}))
       [] n = 70 -> Node(lead \cup {60, 70}, AnyOf({60}))
       [] n = 80 -> Node(lead \cup {60, 80}, AnyOf(lead \cup {60, 70}))
       [] n = 90 -> Node({10, 20, 90}, AnyOf({60, 70}))]

\* WorkflowProcess.is_allowed, the required functions aside.
Allowed(graph, states, n) ==
  /\ n \notin states
  /\ \E R \in graph[n].required : R \subseteq states

\* WorkflowObject.save: the states that stay active when n is created, and n.
Kept(graph, states, n) == states \cap graph[n].active
Activated(graph, states, n) == Kept(graph, states, n) \cup {n}
=============================================================================
