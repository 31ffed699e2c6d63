--------------------------- MODULE WaypointGraph ---------------------------
(***************************************************************************)
(* What the waypoint table is to those who look for ways in it: a graph.   *)
(* A waypoint that is deleted takes all of its edges with it, so whoever   *)
(* gets its slot later starts with its own; and what is loaded is what was *)
(* saved last.                                                             *)
(***************************************************************************)
CONSTANTS Slots

VARIABLES nodes, edges, saved

graphVars == <<nodes, edges, saved>>

Touching(E, n) == {e \in E : e[1] = n \/ e[2] = n}

Empty == [nodes |-> {}, edges |-> {}]

GraphInit == nodes = {} /\ edges = {} /\ saved = Empty

AddNode ==
    \E n \in Slots \ nodes :
      /\ nodes' = nodes \cup {n}
      /\ edges \subseteq edges' /\ edges' \subseteq nodes' \X nodes'
      /\ edges' \ edges \subseteq Touching(edges', n) /\ <<n, n>> \notin edges'
      /\ UNCHANGED saved

DeleteNode ==
    \E n \in nodes :
      /\ nodes' = nodes \ {n} /\ edges' = edges \ Touching(edges, n)
      /\ UNCHANGED saved

AddEdge ==
    \E m, n \in nodes :
      /\ m # n /\ edges' = edges \cup {<<m, n>>}
      /\ UNCHANGED <<nodes, saved>>

RemoveEdges ==
    \E n \in nodes :
      /\ edges' \subseteq edges /\ edges \ edges' \subseteq Touching(edges, n)
      /\ UNCHANGED <<nodes, saved>>

Reset == nodes' = {} /\ edges' = {} /\ UNCHANGED saved

Save == saved' = [nodes |-> nodes, edges |-> edges] /\ UNCHANGED <<nodes, edges>>

Load == nodes' = saved.nodes /\ edges' = saved.edges /\ UNCHANGED saved

GraphNext ==
    AddNode \/ DeleteNode \/ AddEdge \/ RemoveEdges \/ Reset \/ Save \/ Load

GraphSpec == GraphInit /\ [][GraphNext]_graphVars
=============================================================================
