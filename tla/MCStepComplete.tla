--------------------------- MODULE MCStepComplete ---------------------------
(***************************************************************************)
(* An instance of StepComplete on the tree that reverse_tree_info          *)
(* computes, and the arithmetic of that tree for many numbers of nodes.    *)
(***************************************************************************)
EXTENDS StepComplete, TreeMath

CONSTANTS
    nodes, REVERSE_TREE_WIDTH,  \* the tree of the step
    MaxNodes, Widths            \* the trees of TreesExact

info == [r \in 0..(nodes - 1) |-> reverse_tree_info(r, nodes, REVERSE_TREE_WIDTH)]
parents == [r \in DOMAIN info |-> info[r].parent]
descendants == [r \in DOMAIN info |-> info[r].num_children]

Exit(status) == [how |-> "exited", estatus |-> status]

\* Two tasks on each node, the last one with the higher status; ranks differ.
tasks == [r \in DOMAIN info |->
            <<Exit(0), Exit(IF r = nodes - 1 THEN 2 ELSE IF r = 1 THEN 1 ELSE 0)>>]

\* reverse_tree_info and route_split_hostlist_treewidth, when no slurmstepd of the
\* step is there yet and the launch computes its tree: for every number of nodes up
\* to MaxNodes and every width, the last, cut-off level included, each rank has the
\* parent, children and descendants of one tree, and a list of hosts is cut into
\* branches that hold them all.
TreesExact ==
    (\A r \in Rank : stepd[r] = "absent") =>
        \A n \in 1..MaxNodes : \A w \in Widths : TreeExact(n, w) /\ SplitExact(n, w)
=============================================================================
