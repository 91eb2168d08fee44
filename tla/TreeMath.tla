------------------------------ MODULE TreeMath ------------------------------
(***************************************************************************)
(* The arithmetic of the two trees of nodes: reverse_tree_info() and       *)
(* reverse_tree_direct_children() of src/slurmd/common/reverse_tree_math.c *)
(* give a rank its place in the tree that collects completions; set_span() *)
(* of src/common/slurm_protocol_api.c and its callers cut a list of hosts  *)
(* into the branches of the tree that spreads a message.                   *)
(***************************************************************************)
EXTENDS Integers, Sequences, FiniteSets

LOCAL INSTANCE FiniteSetsExt
LOCAL INSTANCE Functions

\* int_pow
int_pow(num, power) == num ^ power

\* geometric_series: division truncates towards zero.
geometric_series(width, depth) ==
    IF width = 1 THEN 1 ELSE (int_pow(width, depth + 1) - 1) \div (width - 1)

\* dep: x counts the ranks of the levels below the root.
RECURSIVE DepLoop(_, _, _, _)
DepLoop(total, width, i, x) ==
    IF x < total - 1 THEN DepLoop(total, width, i + 1, x + int_pow(width, i)) ELSE i - 1

\* Mutant of dep: the root counts among the levels.
DepWithRoot(total, width) == DepLoop(total, width, 1, 1)

\* dep
dep(total, width) == DepLoop(total, width, 1, 0)

\* search_tree: a rank is a child of node or below one.
RECURSIVE search_tree(_, _, _, _, _)
search_tree(id, node, max_children, width, depth) ==
    LET next_children == (max_children \div width) - 1
        Child(i) == node + 1 + i * (next_children + 1)
        found == [parent |-> node, num_children |-> next_children, depth |-> depth + 1]
        inside == {i \in 0..(width - 1) : Child(i) < id /\ id < Child(i + 1)}
    IN  IF \E i \in 0..width : id = Child(i) THEN found
        ELSE IF inside = {} THEN [parent |-> -1, num_children |-> -1, depth |-> depth + 1]
        ELSE search_tree(id, Child(CHOOSE i \in inside : TRUE), next_children, width, depth + 1)

\* reverse_tree_info, for rank < num_nodes
reverse_tree_info(rank, num_nodes, width) ==
    LET s == search_tree(rank, 0, geometric_series(width, dep(num_nodes, width)), width, 0)
    IN  IF rank = 0
          THEN [parent |-> -1, num_children |-> num_nodes - 1, depth |-> 0]
          ELSE [s EXCEPT !.num_children =
                  IF rank + @ >= num_nodes THEN num_nodes - rank - 1 ELSE @]

\* reverse_tree_direct_children
reverse_tree_direct_children(rank, num_nodes, width, depth) ==
    LET sub_depth == dep(num_nodes, width) - depth
        child_distance == geometric_series(width, sub_depth) \div width
    IN  IF sub_depth = 0 THEN {}
        ELSE {rank + 1 + i * child_distance : i \in 0..(width - 1)} \cap 0..(num_nodes - 1)
-----------------------------------------------------------------------------
\* set_span: what the loop still has to do at branch i with left hosts.  A branch
\* that is empty so far takes one host more, which goes first.
RECURSIVE SpanLoop(_, _, _, _)
SpanLoop(tree_width, i, left, span) ==
    LET first == IF span[i] = 0 THEN 1 ELSE 0
    IN  IF left <= 0 THEN span
        ELSE IF tree_width - i >= left
          THEN IF first = 1 THEN span ELSE [span EXCEPT ![i] = @ + left]
        ELSE IF left <= tree_width
          THEN [span EXCEPT ![i] = @ + left - first]
        ELSE SpanLoop(tree_width, (i + 1) % tree_width, left - first - tree_width,
                      [span EXCEPT ![i] = @ + tree_width])

set_span(total, tree_width) ==
    LET empty == [i \in 0..(tree_width - 1) |-> 0]
    IN  IF total <= tree_width THEN empty ELSE SpanLoop(tree_width, 0, total, empty)

\* route_split_hostlist_treewidth: the sizes of the branches that the loop makes
\* of count hosts, from branch nhl on.
RECURSIVE Branches(_, _, _)
Branches(count, span, nhl) ==
    IF count <= 0 \/ nhl \notin DOMAIN span THEN <<>>
    ELSE <<IF span[nhl] < count THEN span[nhl] + 1 ELSE count>>
             \o Branches(count - span[nhl] - 1, span, nhl + 1)

route_split_hostlist_treewidth(count, tree_width) ==
    Branches(count, set_span(count, tree_width), 0)
-----------------------------------------------------------------------------
\* reverse_tree_info: the ranks below a rank are the num_children that follow it;
\* they are the subtrees of its children, at most width, without overlap and one
\* level deeper, no rank is deeper than the timeouts allow for, and
\* reverse_tree_direct_children finds just these children.
TreeExact(num_nodes, width) ==
    LET Ranks == 0..(num_nodes - 1)
        info == [r \in Ranks |-> reverse_tree_info(r, num_nodes, width)]
        kids == [r \in Ranks |-> {c \in Ranks : info[c].parent = r}]
        subtree == [r \in Ranks |-> r..(r + info[r].num_children)]
    IN  \A r \in Ranks :
          /\ subtree[r] = {r} \cup UNION {subtree[c] : c \in kids[r]}
          /\ Cardinality(subtree[r]) =
                1 + MapThenSumSet(LAMBDA c : Cardinality(subtree[c]), kids[r])
          /\ Cardinality(kids[r]) <= width
          /\ \A c \in kids[r] : c > r /\ info[c].depth = info[r].depth + 1
          /\ info[r].depth <= dep(num_nodes, width)
          /\ reverse_tree_direct_children(r, num_nodes, width, info[r].depth) = kids[r]

\* route_split_hostlist_treewidth: every host is in a branch, and there are no
\* more branches than the tree_width entries that the arrays have.
SplitExact(count, tree_width) ==
    LET sizes == route_split_hostlist_treewidth(count, tree_width)
    IN  /\ FoldFunction(+, 0, sizes) = count
        /\ \A i \in DOMAIN sizes : sizes[i] > 0
=============================================================================
