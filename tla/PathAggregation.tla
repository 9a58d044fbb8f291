-------------------------- MODULE PathAggregation ---------------------------
(***************************************************************************)
(* What RosDiagnosticsSink publishes: the state of the aggregator as a     *)
(* tree of paths under a root, with a status at every node of the tree     *)
(* (_build_aggregated_statuses).  A name is split at its slashes, so a     *)
(* path is a sequence of segments and two names may have the same path.    *)
(* The call is cut at the iterations of its loop over the states: what it  *)
(* has gathered so far is a variable.  How often it is made is in          *)
(* RateLimitedSink.                                                        *)
(***************************************************************************)
EXTENDS Integers, FiniteSetsExt, SequencesExt

CONSTANTS
    Names,          \* node names, in the order sorted() gives them
    SegmentsOf,     \* for each name, its segments
    Root,           \* aggregation_root
    StatusLevels,   \* levels of a status
    Absent          \* the level of a name that has not reported

ASSUME NamesAssumption ==
    /\ Names \in Seq(Range(Names)) /\ IsInjective(Names)
    /\ SegmentsOf \in [Range(Names) -> Seq(STRING)]
    /\ Root \in STRING
ASSUME PathLevelsAssumption == StatusLevels \subseteq 0..255 /\ Absent \notin StatusLevels

VARIABLES
    states,         \* the level of each name in the dictionary of states
    turn,           \* the iteration of the loop, 0 outside a call
    tree,           \* leaf_statuses and group_levels
    published       \* the array: for each of its paths a level and whose it is

treeVars == <<states, turn, tree, published>>

Known == {n \in Range(Names) : states[n] # Absent}

-----------------------------------------------------------------------------
(* _aggregate_segments: the root comes first, once.                        *)
PathOf_RootTwice(n) == <<Root>> \o SegmentsOf[n]
PathOf(n) ==
    LET segments == SegmentsOf[n]
    IN  <<Root>> \o IF segments # <<>> /\ Head(segments) = Root THEN Tail(segments) ELSE segments

Prefixes_Strict(path) == {SubSeq(path, 1, length) : length \in 1..(Len(path) - 1)}
PrefixesOf(path) == {SubSeq(path, 1, length) : length \in 1..Len(path)}

(* One iteration: the leaf of a name replaces an earlier one of the same   *)
(* path, and every prefix takes the worse of the two levels.               *)
Worse_Latest(groups, path, level) == level
Worse(groups, path, level) == IF path \in DOMAIN groups THEN Max({groups[path], level}) ELSE level

Add(sofar, n, level) ==
    LET path == PathOf(n) IN
    [leaves |-> [p \in DOMAIN sofar.leaves \union {path} |-> IF p = path THEN level ELSE sofar.leaves[p]],
     groups |-> [p \in DOMAIN sofar.groups \union PrefixesOf(path) |->
                    IF p \in PrefixesOf(path) THEN Worse(sofar.groups, p, level) ELSE sofar.groups[p]]]

EmptyTree == [leaves |-> <<>>, groups |-> <<>>]

(* The array: the status of a leaf, or else the level of the group.        *)
StatusesOf(sofar) ==
    [p \in DOMAIN sofar.groups |->
        IF p \in DOMAIN sofar.leaves THEN [kind |-> "leaf", level |-> sofar.leaves[p]]
                                     ELSE [kind |-> "group", level |-> sofar.groups[p]]]

TreeInit ==
    /\ states = [n \in Range(Names) |-> Absent]
    /\ turn = 0
    /\ tree = EmptyTree
    /\ published = <<>>

(* A report or an expiry changes a state, and the array is built anew.     *)
BeginArray(n, level) ==
    /\ turn = 0
    /\ states' = [states EXCEPT ![n] = level]
    /\ turn' = 1
    /\ tree' = EmptyTree
    /\ UNCHANGED published

(* Names without a state are not in the dictionary.                        *)
AddState ==
    /\ turn \in DOMAIN Names
    /\ tree' = IF states[Names[turn]] = Absent THEN tree
               ELSE Add(tree, Names[turn], states[Names[turn]])
    /\ turn' = turn + 1
    /\ UNCHANGED <<states, published>>

PublishArray ==
    /\ turn = Len(Names) + 1
    /\ published' = StatusesOf(tree)
    /\ turn' = 0
    /\ UNCHANGED <<states, tree>>

TreeNext ==
    \/ \E n \in Range(Names), level \in StatusLevels : BeginArray(n, level)
    \/ AddState
    \/ PublishArray

TreeSpec == TreeInit /\ [][TreeNext]_treeVars

-----------------------------------------------------------------------------
(* Properties, of the array as a whole and not of how it was built.        *)

Complete == turn = 0
At(path) == {n \in Known : PathOf(n) = path}
Below(path) == {n \in Known : path \in PrefixesOf(PathOf(n))}

(* The array is a tree with nothing else in it: every path but the root    *)
(* has its parent in it, the root is repeated only for a name that repeats *)
(* it itself, and every path leads to some node.                           *)
IsTree ==
    Complete =>
        /\ Known # {} => <<Root>> \in DOMAIN published
        /\ \A p \in DOMAIN published :
               /\ p[1] = Root
               /\ Len(p) > 1 /\ p[2] = Root =>
                      \E n \in Below(p) : Len(SegmentsOf[n]) > 1 /\ SegmentsOf[n][2] = Root
               /\ Len(p) > 1 => Front(p) \in DOMAIN published
               /\ Below(p) # {}

(* A group nobody reports for has the worst level below it, at any depth.  *)
(* Where a node does report, its own status takes the place of the group.  *)
GroupIsWorst ==
    Complete =>
        \A p \in DOMAIN published :
            At(p) = {} => published[p].level = Max({states[n] : n \in Below(p)})

(* A node with a path of its own is shown with its own level.              *)
LeafIsFaithful ==
    Complete =>
        \A n \in Known : At(PathOf(n)) = {n} =>
            PathOf(n) \in DOMAIN published /\ published[PathOf(n)].level = states[n]
=============================================================================
