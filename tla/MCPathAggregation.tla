------------------------- MODULE MCPathAggregation --------------------------
(* Instances of PathAggregation for TLC. *)
EXTENDS PathAggregation

(* Two nodes of one component, the component itself, a second spelling of  *)
(* the first node's path, and a node below a name that is the root's.      *)
SomeNames == <<"/Robot/arm/c", "/xbot", "/xbot/a", "/xbot/b", "xbot/a">>
SomeSegments ==
    [n \in Range(SomeNames) |->
        CASE n = "/Robot/arm/c" -> <<"Robot", "arm", "c">>
          [] n = "/xbot" -> <<"xbot">>
          [] n = "/xbot/a" -> <<"xbot", "a">>
          [] n = "/xbot/b" -> <<"xbot", "b">>
          [] n = "xbot/a" -> <<"xbot", "a">>]
=============================================================================
