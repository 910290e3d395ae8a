---------------------------- MODULE MCResponseCache ----------------------------
(* Instances of ResponseCache for TLC: the detail page of an application (1 h in
   the code) and its trust page (60 s), which share their tags; "apps" stands for
   the tags every catalogue page shares. *)
EXTENDS ResponseCache, TLC

CONSTANTS detail, trust

MCTagsOf == [k \in Keys |-> {"apps", "app"}]
MCOneTag == [k \in Keys |-> {"apps"}]
MCOneTtl == [k \in Keys |-> 1]
MCTtl    == [k \in Keys |-> IF k = detail THEN 2 ELSE 1]

Symmetry == Permutations(Processes) \cup Permutations(Requests)
================================================================================
