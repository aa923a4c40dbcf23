----------------------------- MODULE MCS3Lister -----------------------------
(* Small buckets for S3Lister. *)
EXTENDS S3Lister, TLC

CONSTANTS r, a, b, ab, ac, abc, o1, o2, o3, o4

(* r/a/ab/abc/o1, r/a/ac/o2, r/b/o3, r/o4: more tasks than permits on two levels  *)
(* and, below the depth limit, a prefix (abc) that no task of its own lists.      *)
TreePrefixes == {r, a, b, ab, ac, abc}
TreeDepth == (r :> 1) @@ (a :> 2) @@ (b :> 2) @@ (ab :> 3) @@ (ac :> 3) @@ (abc :> 4)
TreeObjects == {o1, o2, o3, o4}
TreeAncestors == (o1 :> {r, a, ab, abc}) @@ (o2 :> {r, a, ac}) @@ (o3 :> {r, b})
                 @@ (o4 :> {r})

Parallel == [max_parallel_listings |-> 2, max_depth |-> 2, max_keys |-> 2,
             express |-> FALSE, allow_parallel_in_express |-> FALSE]

TreeConfigs ==
    { Parallel, [Parallel EXCEPT !.max_depth = 3], [Parallel EXCEPT !.max_keys = 1],
      [Parallel EXCEPT !.express = TRUE, !.allow_parallel_in_express = TRUE, !.max_depth = 1],
      [Parallel EXCEPT !.express = TRUE], [Parallel EXCEPT !.max_parallel_listings = 1] }

=============================================================================
