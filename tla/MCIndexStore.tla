---------------------------- MODULE MCIndexStore ----------------------------
\* Three paths, one file to a shard: a base of up to three shards.  Overlays rewrite
\* the middle file, delete the first and add the last; the index to import has a
\* shard over two paths and an overlay that changes one of them.
EXTENDS IndexStore

MCPaths == 1..3
MCBuilds == {1 :> 1 @@ 2 :> 1 @@ 3 :> 0}
MCBatches == {2 :> 2, 1 :> 0 @@ 2 :> 0, 1 :> 0 @@ 3 :> 1}
MCPrebuilt ==
    <<[kind |-> "shard", lo |-> 0, content |-> 1 :> 2 @@ 2 :> 1],
      [kind |-> "overlay", lo |-> 0, content |-> 1 :> 0 @@ 3 :> 2]>>
=============================================================================
