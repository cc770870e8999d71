-------------------------- MODULE MCRocksDbKVCache --------------------------
(***************************************************************************)
(* Small instances of RocksDbKVCache.                                      *)
(***************************************************************************)
EXTENDS RocksDbKVCache, TLC

CONSTANTS t1, t2, w1, w2, d1, d2

MCThreads == {t1, t2}
Symmetry  == Permutations(MCThreads)
MCWords   == {w1, w2}
MCData    == {d1, d2}

Args(model, n, data, ttl) ==
    [model |-> model, seq |-> n, tok |-> n, data |-> data, ttl |-> ttl]

\* Two stores that differ in every field; the second one lives a second.
TwoStores == {Args(<<w1>>, 1, d1, 0), Args(<<w2>>, 2, d2, 1)}

\* The same, refused for want of a model id.
AndRefused == TwoStores \cup {Args(<<>>, 1, d1, 0)}

\* One store that lives a second.
Mortal == {Args(<<w1>>, 1, d1, 1)}

\* "" and the prefix of the second id alone.
AllPrefixes == {CacheIds, CacheIds \ {1}}
OnePrefix   == {CacheIds}

\* A negative limit is no limit.
NoLimit == {-1}
=============================================================================
