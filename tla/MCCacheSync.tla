---------------------------- MODULE MCCacheSync ----------------------------
(* A web server that may serve two repositories, a mirror of the second,   *)
(* and the first as a directory. Between the two listings, one package     *)
(* comes or goes and the other one's metadata changes.                     *)
EXTENDS CacheSync, TLC

CONSTANTS bptA, bptB, web, mirror, dir, stable, beta, m1, m2

MCServes == [u \in Urls |-> 
                CASE u = web -> {stable, beta} [] u = mirror -> {beta} [] u = dir -> {stable}]
Listing1 == [lib |-> m1, app |-> m1]
Listing2 == [lib |-> Invalid, app |-> m2]
MCListings == {Listing1, Listing2}
MCFileUrls == Urls \cap {dir}

(* Every server allows caching, and the directory has the first listing,   *)
(* to begin with.                                                          *)
MCInit == /\ Init
          /\ \A u \in Urls : IF u \in FileUrls THEN server[u].content.listing = Listing1
                             ELSE server[u].cache_control = "max-age"
MCSpec == MCInit /\ [][Next]_vars

Symmetry == Permutations(Procs)
=============================================================================
