--------------------------- MODULE MCMemoryBackend ---------------------------
(***************************************************************************)
(* TLC instances of MemoryBackend.                                         *)
(***************************************************************************)
EXTENDS MemoryBackend, TLC

CONSTANTS g1, g2, k1, k2

\* A key that both goroutines serve and one of them blocks, and a key that is
\* served by one goroutine and pushes the other one out of the cache.
ServeSome ==
  ({g1} \X {k1} \X {"allow", "block", "unblock"})
    \cup ({g2} \X {k1} \X {"allow", "isBlocked"})
    \cup ({g1} \X {k2} \X {"allow", "violate"})
\* One goroutine that only asks for admission.
ServeOne == {<<g1, k1, "allow">>}

IdSymmetry == Permutations(Ids)
=============================================================================
