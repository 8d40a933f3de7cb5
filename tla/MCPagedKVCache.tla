---------------------------- MODULE MCPagedKVCache ----------------------------
(***************************************************************************)
(* A small instance of PagedKVCache.  Prompts of length one below, at, and *)
(* one above a block boundary that share a first block, and one that does  *)
(* not.                                                                    *)
(***************************************************************************)
EXTENDS PagedKVCache, TLC

CONSTANTS a, z, b1, b2, b3, b4, b5, s1, s2

MCPrompts == {<<a, z>>, <<a, z, a>>, <<a, z, z, a>>, <<z, a>>}

MCSymmetry == Permutations({b1, b2, b3, b4, b5}) \cup Permutations({s1, s2})
=============================================================================
