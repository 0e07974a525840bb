-------------------------- MODULE MCMemoryService --------------------------
(***************************************************************************)
(* Instances of MemoryService for TLC: a query covers one memory or all of *)
(* them, and the memories are close to one another or far apart.           *)
(***************************************************************************)
EXTENDS MemoryService, TLC

MCAreas == {{m} : m \in Memories} \cup {Memories}

MCNear(m) == Memories
MCFar(m) == {m}

Symmetry == Permutations(Requests)
FullSymmetry == Permutations(Requests) \cup Permutations(Memories)
=============================================================================
