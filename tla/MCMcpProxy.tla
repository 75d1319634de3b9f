----------------------------- MODULE MCMcpProxy -----------------------------
(* Instances of McpProxy for TLC.  Command ids, channels, sessions and keys  *)
(* are only compared for equality, so the safety run may permute them.       *)
EXTENDS McpProxy, TLC

Symmetry == Permutations(Commands) \cup Permutations(Channels)
            \cup Permutations(Sessions) \cup Permutations(Keys)
=============================================================================
