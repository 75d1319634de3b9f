--------------------------- MODULE MCChatSessions ---------------------------
(* Instances of ChatSessions for TLC.  Turn, session and marker ids are only *)
(* compared for equality, so the safety runs may permute them.               *)
EXTENDS ChatSessions, TLC

Symmetry == Permutations(Sessions) \cup Permutations(Turns)
            \cup Permutations(Markers)
=============================================================================
