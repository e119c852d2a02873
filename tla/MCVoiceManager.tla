--------------------------- MODULE MCVoiceManager ---------------------------
(* Small instances of VoiceManager for TLC. *)
EXTENDS VoiceManager, TLC

CONSTANTS n1, n2, n3

\* Nicks other than the local participant's are interchangeable.
NickSymmetry == Permutations({n1, n2, n3} \cap (Nick \ {LocalNick}))

\* So are bridge connections, and loops on the same channel.
ThreadSymmetry == NickSymmetry \cup Permutations(Dispatcher) \cup Permutations(Loop)
=============================================================================
