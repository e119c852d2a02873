--------------------------- MODULE MCVoicePresence ---------------------------
(* Small instances of VoicePresence for TLC. *)
EXTENDS VoicePresence, TLC

CONSTANTS n1, n2, n3

\* Nicks other than the local participant's are interchangeable.
NickSymmetry == Permutations({n1, n2, n3} \cap (Nick \ {LocalNick}))
=============================================================================
