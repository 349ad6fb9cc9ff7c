----------------------------- MODULE MCSendPath -----------------------------
(* Model values and symmetry for the runs of SendPath. *)
EXTENDS SendPath, TLC

CONSTANTS c1, c2, c3, o1, o2

TwoCmds   == {c1, c2}
ThreeCmds == {c1, c2, c3}
TwoIds    == {o1, o2}
AllFaults == FaultKinds
\* Faults that refuse a command before its outbox id is stored.
RefusalFaults == {"known_io", "insert_io"}
NoFaults  == {}
Jumps     == {2, 5}
OneJump   == {2}
TextOnly  == {"text"}
BothKinds == {"text", "media"}

\* Commands and outbox ids are interchangeable.
Symmetry22 == Permutations(TwoCmds) \cup Permutations(TwoIds)
Symmetry32 == Permutations(ThreeCmds) \cup Permutations(TwoIds)
=============================================================================
