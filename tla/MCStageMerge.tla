---------------------------- MODULE MCStageMerge ----------------------------
(***************************************************************************)
(* Small instances of StageMerge for TLC.                                  *)
(***************************************************************************)
EXTENDS StageMerge, TLC

CONSTANTS i1, i2, d1, d2, big, u1, u2

OneId == {i1}
TwoIds == {i1, i2}
OneDoc == {d1}
TwoDocs == {d1, d2}
TwoDocsAndBig == {d1, d2, big}
BigDocs == {big}
NoDocs == {}
OneUpdater == {u1}
TwoUpdaters == {u1, u2}

\* Two ldp processes run the same code.
UpdaterSymmetry == Permutations(TwoUpdaters)

=============================================================================
