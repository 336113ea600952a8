-------------------------- MODULE MCBoardsStorage --------------------------
(* Boards and keys are alike, for TLC. *)
EXTENDS BoardsStorage, TLC

MCNotInstalled == {NotInstalled}
MCLegacyValues == {None, NotInstalled} \cup [Boards -> Keys]

MCSymmetry == Permutations(Boards) \cup Permutations(Keys)
=============================================================================
