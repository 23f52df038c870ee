---------------------- MODULE MCTranslationUnitStore ----------------------
(* Instances of TranslationUnitStore for TLC. *)
EXTENDS TranslationUnitStore, TLC

CONSTANTS f1, f2, c1, c2, t1, t2, i1, i2

MCFiles == {f1, f2}
MCContents == {c1, c2}

\* Translation options of two devices; the lists differ in their -cl-std.
MCOptionLists == {<<"-cl-std=CL1.2">>, <<"-cl-std=CL3.0">>}

\* A file needs one unit and one index at a time.
TwoUnits == {t1, t2}
TwoIndexes == {i1, i2}

AnyOutcome == {"success", "failure"}
OnlySuccess == {"success"}

\* Handles are opaque: the store never compares or orders them.
HandleSymmetry == Permutations(UnitHandles) \cup Permutations(IndexHandles)
=============================================================================
