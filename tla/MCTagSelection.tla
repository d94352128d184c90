--------------------------- MODULE MCTagSelection ---------------------------
EXTENDS TagSelection, SequencesExt

CONSTANT MaxList    \* length of the longest list

Tag(v, segs, pre, text) == [v |-> v, segs |-> segs, pre |-> pre, text |-> text]

\* "latest", "9", "1.2", "v1.2", "1.2.0", "1.02.0", "1.2-a", "1.3-a", "1.2.0.0", "v1.2.0.1", "1.10"
MCTags ==
  { Tag(FALSE, <<>>, 0, 0), Tag(FALSE, <<9>>, 0, 0),
    Tag(FALSE, <<1, 2>>, 0, 0), Tag(TRUE, <<1, 2>>, 0, 0),
    Tag(FALSE, <<1, 2, 0>>, 0, 1), Tag(FALSE, <<1, 2, 0>>, 0, 0),
    Tag(FALSE, <<1, 2>>, 1, 0), Tag(FALSE, <<1, 3>>, 1, 0),
    Tag(FALSE, <<1, 2, 0, 0>>, 0, 0), Tag(TRUE, <<1, 2, 0, 1>>, 0, 0),
    Tag(FALSE, <<1, 10>>, 0, 0) }

\* Lists without repetition.
MCLists == {l \in BoundedSeq(MCTags, MaxList) : IsInjective(l)}

\* Everything, the suffix "-a", a pin of "1.2".
MCFilters == {MCTags, {t \in MCTags : t.pre = 1}, {t \in MCTags : Len(t.segs) >= 2 /\ t.segs[2] = 2}}
=============================================================================
