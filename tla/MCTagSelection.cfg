\* Eleven tags that differ in every way the comparison knows, lists of up to
\* three of them.
CONSTANTS
  MaxList = 3
  Tags <- MCTags
  Lists <- MCLists
  Filters <- MCFilters
  Unfiltered = Unfiltered
  NoTag = NoTag
SPECIFICATION Spec
CHECK_DEADLOCK FALSE
INVARIANT VerdictIsRight
INVARIANT ChoiceIgnoresOrder
INVARIANT FormKept
INVARIANT AdviceSettles
