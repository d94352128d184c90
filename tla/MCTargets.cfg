\* Every configuration of up to two rules, then passes over two containers that
\* share an image.
CONSTANTS
  c1 = c1
  c2 = c2
  i1 = i1
  Containers = {c1, c2}
  Images = {i1}
  ImageOf <- SameImage
  RawRules <- MCRules
  ExcludeLists <- MCExclude
  RegistryLists <- MCRegistries
  Refs <- MCRefs
  Fleets <- MCFleets
  OwnLabels <- MCOwn
  ImageLabels <- MCImage
  PullLists <- MCPulls
  Digests = {"d1", "d2"}
  Absent = Absent
SPECIFICATION Spec
CHECK_DEADLOCK FALSE
INVARIANT RulesNeverCompete
INVARIANT OptOutHolds
INVARIANT ExcludedForOwnReason
INVARIANT ClaimIsFollowed
INVARIANT LinksAgreeWithNews
INVARIANT DigestNewsIsReal
