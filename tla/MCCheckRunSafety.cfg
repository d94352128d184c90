\* Three containers, two hosts, one name: twins and siblings on one host and
\* strangers on the other.
CONSTANTS
  c1 = c1
  c2 = c2
  c3 = c3
  h1 = h1
  h2 = h2
  n1 = n1
  Containers = {c1, c2, c3}
  Hosts = {h1, h2}
  Names = {n1}
  Nothing = Nothing
SYMMETRY Symmetry
SPECIFICATION Spec
CHECK_DEADLOCK FALSE
INVARIANT FetchedOncePerPass
INVARIANT RateLimitedHostLeftAlone
INVARIANT TwinsAgree
INVARIANT SkipsComeFromOwnRegistry
PROPERTY MarkIsEarned
PROPERTY CancelIsNoSkip
