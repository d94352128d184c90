\* Two containers on one HTTP/2 host: connections fall silent, attempts time out
\* and are retried, and tag lists come in up to two pages.
CONSTANTS
  c1 = c1
  c2 = c2
  h1 = h1
  n1 = n1
  Containers = {c1, c2}
  Hosts = {h1}
  Http2 = {h1}
  Names = {n1}
  Nothing = Nothing
  Attempts = 3
  MaxPages = 2
  DialTimeout = 5
  TlsTimeout = 8
  HeaderTimeout = 10
  Backoff <- Pauses
  TryTime = 13
  Deadline = 30
SPECIFICATION ClientSpec
CHECK_DEADLOCK FALSE
PROPERTY StuckSocketsAreSurvived
PROPERTY AnswersAreWhole
PROPERTY PassEnds
