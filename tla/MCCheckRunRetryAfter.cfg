\* One container and one host: the retries of a single request.
CONSTANTS
  c1 = c1
  h1 = h1
  n1 = n1
  Containers = {c1}
  Hosts = {h1}
  Names = {n1}
  Nothing = Nothing
SPECIFICATION Spec
CHECK_DEADLOCK FALSE
INVARIANT OneRetryAfterPerRequest
