\* A callback destroys its own session, or calls the API while another thread
\* destroys the session or starts it too
CONSTANTS
  t1 = t1
  t2 = t2
  h1 = h1
  h2 = h2
  p1 = p1
  p2 = p2
  c1 = c1
  c2 = c2
  include = include
  exclude = exclude
  bad = bad
  Null = Null
  Filters = {include, exclude, bad}
  IncludeFilters = {include}
  BadFilters = {bad}
  FilterPaths = {p1, p2}
  Matches <- SomeMatches
  Callbacks = {c1}
  Types = {"inotify"}
  Supported = {"inotify"}
  Latencies = {0}
  Threads = {t1, t2}
  MaxDepth = 2
  Handles = {h1}
  Paths = {p1, p2}
  MaxFilters = 0
  Api <- LockApi
SPECIFICATION Spec
INVARIANT NoCircularWait
CHECK_DEADLOCK FALSE
