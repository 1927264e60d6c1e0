\* One session whose filters, a bad one among them, change between starts and in callbacks
CONSTANTS
  t1 = t1
  t2 = t2
  h1 = h1
  h2 = h2
  p1 = p1
  p2 = p2
  c1 = c1
  c2 = c2
  include = include
  exclude = exclude
  bad = bad
  Null = Null
  Filters = {include, exclude, bad}
  IncludeFilters = {include}
  BadFilters = {bad}
  FilterPaths = {p1, p2}
  Matches <- SomeMatches
  Callbacks = {c1}
  Types = {"inotify", "kqueue"}
  Latencies = {0, 5}
  Supported = {"inotify"}
  Threads = {t1}
  MaxDepth = 2
  Handles = {h1}
  Paths = {p1}
  MaxFilters = 2
  Api <- AllApi
SPECIFICATION Spec
PROPERTY FiltersEffectiveAlways
CHECK_DEADLOCK FALSE
