SPECIFICATION Spec
CONSTANTS
  here = here
  there = there
  install = install
  build = build
  t1 = t1
  t2 = t2
  k1 = k1
  i1 = i1
  i2 = i2
  i3 = i3
  i4 = i4
  i5 = i5
  Commands = {"c1", "c2", "c3"}
  ProjectOf <- MCProjectOf
  MatcherOf <- MCMatcherOf
  Passes <- MCPasses
  ProjectRules <- MCProjectRules
  Tasks <- TwoTasks
  Clis <- OneCli
  Inodes <- FiveInodes
  MaxRules = 2
INVARIANTS SerialStore FlipsNotStacks NobodyInventsRules
PROPERTIES SimilarIsScoped
CHECK_DEADLOCK FALSE
