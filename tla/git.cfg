\* A clone, its worktree and the others who push to its remote.
CONSTANTS
  Branch = {main, feat}
  Default = main
  Tag = {v1}
  Path = {f}
  Content = {x, y}
  Absent = Absent
  None = None
  MaxCommits = 3
  MaxCalls = 6
SPECIFICATION Spec
SYMMETRY Symmetry
INVARIANTS  CommitIsWhatWasStaged
 
CHECK_DEADLOCK FALSE
