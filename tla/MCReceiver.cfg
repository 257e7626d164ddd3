CONSTANTS
  us = us
  ja = ja
  InputSources <- MCInputSources
  RequestSeq <- MCRequestSeq
  MaxShell = 1
  MaxTasks = 2
SPECIFICATION Spec
INVARIANT SelectedAtMostOnce
