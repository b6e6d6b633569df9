CONSTANTS
  None = None
  Exit = Exit
  Endless = Endless
  Alias = Alias
  True = True
  Env <- MCEnv
  Files <- MCFiles
  Plans <- MCPlans
  MaxPollRetries = 2
  CmdLines <- MCCmdLines
  Hashes <- MCHashes
  Kinds = {"local", "lsf"}
  Ends <- MCEnds
  BsubAnswers = {"sent", "refused", "no job id", "timeout"}
  Opens = {TRUE, FALSE}
  LintReports <- MCLintReports
  Interrupts = TRUE
  ServerAnswers <- MCServerAnswers
  PastResults <- MCPast
  LinkCount = 2
  HistoryLimit = 2
SPECIFICATION Spec
INVARIANTS OptionsReachJobs StatusEarned MergeSeesPassing ResultsAccount
CHECK_DEADLOCK FALSE
