CONSTANTS
  None = None
  Exit = Exit
  Endless = Endless
  Alias = Alias
  True = True
  Env <- MCEnv
  Files <- MCFiles
  Plans <- MCPlans
  MaxPollRetries = 2
  CmdLines <- MCArrayCmdLines
  Hashes <- MCHashes
  Kinds = {"lsf"}
  Ends <- MCEnds
  BsubAnswers = {"sent", "refused", "no job id", "timeout"}
  Opens = {TRUE, FALSE}
  LintReports <- MCLintReports
  Interrupts = FALSE
  ServerAnswers <- MCServerAnswers
  PastResults <- MCPast
  LinkCount = 2
  HistoryLimit = 2
SPECIFICATION Spec
INVARIANT BsubAfterAll
CHECK_DEADLOCK FALSE
