SPECIFICATION RoundtripSpec
CONSTANTS
  Budget = 6
  Poll = 2
  MaxTasks = 3
  Paths = {p1, p2}
  Texts = {t1, t2}
  Null = Null
  NoApp = NoApp
  Tasks = {Task, OtherTask}
  Task = Task
  Session = Session
  MaxIxs = 2
  None = None
INVARIANTS RoundtripTypeOK TurnsOnTheRightTier PromotesWhatIsDone SignsInTurn SubmitsWhatWentLive
PROPERTIES RoundEnds
CHECK_DEADLOCK FALSE
