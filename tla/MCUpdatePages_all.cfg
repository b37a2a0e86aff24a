\* Both pages, two instances and up to four tasks, under the worst conditions each property allows.
CONSTANTS
  Slugs = {a, b}
  Home = a
  MaxTasks = 4
  MaxJobs = 2
  Envs <- PageEnvs
SPECIFICATION FairSpec
INVARIANTS OnePoll SupportShowsItsInstance
PROPERTIES PollStops ButtonsComeBack
CHECK_DEADLOCK FALSE
