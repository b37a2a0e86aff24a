\* The detail page while somebody else starts updates too; answers keep their order.
CONSTANTS
  Slugs = {a, b}
  Home = a
  MaxTasks = 4
  MaxJobs = 2
  Envs <- OneOfTwo
SPECIFICATION FairSpec
PROPERTY NoStuckSpinner
CHECK_DEADLOCK FALSE
