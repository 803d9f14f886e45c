CONSTANTS
  Clients = {"a"}
  Delays = {0, 1}
  MaxTime = 1
  MaxTasks = 3
SPECIFICATION FairSpec
CHECK_DEADLOCK FALSE
PROPERTY ReadyPostsAreDelivered
