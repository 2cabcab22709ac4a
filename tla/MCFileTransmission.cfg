CONSTANTS
  N = 2
  MaxTasks = 2
  MaxResumes = 1
  MaxMishaps = 1
SPECIFICATION Spec
VIEW View
INVARIANT ActiveIsQueued
PROPERTIES ImplementsCopy EvictedOnlyOvertaken
CHECK_DEADLOCK FALSE
