SPECIFICATION Spec
CONSTANTS
  Length = 2
  Errno = 5
  Entries = 1
  MaxTasks = 2
PROPERTIES
  IoTasksFinish
