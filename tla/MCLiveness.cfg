CONSTANTS
  States = {s1, s2, s3, s4}
  NoState = nobody
SPECIFICATION Spec
CHECK_DEADLOCK FALSE
PROPERTIES Answered 
