SPECIFICATION Spec
CONSTANTS
  BUFSIZ = 2
  Scenarios <- OneKill
INVARIANT Resumes
