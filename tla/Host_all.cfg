SPECIFICATION Spec
CONSTANTS
  Conns = {"c", "d"}
  MaxIpc = 1
  Pages = {"p", "q"}
  MaxTickets = 1
  MaxSessions = 1
  MaxServices = 2
  Owners = {1, 2}
  Requests = {"r1", "r2"}
  OwnerOf <- AdmittedFor
  Backups = {"b"}
  MaxKeys = 3
  MaxFaults = 1
CHECK_DEADLOCK FALSE
INVARIANTS SessionsSound SecretsSound
PROPERTIES AnswersSound ClientSound LearningKept
