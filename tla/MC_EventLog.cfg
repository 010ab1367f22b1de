SPECIFICATION Spec
CONSTANTS
  TaskRows = {task}
  JobRows = {job}
  Services = {c}
  Clients = {client}
  Direct = {client}
  Assigned = {"READY", "SUCCEEDED"}
  MaxSeq = 4
  Nobody = nobody
  Other = note
  nobody = nobody
  note = note
  c = c
  client = client
  task = task
  job = job
INVARIANTS EventLogTypeOK SequenceExact AuditTrail
PROPERTIES EventsInCommitOrder ImplementsLedger
