SPECIFICATION Spec
CONSTANTS
  None = None
  Gone = Gone
  q1 = q1
  q2 = q2
  q3 = q3
  q4 = q4
  Entries = {"gpt", "nova"}
  Shipped <- Registry
  Keys = {"k1", "k2"}
  Labels = {"primary", "failover"}
  Requests = {q1, q2, q3, q4}
  Documents = {"faq"}
  House = "house"
  Spaces = {"text-embedding-3-small", "voyage-3"}
  Submitted <- Drafts
  MaxVersions = 4
  Scenarios <- Situations
CHECK_DEADLOCK FALSE
SYMMETRY Interchangeable
INVARIANTS
  RowsSound
PROPERTIES
  ImportRestores
  KeepsToItsOwn
