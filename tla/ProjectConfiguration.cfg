SPECIFICATION Spec
CONSTANTS
  Owner = owner
  Admin = admin
  Guest = guest
  None = None
  Kinds = {chat, embedding}
  Chat = chat
  Models = {m1, m2}
  Providers = {p1, p2}
  Rules = {r1}
  Agents = {a1, a2}
  Templates = {t1}
  Phases = {ph1, ph2}
  Requests = {q1, q2}
SYMMETRY IdSymmetry
CHECK_DEADLOCK FALSE
INVARIANT ReferencesHold
PROPERTIES OfferedModelsKeepTheirPrice AcceptedRunsStay
