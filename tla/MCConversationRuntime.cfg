SPECIFICATION Spec
CONSTANTS
  Conversations = {c1, c2}
  KeyModulus = 8
  MaxAttempts = 2
  MaxQueued = 1
  MaxRestarts = 0
SYMMETRY Symmetry
\* every attempt and every restart may have been used up
CHECK_DEADLOCK FALSE
INVARIANTS
  TypeOK
  LiveAttemptIsRegistered
  PublicationsReachRegistry
  EventsFollowTheEntry
PROPERTIES
  NoDecisionAfterCancel
