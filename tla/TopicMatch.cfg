CONSTANTS
  MaxTopic = 4
  MaxExp = 4
  TopicStrings <- MCTopics
  ExpStrings <- MCExps
SPECIFICATION Spec
INVARIANTS CursorsInside ComputesMatch
PROPERTY Terminates
CHECK_DEADLOCK FALSE
