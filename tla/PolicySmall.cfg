SPECIFICATION Spec
CONSTANTS
  MaxSize = 3
  MaxRules = 2
  MaxText = 5
  LABEL_MAX = 3
INVARIANTS
  SchemaAgrees
  AcceptedIsServed
  OneReading
  AllowedEverywhere
  GrantIsShown
  StoredRuleWorks
CHECK_DEADLOCK FALSE
