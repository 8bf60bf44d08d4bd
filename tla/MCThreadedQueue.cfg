CONSTANTS
  Keep = 2
  MaxPushes = 6
SPECIFICATION Spec
INVARIANTS CountCoversSize ExactlyOnce ClassOrder
CHECK_DEADLOCK FALSE
