\* A few commands, transactions that raise, keys that expire.
CONSTANTS
  MaxSends = 4
  MaxFaults = 2
  MaxExpiries = 2
SPECIFICATION RedisSpec
INVARIANT RedisInv
PROPERTIES ImplementsQueue NeverStranded
CHECK_DEADLOCK FALSE
