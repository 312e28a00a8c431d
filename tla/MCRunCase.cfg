\* After the last repair (MaxRepairs is a bound) nothing is asked any more.
CHECK_DEADLOCK FALSE
SPECIFICATION Spec
CONSTANTS
  MaxRepairs = 3
INVARIANTS ResultIsOfItsCase CountsMeanTheModelRan
