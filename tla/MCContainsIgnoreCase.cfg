SPECIFICATION Spec
CONSTANT Strings <- MCStrings
INVARIANTS Correct NoPanic
PROPERTY Terminates
CHECK_DEADLOCK FALSE
