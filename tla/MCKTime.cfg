CONSTANT LastYear = 2037
SPECIFICATION Spec
INVARIANT SecondsSince1970
CHECK_DEADLOCK FALSE
