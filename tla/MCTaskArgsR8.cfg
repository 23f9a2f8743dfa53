SPECIFICATION ArgsSpec
CONSTANTS
  ArgSizes = {1, 2, 3, 4, 8}
  MaxArgs = 5
  StackSizes = {10, 64}
\* The call returns.
CHECK_DEADLOCK FALSE
INVARIANT ArgumentsFound
