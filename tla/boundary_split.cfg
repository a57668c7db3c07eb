\* The closing boundary of an upload may lie anywhere in a buffer.
SPECIFICATION Spec
CONSTANTS
  BufferLen = 16
  Boundary <- BoundaryText
  Byte <- SomeBytes
  Uploads <- Forms
  MaxShort = 0
INVARIANTS
  AcceptsEveryForm
\* The function returns.
CHECK_DEADLOCK FALSE
