\* Files of every length that spread over up to four buffers; write() may be short once
\* for each buffer.
SPECIFICATION FairSpec
CONSTANTS
  BufferLen = 16
  Boundary <- BoundaryText
  Byte <- SomeBytes
  Uploads <- SomeUploads
  MaxShort = 1
INVARIANTS
  UploadTypeOK
  StoredAsSent
  
  AcceptsUnlessSplit
PROPERTIES
  Terminates
  Advances
\* The function returns.
CHECK_DEADLOCK FALSE
