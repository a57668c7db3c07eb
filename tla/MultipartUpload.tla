--------------------------- MODULE MultipartUpload ---------------------------
(***************************************************************************)
(* fcgi_write_file_from_stream() of app/fcgi_write_file_from_stream.c: how *)
(* the file in a multipart/form-data request is copied to /tmp through a   *)
(* buffer of fixed size, and where its closing boundary is looked for.     *)
(*                                                                         *)
(* FCGX_GetStr() is assumed to return as many bytes as were asked for, but *)
(* at the end of the stream.  Offsets are those of the code, from 0; the   *)
(* byte at offset i of a sequence s is s[i + 1].                           *)
(***************************************************************************)
EXTENDS Integers, Sequences, FiniteSets

CONSTANTS
  BufferLen,   \* bufferLen (2048 in the code)
  Boundary,    \* boundary_text
  Byte,        \* the bytes that occur
  Uploads,     \* the requests
  MaxShort     \* how often write() writes less than it was given, for one buffer

\* The content type is multipart with a boundary, multipart without one, another one, or
\* missing; content_length; the bytes that come; the call that fails for this request.
ContentType == {"boundary", "no boundary", "other", "missing"}
Fault == {"none", "mkstemp", "read", "write"}
Upload == [type : ContentType, length : Nat, body : Seq(Byte), fault : Fault]

boundary_len == Len(Boundary)
data_start == <<"CR", "LF", "CR", "LF">>
data_end == <<"CR", "LF", "-", "-">>

ASSUME UploadAssumption ==
  /\ Boundary \in Seq(Byte)
  /\ BufferLen \in Nat \ {0}
  /\ Uploads \subseteq Upload
  /\ MaxShort \in Nat

VARIABLES
  upload,      \* the request
  pc,          \* start, loop, start_of_data, boundary, write, or done
  got,         \* how many bytes of the body have been read
  buffer,      \* the bytes in buffer[] that have been read
  filled,      \* bytes_read = available_len
  first,       \* loop_counter = 1
  p_payload, p_payload_end,    \* as offsets in buffer[]
  post_boundary_found,
  to_write, written,
  shorts,      \* how often write() has been short for this buffer
  file,        \* does the file in /tmp exist?
  stored,      \* what has been written to it
  outcome      \* none, accepted, rejected, crash, or undefined

chunk == <<got, buffer, filled, first>>
scan == <<p_payload, p_payload_end, post_boundary_found>>
output == <<to_write, written, shorts, stored>>
vars == <<upload, pc, chunk, scan, output, file, outcome>>

-------------------------------------------------------------------------------
\* memcmp(s + i, pattern, strlen(pattern)) == 0, and the first such i that strstr() or
\* the scan finds
MatchesAt(s, pattern, i) ==
  /\ i >= 0 /\ i + Len(pattern) <= Len(s)
  /\ \A k \in 1 .. Len(pattern) : s[i + k] = pattern[k]

FirstMatch(s, pattern, from, to, i) ==
  /\ i \in from .. to /\ MatchesAt(s, pattern, i)
  /\ \A j \in from .. i - 1 : ~MatchesAt(s, pattern, j)

Bytes(s, from, to) == SubSeq(s, from + 1, to)

\* The label end: the file is closed and, unless it is to be returned, removed.
End(o) ==
  /\ pc' = "done" /\ outcome' = o
  /\ file' = (file /\ o # "rejected")
  /\ UNCHANGED <<upload, chunk, scan, output>>

-------------------------------------------------------------------------------
\* A request without a content type makes strncmp() read NULL.
check_content_type ==
  /\ pc = "start"
  /\ \/ upload.type = "missing" /\ End("crash")
     \/ upload.type \in {"other", "no boundary"} /\ End("rejected")
     \/ upload.type = "boundary" /\ upload.fault = "mkstemp" /\ End("rejected")
     \/ /\ upload.type = "boundary" /\ upload.fault # "mkstemp"
        /\ file' = TRUE /\ pc' = "loop"
        /\ UNCHANGED <<upload, chunk, scan, output, outcome>>

\* The condition of the while loop.  Until the boundary is found,
\* total_bytes_processed counts the bytes that have been stored.
loop_Ends ==
  /\ pc = "loop" /\ Len(stored) >= upload.length
  /\ End("rejected")

FCGX_GetStr_Fails ==
  /\ pc = "loop" /\ upload.fault = "read"
  /\ Len(stored) < upload.length
  /\ End("rejected")

\* The bytes that were kept of the last buffer are not counted.
available_len_Bug == BufferLen

\* buffer[] begins with the bytes that were kept of the last one.
available_len == BufferLen - Len(buffer)

\* The end of the stream is not noticed.
IsFilled_Bug(bytes_read) == TRUE
IsFilled(bytes_read) == bytes_read = available_len

FCGX_GetStr ==
  /\ pc = "loop" /\ Len(stored) < upload.length
  /\ LET rest == Len(upload.body) - got
         bytes_read == IF rest < available_len THEN rest ELSE available_len
     IN  /\ buffer' = buffer \o Bytes(upload.body, got, got + bytes_read)
         /\ got' = got + bytes_read
         /\ filled' = IsFilled(bytes_read)
  /\ pc' = IF first THEN "start_of_data" ELSE "boundary"
  /\ p_payload' = 0
  /\ UNCHANGED <<upload, first, p_payload_end, post_boundary_found, output, file,
                 outcome>>

\* strstr() starts behind the first boundary: in memory that has not been written when
\* no more than that has come, or that is not in buffer[] when the boundary is longer.
\* If it finds nothing, p_payload is NULL + 4.
find_start_of_data ==
  /\ pc = "start_of_data"
  /\ \/ Len(buffer) <= boundary_len /\ End("undefined")
     \/ /\ Len(buffer) > boundary_len
        /\ \A i \in boundary_len + 1 .. Len(buffer) : ~MatchesAt(buffer, data_start, i)
        /\ End("crash")
     \/ /\ Len(buffer) > boundary_len
        /\ \E i \in boundary_len + 1 .. Len(buffer) :
             /\ FirstMatch(buffer, data_start, boundary_len + 1, Len(buffer), i)
             /\ p_payload' = i + Len(data_start)
        /\ pc' = "boundary"
        /\ UNCHANGED <<upload, chunk, p_payload_end, post_boundary_found, output, file,
                       outcome>>

\* write() is to write the bytes up to offset to.
Writes(to) ==
  /\ p_payload_end' = to
  /\ to_write' = IF to > p_payload THEN to - p_payload ELSE 0
  /\ written' = 0 /\ shorts' = 0
  /\ pc' = "write"
  /\ UNCHANGED <<upload, chunk, p_payload, stored, file, outcome>>

\* Room for data_end is left as well, which the end of the loop does not keep.
ScanEnd_Bug == Len(buffer) - boundary_len - Len(data_end)

\* The last boundary_len bytes are left to the next buffer.
ScanEnd == Len(buffer) - boundary_len

\* A boundary that is found at the beginning of a buffer is compared with what is in
\* memory before it: that is not data_end.
find_post_boundary ==
  /\ pc = "boundary"
  /\ \/ \E i \in p_payload .. ScanEnd - 1 :
          /\ FirstMatch(buffer, Boundary, p_payload, ScanEnd - 1, i)
          /\ \/ /\ MatchesAt(buffer, data_end, i - Len(data_end))
                /\ post_boundary_found' = TRUE
                /\ Writes(i - Len(data_end))
             \/ ~MatchesAt(buffer, data_end, i - Len(data_end)) /\ End("rejected")
     \/ /\ \A i \in p_payload .. ScanEnd - 1 : ~MatchesAt(buffer, Boundary, i)
        /\ Writes(IF p_payload < ScanEnd THEN ScanEnd ELSE p_payload)
        /\ UNCHANGED post_boundary_found

\* Each call of write() begins with the first byte.
WriteFrom_Bug == p_payload

\* The second of two calls of write() for a buffer goes on where the first has stopped,
\* but a third goes on as far behind p_payload as the second has written.
WriteFrom == p_payload + written

write ==
  /\ pc = "write" /\ to_write > 0
  /\ \E n \in 1 .. to_write :
       /\ n = to_write \/ shorts < MaxShort
       /\ stored' = stored \o Bytes(buffer, WriteFrom, WriteFrom + n)
       /\ written' = n
       /\ to_write' = to_write - n
       /\ shorts' = shorts + (IF n < to_write THEN 1 ELSE 0)
  /\ UNCHANGED <<upload, pc, chunk, scan, file, outcome>>

write_Fails ==
  /\ pc = "write" /\ to_write > 0 /\ upload.fault = "write"
  /\ End("rejected")

\* One byte is lost between two buffers.
Kept_Bug == Bytes(buffer, p_payload_end + 1, p_payload_end + boundary_len)

\* The bytes that follow the ones that have been written, so that a boundary may begin
\* among them
Kept == Bytes(buffer, p_payload_end, p_payload_end + boundary_len)

\* The end of the body of the loop.  If the data start within the last boundary_len
\* bytes, memory is kept that has not been written.
next_buffer ==
  /\ pc = "write" /\ to_write = 0
  /\ \/ post_boundary_found /\ End("accepted")
     \/ ~post_boundary_found /\ ~filled /\ End("rejected")
     \/ /\ ~post_boundary_found /\ filled
        /\ p_payload_end > ScanEnd
        /\ End("undefined")
     \/ /\ ~post_boundary_found /\ filled
        /\ p_payload_end <= ScanEnd
        /\ buffer' = Kept /\ first' = FALSE
        /\ pc' = "loop"
        /\ UNCHANGED <<upload, got, filled, scan, output, file, outcome>>

-------------------------------------------------------------------------------
Init ==
  /\ upload \in Uploads /\ pc = "start"
  /\ got = 0 /\ buffer = <<>> /\ filled = FALSE /\ first = TRUE
  /\ p_payload = 0 /\ p_payload_end = 0 /\ post_boundary_found = FALSE
  /\ to_write = 0 /\ written = 0 /\ shorts = 0 /\ stored = <<>>
  /\ file = FALSE /\ outcome = "none"

Next ==
  \/ check_content_type \/ loop_Ends \/ FCGX_GetStr_Fails \/ FCGX_GetStr
  \/ find_start_of_data \/ find_post_boundary \/ write \/ write_Fails \/ next_buffer

Spec == Init /\ [][Next]_vars
FairSpec == Spec /\ WF_vars(Next)

===============================================================================
