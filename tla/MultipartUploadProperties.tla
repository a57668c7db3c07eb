----------------------- MODULE MultipartUploadProperties -----------------------
(***************************************************************************)
(* What fcgi_write_file_from_stream() promises its caller.                 *)
(***************************************************************************)
EXTENDS MultipartUpload

UploadTypeOK ==
  /\ upload \in Upload
  /\ pc \in {"start", "loop", "start_of_data", "boundary", "write", "done"}
  /\ got \in 0 .. Len(upload.body)
  /\ buffer \in Seq(Byte) /\ Len(buffer) <= BufferLen
  /\ filled \in BOOLEAN /\ first \in BOOLEAN
  /\ p_payload \in 0 .. BufferLen /\ p_payload_end \in 0 .. BufferLen
  /\ post_boundary_found \in BOOLEAN
  /\ to_write \in 0 .. BufferLen /\ written \in 0 .. BufferLen
  /\ shorts \in 0 .. MaxShort
  /\ stored \in Seq(Byte) /\ file \in BOOLEAN
  /\ outcome \in {"none", "accepted", "rejected", "crash", "undefined"}

-------------------------------------------------------------------------------
\* Safety

\* The file that is returned holds bytes of the request as they were sent, without a gap,
\* an insertion or a repetition where two buffers meet: from the end of a header up to a
\* delimiter.
StoredAsSent ==
  outcome = "accepted" =>
    \E s, t \in 0 .. Len(upload.body) :
      /\ MatchesAt(upload.body, data_start, s - Len(data_start))
      /\ MatchesAt(upload.body, data_end \o Boundary, t)
      /\ stored = Bytes(upload.body, s, t)

\* How far a buffer is from the next one, which begins with the last boundary_len bytes
Stride == BufferLen - boundary_len

\* The header ends at offset s, early enough for the first buffer.
HeaderEndsAt(u, s) ==
  /\ s <= Stride
  /\ FirstMatch(u.body, data_start, boundary_len + 1, Len(u.body), s - Len(data_start))

HasHeader(u) == \E s \in 0 .. Len(u.body) : HeaderEndsAt(u, s)

\* Only a request that has no header in the part of the first buffer that is not kept for
\* the next makes the function crash or leave its buffer: no later buffer does, whatever
\* it holds and however the stream ends or write() splits its work.
OverrunsOnlyWithoutHeader ==
  outcome \in {"crash", "undefined"} => upload.type = "missing" \/ ~HasHeader(upload)

\* A complete request whose header is within the first buffer, with one file between
\* offsets s and t that does not contain the boundary
IsForm(u, s, t) ==
  /\ u.type = "boundary" /\ u.fault = "none" /\ u.length = Len(u.body)
  /\ s <= t /\ HeaderEndsAt(u, s)
  /\ MatchesAt(u.body, data_end \o Boundary \o <<"-", "-", "CR", "LF">>, t)
  /\ Len(u.body) = t + 2 * Len(data_end) + boundary_len
  /\ \A i \in s .. t + Len(data_end) - 1 : ~MatchesAt(u.body, Boundary, i)

\* The closing boundary is at the beginning of a buffer but the first.
IsSplit(t) ==
  LET offset == t + Len(data_end)
  IN  offset >= Stride /\ offset % Stride < Len(data_end)

Accepts(s, t) == outcome = "accepted" /\ stored = Bytes(upload.body, s, t)

\* Every well-formed request is accepted, whatever its file contains, however long it is
\* and wherever the boundary lies (comment at the end of the loop: "Post boundary may
\* have been partial at payload end.  Ensure possible rematch").
AcceptsEveryForm ==
  pc = "done" =>
    \A s, t \in 0 .. Len(upload.body) : IsForm(upload, s, t) => Accepts(s, t)

\* The same, unless the boundary follows at the beginning of a buffer.
AcceptsUnlessSplit ==
  pc = "done" =>
    \A s, t \in 0 .. Len(upload.body) :
      IsForm(upload, s, t) /\ ~IsSplit(t) => Accepts(s, t)

-------------------------------------------------------------------------------
\* Liveness

\* How much is left to do: for each byte that has not been read, and for the call that
\* finds the end of the stream, at most one run of the loop; and the rest of this one.
Runs ==
  (Len(upload.body) - got) + (IF pc \in {"start", "loop"} \/ filled THEN 1 ELSE 0)

Stage ==
  [start |-> 1, loop |-> 0, start_of_data |-> BufferLen + 3, boundary |-> BufferLen + 2,
   write |-> to_write + 1, done |-> 0][pc]

Rank == IF pc = "done" THEN 0 ELSE Runs * (BufferLen + 4) + Stage

\* Every step leaves less to do, so that there are finitely many, for every request and
\* however often write() is short: a call of FCGX_GetStr() that reads nothing new is the
\* last (the part of Terminates that does not need fairness).
Advances == [][Rank' \in 0 .. Rank - 1]_vars

\* The function returns, or crashes, for every request and however write() splits its
\* work: the loop reads something new each time.
Terminates == <>(pc = "done")

-------------------------------------------------------------------------------
\* The inductive invariants behind the safety properties

\* The payload lies in the buffer, and write() is never given what lies behind it.  A
\* boundary for which there is no room does not come this far.
Offsets ==
  /\ pc \in {"boundary", "write"} \/ ~first => boundary_len < BufferLen
  /\ pc = "boundary" => p_payload <= Len(buffer)
  /\ pc = "write" =>
       /\ p_payload <= Len(buffer) /\ p_payload_end <= Len(buffer)
       /\ to_write > 0 => p_payload + written + to_write <= p_payload_end

\* There is room in the buffer for what is to be read.
Room == pc \in {"start", "loop"} => Len(buffer) < BufferLen

\* The buffer is a window of the body that ends at got.
Base == got - Len(buffer)

Window ==
  /\ Base \in Nat
  /\ \A k \in 1 .. Len(buffer) : buffer[k] = upload.body[Base + k]

\* The file holds the body from the end of its header up to offset x.
StoredUpTo(x) ==
  \E s \in 0 .. Len(upload.body) :
    /\ MatchesAt(upload.body, data_start, s - Len(data_start))
    /\ x \in s .. Len(upload.body)
    /\ stored = Bytes(upload.body, s, x)

\* Nothing has been stored before the header has been found; then the file ends where
\* the window goes on.
BeforeWriting ==
  /\ pc \in {"start", "start_of_data"} \/ (pc = "loop" /\ first) => stored = <<>>
  /\ pc = "loop" /\ ~first => StoredUpTo(Base)
  /\ pc = "boundary" => StoredUpTo(Base + p_payload) /\ (p_payload = 0 \/ stored = <<>>)
  /\ pc = "start" => first
  /\ pc \notin {"write", "done"} => ~post_boundary_found

\* While it is being written, the file ends before what is still to be written, unless a
\* delimiter that overlaps the end of the header leaves nothing to write.
WhileWriting ==
  pc = "write" =>
    /\ IF p_payload_end >= p_payload THEN StoredUpTo(Base + p_payload_end - to_write)
       ELSE StoredUpTo(Base + p_payload) /\ stored = <<>> /\ to_write = 0
    /\ to_write > 0 => written + to_write = p_payload_end - p_payload
    /\ to_write > 0 /\ shorts = 0 => written = 0
    /\ IF post_boundary_found THEN MatchesAt(buffer, data_end \o Boundary, p_payload_end)
       ELSE p_payload_end >= p_payload /\ p_payload_end >= ScanEnd

Sent ==
  /\ Window /\ BeforeWriting /\ WhileWriting
  /\ pc # "done" => outcome = "none"
  /\ StoredAsSent

\* The first buffer holds the beginning of the body, and every buffer that has been read
\* is full, or it holds the end of the body.
ReadsOn ==
  /\ pc = "start" => first
  /\ pc \in {"start", "loop"} /\ first => got = 0 /\ buffer = <<>>
  /\ pc = "start_of_data" => Base = 0 /\ Window
  /\ pc \in {"start_of_data", "boundary", "write"} =>
       IF filled THEN Len(buffer) = BufferLen ELSE got = Len(upload.body)

\* While a request with a header is read, the payload begins, and what is written ends,
\* before the bytes that are to be kept.
Within ==
  /\ pc = "boundary" => p_payload <= Stride
  /\ pc = "write" /\ ~post_boundary_found /\ filled => p_payload_end <= Stride
  /\ outcome \in {"crash", "undefined"} => upload.type = "missing"

HeaderInv == ReadsOn /\ (HasHeader(upload) => Within)

\* The file between s and t has been copied up to offset x, and a buffer begins at offset
\* base that is not behind its end.
CopiedUpTo(x, s, t) == x \in s .. t /\ stored = Bytes(upload.body, s, x)
InStep(base, s, t) == base \in s .. t /\ base % Stride = 0

\* Nothing keeps the function from copying the file between s and t as a whole: it has
\* not stopped, it has not passed the end, and what it has found is the end.
Copies(s, t) ==
  /\ pc = "loop" /\ ~first => InStep(Base, s, t) /\ CopiedUpTo(Base, s, t)
  /\ pc = "boundary" =>
       /\ \/ Base = 0 /\ p_payload = s
          \/ InStep(Base, s, t) /\ p_payload = 0
       /\ CopiedUpTo(Base + p_payload, s, t)
  /\ pc = "write" =>
       /\ CopiedUpTo(Base + p_payload_end - to_write, s, t)
       /\ IF post_boundary_found THEN Base + p_payload_end = t
          ELSE filled /\ p_payload_end = Stride /\ InStep(Base + Stride, s, t)
  /\ pc = "done" => Accepts(s, t)

CopyInv ==
  /\ ReadsOn
  /\ \A s, t \in 0 .. Len(upload.body) :
       IsForm(upload, s, t) /\ ~IsSplit(t) => Copies(s, t)

===============================================================================
