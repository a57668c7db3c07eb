------------------------ MODULE MultipartForms_proofs ------------------------
(***************************************************************************)
(* Proof that fcgi_write_file_from_stream() accepts every well-formed      *)
(* request whose closing boundary does not follow at the beginning of a    *)
(* buffer, and copies its file as a whole: for every size of the buffer,   *)
(* every boundary and every file.                                          *)
(***************************************************************************)
EXTENDS MultipartUpload_proofs

-------------------------------------------------------------------------------
\* Remainders

\* The remainder of a multiple and less than one more
LEMMA RemainderOfSum ==
  ASSUME NEW j \in Nat, NEW d \in Nat \ {0}, NEW r \in 0 .. d - 1
  PROVE  (j * d + r) % d = r
BY SMT

\* What divides without a remainder is a multiple.
LEMMA IsMultiple ==
  ASSUME NEW a \in Nat, NEW d \in Nat \ {0}, a % d = 0
  PROVE  a \div d \in Nat /\ a = (a \div d) * d
BY SMT

\* The next multiple
LEMMA NextMultiple ==
  ASSUME NEW a \in Nat, NEW d \in Nat \ {0}, a % d = 0
  PROVE  (a + d) % d = 0
<1> DEFINE j == a \div d
<1>1. j \in Nat /\ a = j * d
  BY IsMultiple
<1>2. a + d = (j + 1) * d + 0 /\ j + 1 \in Nat /\ 0 \in 0 .. d - 1
  BY <1>1, SMT
<1> HIDE DEF j
<1> QED
  BY <1>2, RemainderOfSum, Zenon

\* What lies behind a multiple by less than k has a remainder less than k.
LEMMA BehindMultiple ==
  ASSUME NEW a \in Nat, NEW d \in Nat \ {0}, a % d = 0,
         NEW k \in Nat, NEW r \in Nat, r < k
  PROVE  (a + r) % d < k
<1> DEFINE j == a \div d
<1>1. j \in Nat /\ a = j * d
  BY IsMultiple
<1> HIDE DEF j
<1>2. CASE r < d
  <2>1. r \in 0 .. d - 1
    BY <1>2
  <2>2. (a + r) % d = r
    BY <1>1, <2>1, RemainderOfSum, Zenon
  <2> QED
    BY <2>2
<1>3. CASE ~(r < d)
  <2>1. a + r \in Nat
    OBVIOUS
  <2>2. (a + r) % d < d
    BY <2>1, SMT
  <2>3. (a + r) % d \in Nat
    BY <2>1, SMT
  <2> QED
    BY <1>3, <2>2, <2>3
<1> QED
  BY <1>2, <1>3

-------------------------------------------------------------------------------
\* Where the parts of a request are

\* A pattern that is found has its parts where they should be.
LEMMA MatchesParts ==
  ASSUME NEW S, NEW p \in Seq(S), NEW q \in Seq(S), NEW s, NEW i \in Int,
         Len(s) \in Nat, MatchesAt(s, p \o q, i)
  PROVE  MatchesAt(s, p, i) /\ MatchesAt(s, q, i + Len(p))
<1>0. Len(p) \in Nat /\ Len(q) \in Nat
  BY LenProperties
<1>1. /\ Len(p \o q) = Len(p) + Len(q)
      /\ \A k \in 1 .. Len(p) + Len(q) :
           (p \o q)[k] = IF k <= Len(p) THEN p[k] ELSE q[k - Len(p)]
  BY ConcatProperties
<1>2. /\ i >= 0 /\ i + (Len(p) + Len(q)) <= Len(s)
      /\ \A k \in 1 .. Len(p) + Len(q) : s[i + k] = (p \o q)[k]
  BY <1>1 DEF MatchesAt
<1>3. ASSUME NEW k \in 1 .. Len(p) PROVE s[i + k] = p[k]
  <2>1. k \in 1 .. Len(p) + Len(q)
    BY <1>0
  <2> QED
    BY <1>1, <1>2, <2>1
<1>4. ASSUME NEW k \in 1 .. Len(q) PROVE s[(i + Len(p)) + k] = q[k]
  <2>1. Len(p) + k \in 1 .. Len(p) + Len(q) /\ ~(Len(p) + k <= Len(p))
    BY <1>0
  <2>2. (Len(p) + k) - Len(p) = k /\ i + (Len(p) + k) = (i + Len(p)) + k
    BY <1>0
  <2>3. s[i + (Len(p) + k)] = q[(Len(p) + k) - Len(p)]
    BY <1>1, <1>2, <2>1
  <2> QED
    BY <2>2, <2>3
<1> QED
  BY <1>0, <1>2, <1>3, <1>4 DEF MatchesAt

\* The request is well-formed, with its file between s and t.
Fits(s, t) ==
  /\ s \in 0 .. Len(upload.body) /\ t \in 0 .. Len(upload.body)
  /\ IsForm(upload, s, t) /\ ~IsSplit(t)

\* What is where in a well-formed request
LEMMA FormParts ==
  ASSUME Typed, NEW s, NEW t, Fits(s, t)
  PROVE  /\ s \in Nat /\ t \in Nat /\ s <= t /\ s <= Stride /\ Stride \in Nat \ {0}
         /\ BufferLen = Stride + boundary_len
         /\ s - 4 >= boundary_len + 1
         /\ FirstMatch(upload.body, data_start, boundary_len + 1, Len(upload.body), s - 4)
         /\ MatchesAt(upload.body, data_end, t)
         /\ MatchesAt(upload.body, Boundary, t + 4)
         /\ Len(upload.body) = t + 8 + boundary_len /\ upload.length = Len(upload.body)
         /\ \A i \in s .. t + 3 : ~MatchesAt(upload.body, Boundary, i)
         /\ upload.type = "boundary" /\ upload.fault = "none"
<1>0. /\ upload.body \in Seq(Byte) /\ Len(upload.body) \in Nat
      /\ s \in Nat /\ t \in Nat /\ t \in Int
  BY Patterns DEF Typed, UploadTypeOK, Fits
<1>1. /\ upload.type = "boundary" /\ upload.fault = "none"
      /\ upload.length = Len(upload.body) /\ s <= t /\ s <= Stride
      /\ FirstMatch(upload.body, data_start, boundary_len + 1, Len(upload.body), s - 4)
      /\ MatchesAt(upload.body, data_end \o Boundary \o <<"-", "-", "CR", "LF">>, t)
      /\ Len(upload.body) = t + 2 * Len(data_end) + boundary_len
      /\ \A i \in s .. t + Len(data_end) - 1 : ~MatchesAt(upload.body, Boundary, i)
  BY Patterns DEF Fits, IsForm, HeaderEndsAt
<1>3. s - 4 >= boundary_len + 1
  BY <1>1, Patterns DEF FirstMatch
<1>2. Stride \in Nat \ {0} /\ BufferLen = Stride + boundary_len
  BY <1>0, <1>1, <1>3, Patterns DEF Stride
<1> DEFINE S == Byte \cup {"CR", "LF", "-"}
           last == <<"-", "-", "CR", "LF">>
<1>4. data_end \in Seq(S) /\ Boundary \in Seq(S) /\ last \in Seq(S)
  <2>1. last \in Seq({"CR", "LF", "-"})
    OBVIOUS
  <2> QED
    BY <2>1, Patterns, SeqMonotonic
<1> HIDE DEF S, last
<1>5. data_end \o Boundary \in Seq(S)
  BY <1>4, ConcatProperties
<1>6. MatchesAt(upload.body, (data_end \o Boundary) \o last, t)
  BY <1>1 DEF last
<1>7. MatchesAt(upload.body, data_end \o Boundary, t)
  BY <1>0, <1>4, <1>5, <1>6, MatchesParts
<1>8. MatchesAt(upload.body, data_end, t) /\ MatchesAt(upload.body, Boundary, t + 4)
  BY <1>0, <1>4, <1>7, MatchesParts, Patterns
<1> QED
  BY <1>0, <1>1, <1>2, <1>3, <1>8, Patterns

\* The numbers in a state of the right type while such a request is read
LEMMA FormNumbers ==
  ASSUME Typed, Window, NEW s, NEW t, Fits(s, t)
  PROVE  /\ s \in Nat /\ t \in Nat /\ s <= t /\ s <= Stride /\ Stride \in Nat \ {0}
         /\ BufferLen = Stride + boundary_len /\ BufferLen \in Nat
         /\ boundary_len \in Nat /\ s - 4 >= boundary_len + 1
         /\ Base \in Nat /\ Base = got - Len(buffer) /\ got \in 0 .. Len(upload.body)
         /\ got \in Nat /\ Len(buffer) \in Nat /\ Len(upload.body) = t + 8 + boundary_len
         /\ p_payload \in Nat /\ p_payload_end \in Nat /\ to_write \in Nat
         /\ ScanEnd \in Int /\ ScanEnd = Len(buffer) - boundary_len
         /\ upload.body \in Seq(Byte) /\ buffer \in Seq(Byte) /\ Boundary \in Seq(Byte)
<1>1. /\ s \in Nat /\ t \in Nat /\ s <= t /\ s <= Stride /\ Stride \in Nat \ {0}
      /\ BufferLen = Stride + boundary_len /\ s - 4 >= boundary_len + 1
      /\ Len(upload.body) = t + 8 + boundary_len
  BY FormParts
<1>2. /\ BufferLen \in Nat /\ boundary_len \in Nat /\ Boundary \in Seq(Byte)
  BY Patterns
<1>3. /\ Base \in Nat /\ Base = got - Len(buffer)
      /\ upload.body \in Seq(Byte) /\ buffer \in Seq(Byte)
  BY WindowNumbers
<1>4. /\ got \in 0 .. Len(upload.body) /\ got \in Nat /\ Len(buffer) \in Nat
      /\ p_payload \in Nat /\ p_payload_end \in Nat /\ to_write \in Nat
      /\ ScanEnd \in Int /\ ScanEnd = Len(buffer) - boundary_len
  BY TypedNumbers
<1> QED
  BY <1>1, <1>2, <1>3, <1>4

\* A buffer that begins before the closing boundary begins at least four bytes before
\* it, so that what precedes the boundary is in the same buffer.
LEMMA NotSplit ==
  ASSUME Typed, NEW s, NEW t, Fits(s, t), NEW base \in Nat \ {0},
         base % Stride = 0, base <= t + 4
  PROVE  base <= t
<1>0. t \in Nat /\ Stride \in Nat \ {0}
  BY FormParts
<1> SUFFICES ASSUME ~(base <= t) PROVE FALSE
  OBVIOUS
<1> DEFINE r == t + 4 - base
<1>1. r \in Nat /\ r < 4 /\ 4 \in Nat /\ base + r = t + 4
  BY <1>0
<1> HIDE DEF r
<1>2. (t + 4) % Stride < 4
  BY <1>0, <1>1, BehindMultiple
<1>3. base >= Stride
  <2>1. base \div Stride \in Nat /\ base = (base \div Stride) * Stride
    BY <1>0, IsMultiple
  <2> QED
    BY <1>0, <2>1, SMT
<1>4. t + 4 >= Stride
  BY <1>0, <1>3
<1> QED
  BY <1>0, <1>2, <1>4, Patterns DEF Fits, IsSplit

-------------------------------------------------------------------------------
\* What is found

\* Where the search for the boundary begins
Searches(s, t) ==
  /\ Base \in 0 .. t /\ Base % Stride = 0
  /\ Base + p_payload \in s .. t /\ p_payload <= Stride
  /\ p_payload = 0 \/ Base = 0
  /\ stored = Bytes(upload.body, s, Base + p_payload)

\* It begins before the closing boundary.
LEMMA SearchBegins ==
  ASSUME Typed, Sent, NEW s, NEW t, Fits(s, t), Copies(s, t), pc = "boundary"
  PROVE  Searches(s, t)
<1>0. Base \in Nat /\ p_payload \in Nat
  BY WindowNumbers, TypedNumbers DEF Sent
<1>1. s \in Nat /\ t \in Nat /\ s <= t /\ s <= Stride /\ Stride \in Nat \ {0}
  BY FormParts
<1>2. Base + p_payload \in s .. t /\ stored = Bytes(upload.body, s, Base + p_payload)
  BY DEF Copies, CopiedUpTo
<1>3. CASE Base = 0 /\ p_payload = s
  <2>1. Base % Stride = 0
    BY <1>1, <1>3, SMT
  <2> QED
    BY <1>0, <1>1, <1>2, <1>3, <2>1 DEF Searches
<1>4. CASE InStep(Base, s, t) /\ p_payload = 0
  BY <1>0, <1>1, <1>2, <1>4 DEF Searches, InStep
<1> QED
  BY <1>3, <1>4 DEF Copies

\* If the closing boundary is in the buffer, it is found; nothing else is.
LEMMA FoundIsClosing ==
  ASSUME Typed, Sent, NEW s, NEW t, Fits(s, t), Searches(s, t),
         NEW i \in p_payload .. ScanEnd - 1,
         FirstMatch(buffer, Boundary, p_payload, ScanEnd - 1, i)
  PROVE  i - 4 = t - Base /\ MatchesAt(buffer, data_end, i - 4)
<1>0. /\ Window /\ Base \in Nat /\ p_payload \in Nat /\ s \in Nat /\ t \in Nat
      /\ ScanEnd = Len(buffer) - boundary_len /\ Len(buffer) \in Nat /\ ScanEnd \in Int
      /\ upload.body \in Seq(Byte) /\ buffer \in Seq(Byte)
      /\ got \in 0 .. Len(upload.body)
      /\ Boundary \in Seq(Byte) /\ boundary_len \in Nat
  BY FormNumbers DEF Sent
<1>1. i \in Nat /\ i \in Int /\ i < ScanEnd
  BY <1>0
<1> DEFINE e == t + 4 - Base
<1>2. /\ e \in Nat /\ e - 4 \in Nat /\ e - 4 = t - Base /\ p_payload <= e
      /\ Base + e = t + 4 /\ Base + (e - 4) = t
  BY <1>0 DEF Searches
<1> HIDE DEF e
<1>3. ~(i < e)
  <2>1. MatchesAt(buffer, Boundary, i)
    BY DEF FirstMatch
  <2>2. MatchesAt(upload.body, Boundary, Base + i)
    BY <1>0, <1>1, <2>1, MatchInWindow
  <2>3. ASSUME i < e PROVE Base + i \in s .. t + 3
    BY <1>0, <1>2, <1>1, <2>3 DEF Searches
  <2> QED
    BY <2>2, <2>3, FormParts
<1>4. ~(e < i)
  <2> SUFFICES ASSUME e < i PROVE FALSE
    OBVIOUS
  <2>1. e \in p_payload .. i - 1 /\ e + Len(Boundary) <= Len(buffer)
    BY <1>0, <1>2, <1>1 DEF boundary_len
  <2>2. MatchesAt(upload.body, Boundary, Base + e)
    BY <1>2, FormParts
  <2>3. MatchesAt(buffer, Boundary, e)
    BY <1>0, <1>2, <2>1, <2>2, MatchFromBody
  <2> QED
    BY <2>1, <2>3 DEF FirstMatch
<1>5. i = e
  BY <1>2, <1>1, <1>3, <1>4
<1>6. MatchesAt(upload.body, data_end, Base + (e - 4))
  BY <1>2, FormParts
<1>7. (e - 4) + Len(data_end) <= Len(buffer)
  BY <1>0, <1>1, <1>2, <1>5, Patterns
<1>8. MatchesAt(buffer, data_end, e - 4)
  BY <1>0, <1>2, <1>6, <1>7, Patterns, MatchFromBody
<1> QED
  BY <1>2, <1>5, <1>8

\* If nothing is found, the buffer is full, and the next one begins before the end of the
\* file.
LEMMA NothingFound ==
  ASSUME Typed, Sent, ReadsOn, pc = "boundary", NEW s, NEW t, Fits(s, t), Searches(s, t),
         \A i \in p_payload .. ScanEnd - 1 : ~MatchesAt(buffer, Boundary, i)
  PROVE  filled /\ ScanEnd = Stride /\ InStep(Base + Stride, s, t)
<1>0. /\ Window /\ Base \in Nat /\ p_payload \in Nat /\ s \in Nat /\ t \in Nat
      /\ ScanEnd = Len(buffer) - boundary_len /\ Len(buffer) \in Nat
      /\ Base = got - Len(buffer) /\ got \in Nat /\ buffer \in Seq(Byte)
      /\ Boundary \in Seq(Byte) /\ boundary_len \in Nat
      /\ Stride \in Nat \ {0} /\ BufferLen = Stride + boundary_len /\ s <= Stride
  BY FormNumbers DEF Sent
<1> DEFINE e == t + 4 - Base
<1>1. e \in Nat /\ p_payload <= e /\ Base + e = t + 4
  BY <1>0 DEF Searches
<1> HIDE DEF e
<1>2. ~(e < ScanEnd)
  <2> SUFFICES ASSUME e < ScanEnd PROVE FALSE
    OBVIOUS
  <2>1. e \in p_payload .. ScanEnd - 1 /\ e + Len(Boundary) <= Len(buffer)
    BY <1>0, <1>1 DEF boundary_len
  <2>2. MatchesAt(upload.body, Boundary, Base + e)
    BY <1>1, FormParts
  <2>3. MatchesAt(buffer, Boundary, e)
    BY <1>0, <1>1, <2>1, <2>2, MatchFromBody
  <2> QED
    BY <2>1, <2>3
<1>3. filled
  <2>1. ASSUME ~filled PROVE got = t + 8 + boundary_len
    BY <2>1, FormParts DEF ReadsOn
  <2> QED
    BY <1>0, <1>1, <1>2, <2>1
<1>4. ScanEnd = Stride
  BY <1>0, <1>3 DEF ReadsOn
<1>5. (Base + Stride) % Stride = 0
  BY <1>0, NextMultiple DEF Searches
<1>6. Base + Stride <= t
  <2>1. Base + Stride \in Nat \ {0} /\ Base + Stride <= t + 4
    BY <1>0, <1>1, <1>2, <1>4
  <2> QED
    BY <1>5, <2>1, NotSplit
<1> QED
  BY <1>0, <1>3, <1>4, <1>5, <1>6 DEF InStep

-------------------------------------------------------------------------------
\* The whole function

\* What has been copied is shorter than the request.
LEMMA NotAllStored ==
  ASSUME Typed, NEW s, NEW t, Fits(s, t), NEW x, CopiedUpTo(x, s, t)
  PROVE  Len(stored) < upload.length
<1>1. /\ s \in Nat /\ t \in Nat /\ Len(upload.body) = t + 8 + boundary_len
      /\ upload.length = Len(upload.body)
  BY FormParts
<1>2. x \in Nat /\ s <= x /\ x <= t /\ x <= Len(upload.body) /\ boundary_len \in Nat
  BY <1>1, Patterns DEF CopiedUpTo
<1>3. upload.body \in Seq(Byte)
  BY Patterns DEF Typed, UploadTypeOK
<1>4. Len(Bytes(upload.body, s, x)) = x - s
  BY <1>1, <1>2, <1>3, BytesOf, Zenon
<1> QED
  BY <1>1, <1>2, <1>4 DEF CopiedUpTo

\* No step stops the copying of a well-formed request, or passes the end of its file.
LEMMA CopiesOn ==
  ASSUME MaxShort <= 1, Typed, Sent, ReadsOn, Sent', [Next]_vars,
         NEW s, NEW t, Fits(s, t), Copies(s, t)
  PROVE  Copies(s, t)'
<1>0. /\ Window /\ BeforeWriting /\ WhileWriting
      /\ upload.type = "boundary" /\ upload.fault = "none"
  BY FormParts DEF Sent
<1>1. /\ s \in Nat /\ t \in Nat /\ s <= t /\ Stride \in Nat \ {0} /\ Base \in Nat
      /\ BufferLen = Stride + boundary_len /\ boundary_len \in Nat
      /\ Base = got - Len(buffer) /\ got \in Nat /\ Len(buffer) \in Nat
      /\ Len(upload.body) = t + 8 + boundary_len
      /\ p_payload \in Nat /\ p_payload_end \in Nat /\ to_write \in Nat
      /\ ScanEnd = Len(buffer) - boundary_len
      /\ upload.body \in Seq(Byte) /\ buffer \in Seq(Byte)
  BY <1>0, FormNumbers
<1>2. CASE check_content_type
  <2>1. pc' = "loop" /\ pc = "start" /\ UNCHANGED first
    BY <1>0, <1>2 DEF check_content_type, chunk
  <2> QED
    BY <1>0, <2>1 DEF BeforeWriting, Copies
<1>3. CASE loop_Ends
  <2>1. Len(stored) < upload.length
    <3>1. CASE first
      <4>1. Len(stored) = 0
        BY <1>0, <1>3, <3>1, EmptySeq DEF loop_Ends, BeforeWriting
      <4> QED
        BY <1>0, <4>1, FormParts, <1>1
    <3>2. CASE ~first
      BY <1>3, <3>2, NotAllStored DEF loop_Ends, Copies
    <3> QED
      BY <3>1, <3>2
  <2>2. Len(stored) \in Nat /\ upload.length \in Nat
    BY LenProperties DEF Typed, UploadTypeOK, Upload
  <2> QED
    BY <1>3, <2>1, <2>2 DEF loop_Ends
<1>4. CASE FCGX_GetStr_Fails \/ write_Fails
  BY <1>0, <1>4 DEF FCGX_GetStr_Fails, write_Fails
<1>5. CASE FCGX_GetStr
  <2>1. Base' = Base /\ UNCHANGED <<upload, first, stored>>
    BY <1>5, ReadIsFilled
  <2>2. /\ pc = "loop" /\ pc' = (IF first THEN "start_of_data" ELSE "boundary")
        /\ p_payload' = 0
    BY <1>5 DEF FCGX_GetStr
  <2>3. CASE first
    BY <2>2, <2>3 DEF Copies
  <2>4. CASE ~first
    <3>1. InStep(Base, s, t) /\ CopiedUpTo(Base, s, t)
      BY <2>2, <2>4 DEF Copies
    <3>2. Base' + p_payload' = Base
      BY <1>0, <2>1, <2>2, <1>1
    <3> QED
      BY <2>1, <2>2, <2>4, <3>1, <3>2 DEF Copies, CopiedUpTo, InStep
  <2> QED
    BY <2>3, <2>4
<1>6. CASE find_start_of_data
  <2>1. /\ Base = 0 /\ p_payload' = s /\ pc' = "boundary"
        /\ UNCHANGED <<upload, chunk, stored>>
    BY <1>0, <1>1, <1>6, HeaderIsFound DEF Fits, IsForm
  <2>2. Base' = 0 /\ stored = <<>>
    BY <1>0, <1>6, <2>1 DEF Base, chunk, find_start_of_data, BeforeWriting
  <2>3. Base' + p_payload' = s /\ s \in s .. t
    BY <1>0, <2>1, <2>2, <1>1
  <2>4. Bytes(upload.body, s, s) = <<>>
    BY <1>1, SubSeqEmpty DEF Bytes
  <2> QED
    BY <2>1, <2>2, <2>3, <2>4 DEF Copies, CopiedUpTo
<1>7. CASE find_post_boundary
  <2>0. pc = "boundary" /\ Searches(s, t)
    BY <1>7, SearchBegins DEF find_post_boundary
  <2>1. ASSUME NEW to \in Nat, to >= p_payload, Writes(to),
               post_boundary_found' \in BOOLEAN,
               IF post_boundary_found' THEN Base + to = t
               ELSE filled /\ to = Stride /\ InStep(Base + Stride, s, t)
        PROVE  Copies(s, t)'
    <3>1. /\ pc' = "write" /\ p_payload_end' = to
          /\ to_write' = (IF to > p_payload THEN to - p_payload ELSE 0)
          /\ UNCHANGED <<Base, upload, filled, stored>>
      BY <2>1 DEF Writes, Base, chunk
    <3>2. Base + to - to_write' = Base + p_payload
      <4>1. Base \in Nat /\ p_payload \in Nat
        BY <1>1
      <4> QED
        BY <2>1, <3>1, <4>1
    <3>3. CopiedUpTo(Base + p_payload_end - to_write, s, t)'
      BY <2>0, <3>1, <3>2 DEF Searches, CopiedUpTo
    <3> QED
      BY <2>1, <3>1, <3>3 DEF Copies, InStep
  <2>2. ASSUME NEW i \in p_payload .. ScanEnd - 1,
               FirstMatch(buffer, Boundary, p_payload, ScanEnd - 1, i),
               \/ post_boundary_found' = TRUE /\ Writes(i - Len(data_end))
               \/ ~MatchesAt(buffer, data_end, i - Len(data_end))
        PROVE  Copies(s, t)'
    <3>1. i - 4 = t - Base /\ MatchesAt(buffer, data_end, i - 4) /\ Len(data_end) = 4
      BY <2>0, <2>2, FoundIsClosing, Patterns
    <3>2. post_boundary_found' = TRUE /\ Writes(t - Base)
      BY <2>2, <3>1
    <3>3. t - Base \in Nat /\ t - Base >= p_payload /\ Base + (t - Base) = t
      <4>1. Base \in Nat /\ t \in Nat /\ s \in Nat /\ p_payload \in Nat
        BY <1>1
      <4>2. Base + p_payload \in s .. t
        BY <2>0 DEF Searches
      <4> QED
        BY <4>1, <4>2
    <3> QED
      BY <2>1, <3>2, <3>3
  <2>3. ASSUME \A i \in p_payload .. ScanEnd - 1 : ~MatchesAt(buffer, Boundary, i),
               Writes(IF p_payload < ScanEnd THEN ScanEnd ELSE p_payload),
               UNCHANGED post_boundary_found
        PROVE  Copies(s, t)'
    <3>1. filled /\ ScanEnd = Stride /\ InStep(Base + Stride, s, t)
      BY <2>0, <2>3, NothingFound
    <3>2. p_payload <= Stride /\ p_payload \in Nat /\ Stride \in Nat
      BY <1>0, <2>0, <1>1 DEF Searches
    <3>3. (IF p_payload < ScanEnd THEN ScanEnd ELSE p_payload) = Stride
      BY <3>1, <3>2
    <3>4. post_boundary_found' = FALSE
      BY <1>0, <2>0, <2>3 DEF BeforeWriting, Typed, UploadTypeOK
    <3> QED
      BY <2>1, <2>3, <3>1, <3>2, <3>3, <3>4
  <2> QED
    BY <1>7, <2>2, <2>3 DEF find_post_boundary
<1>8. CASE write
  <2> DEFINE x == Base + p_payload_end - to_write
  <2>0. Typed /\ UploadTypeOK /\ Offsets
    BY DEF Typed
  <2>1. PICK n \in 1 .. to_write : WritesNext(n)
    BY <1>0, <1>8, <2>0, WriteAppends
  <2>2. /\ pc = "write" /\ pc' = "write"
        /\ UNCHANGED <<upload, filled, Base, p_payload_end, post_boundary_found>>
    BY <1>8 DEF write, chunk, scan, Base
  <2>3. /\ Base' + p_payload_end' - to_write' = x + n /\ to_write' = to_write - n
        /\ x \in Nat /\ x + n \in Nat /\ x <= x + n /\ x + n <= Len(upload.body)
        /\ stored' = stored \o Bytes(upload.body, x, x + n)
    BY <2>1 DEF WritesNext
  <2>4. CopiedUpTo(x, s, t)
    BY <2>2 DEF Copies
  <2>5. /\ t \in Nat /\ Base \in Nat /\ Stride \in Nat
        /\ p_payload_end \in Nat /\ to_write \in Nat
    BY <1>1
  <2>6. x + n <= t
    <3>1. Base + p_payload_end = t \/ Base + p_payload_end \in s .. t
      BY <2>2 DEF Copies, InStep
    <3>2. Base + p_payload_end <= t
      BY <2>5, <3>1
    <3> QED
      BY <2>5, <3>2
  <2> HIDE DEF x
  <2>7. /\ s \in Nat /\ t \in Nat /\ s <= x /\ stored = Bytes(upload.body, s, x)
        /\ upload.body \in Seq(Byte)
    BY <1>0, <2>4, <1>1 DEF CopiedUpTo
  <2>8. stored' = Bytes(upload.body, s, x + n)
    <3>1. /\ s \in Nat /\ x \in Nat /\ x + n \in Nat
          /\ s <= x /\ x <= x + n /\ x + n <= Len(upload.body)
      BY <2>3, <2>7
    <3>2. Bytes(upload.body, s, x) \o Bytes(upload.body, x, x + n)
            = Bytes(upload.body, s, x + n)
      BY <2>7, <3>1, BytesJoin, Zenon
    <3> QED
      BY <2>3, <2>7, <3>2
  <2>9. x + n \in s .. t
    BY <2>3, <2>6, <2>7
  <2> QED
    BY <2>2, <2>3, <2>8, <2>9 DEF Copies, CopiedUpTo, InStep
<1>9. CASE next_buffer
  <2>0. /\ pc = "write" /\ to_write = 0
        /\ CopiedUpTo(Base + p_payload_end - to_write, s, t)
        /\ IF post_boundary_found THEN Base + p_payload_end = t
           ELSE filled /\ p_payload_end = Stride /\ InStep(Base + Stride, s, t)
    BY <1>9 DEF next_buffer, Copies
  <2>1. /\ Base + p_payload_end - to_write = Base + p_payload_end
        /\ ScanEnd = Len(buffer) - boundary_len
    BY <1>0, <2>0, <1>1
  <2>2. CASE post_boundary_found
    <3>1. CopiedUpTo(t, s, t)
      BY <2>0, <2>1, <2>2
    <3>2. pc' = "done" /\ outcome' = "accepted" /\ UNCHANGED <<upload, stored>>
      BY <1>9, <2>2 DEF next_buffer, End, output
    <3> QED
      BY <3>1, <3>2 DEF Copies, Accepts, CopiedUpTo
  <2>3. CASE ~post_boundary_found
    <3>1. Len(buffer) = BufferLen /\ ScanEnd = Stride
      BY <1>0, <2>0, <2>1, <2>3, <1>1 DEF ReadsOn
    <3>2. p_payload_end = Stride /\ filled /\ ~(p_payload_end > ScanEnd)
      BY <1>0, <2>0, <2>3, <3>1, <1>1
    <3>3. /\ buffer' = Kept /\ first' = FALSE /\ pc' = "loop"
          /\ UNCHANGED <<upload, got, stored>>
      BY <1>9, <2>3, <3>2 DEF next_buffer, output
    <3>4. Len(Kept) = boundary_len
      <4>1. /\ p_payload_end \in Nat /\ p_payload_end + boundary_len \in Nat
            /\ p_payload_end <= p_payload_end + boundary_len
            /\ p_payload_end + boundary_len <= Len(buffer) /\ buffer \in Seq(Byte)
            /\ (p_payload_end + boundary_len) - p_payload_end = boundary_len
        <5>1. /\ Stride \in Nat /\ boundary_len \in Nat /\ BufferLen = Stride + boundary_len
              /\ buffer \in Seq(Byte)
          BY <1>1
        <5> QED
          BY <3>1, <3>2, <5>1
      <4>2. Len(Bytes(buffer, p_payload_end, p_payload_end + boundary_len))
              = (p_payload_end + boundary_len) - p_payload_end
        BY <4>1, BytesOf, Zenon
      <4> QED
        BY <4>1, <4>2 DEF Kept
    <3>5. Base' = Base + Stride
      <4>1. Base' = got - boundary_len
        BY <3>3, <3>4 DEF Base
      <4> QED
        BY <1>0, <3>1, <4>1, <1>1
    <3>6. CopiedUpTo(Base + Stride, s, t) /\ InStep(Base + Stride, s, t)
      BY <2>0, <2>1, <2>3
    <3> QED
      BY <3>3, <3>5, <3>6 DEF Copies, CopiedUpTo, InStep
  <2> QED
    BY <2>2, <2>3
<1>20. CASE UNCHANGED vars
  BY <1>20
  DEF Copies, CopiedUpTo, InStep, Accepts, Base, vars, chunk, scan, output
<1> QED
  BY <1>2, <1>3, <1>4, <1>5, <1>6, <1>7, <1>8, <1>9, <1>20 DEF Next

\* Every well-formed request that is not split is being copied, after every step.
LEMMA CopyInductive ==
  ASSUME MaxShort <= 1, Typed, Sent, Sent', CopyInv, [Next]_vars
  PROVE  CopyInv'
<1>1. ReadsOn'
  BY ReadsOnInductive DEF CopyInv
<1>2. upload' = upload
  BY SameUpload
<1>3. ASSUME NEW s \in 0 .. Len(upload.body), NEW t \in 0 .. Len(upload.body),
             IsForm(upload, s, t), ~IsSplit(t)
      PROVE  Copies(s, t)'
  <2>1. Fits(s, t) /\ Copies(s, t) /\ ReadsOn
    BY <1>3 DEF Fits, CopyInv
  <2> QED
    BY <2>1, CopiesOn
<1> QED
  BY <1>1, <1>2, <1>3 DEF CopyInv

\* Nothing has been read before the first step.
LEMMA CopyInitially == Init => CopyInv
BY DEF Init, CopyInv, ReadsOn, Copies

\* As long as write() is short at most once for a buffer: every well-formed request is
\* accepted and its file is copied as a whole, whatever it contains and however long it
\* is, unless the closing boundary follows at the beginning of a buffer.
THEOREM FormsAreAccepted ==
  ASSUME MaxShort <= 1
  PROVE  Spec => []AcceptsUnlessSplit
<1>1. Init => Sent /\ CopyInv
  BY SentInitially, CopyInitially
<1>2. Typed /\ Typed' /\ Sent /\ CopyInv /\ [Next]_vars => Sent' /\ CopyInv'
  BY SentInductive, CopyInductive
<1>3. CopyInv => AcceptsUnlessSplit
  BY DEF CopyInv, Copies, AcceptsUnlessSplit
<1> QED
  BY <1>1, <1>2, <1>3, AlwaysTyped, PTL DEF Spec

===============================================================================
