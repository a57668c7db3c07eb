------------------------ MODULE MultipartUpload_proofs ------------------------
(***************************************************************************)
(* Proofs about MultipartUpload, for every size of the buffer, boundary and*)
(* request: types and the offsets that write() is given; that there are    *)
(* finitely many steps; that what is accepted was sent; and that only a    *)
(* request without a header in time takes the code out of its buffer.      *)
(***************************************************************************)
EXTENDS MultipartUploadProperties, SequenceTheorems, TLAPS

-------------------------------------------------------------------------------
\* Parts of a sequence

\* A part that lies within a sequence has the length and the bytes it should have.
LEMMA BytesOf ==
  ASSUME NEW S, NEW s \in Seq(S), NEW a \in Nat, NEW b \in Nat, a <= b, b <= Len(s)
  PROVE  /\ Bytes(s, a, b) \in Seq(S)
         /\ Len(Bytes(s, a, b)) = b - a
         /\ \A k \in 1 .. b - a : Bytes(s, a, b)[k] = s[a + k]
<1>1. \A i \in a + 1 .. b : s[i] \in S
  BY ElementOfSeq, LenProperties
<1> QED
  BY <1>1, SubSeqProperties DEF Bytes

\* Two parts that follow on each other
LEMMA BytesJoin ==
  ASSUME NEW S, NEW s \in Seq(S), NEW a \in Nat, NEW b \in Nat, NEW c \in Nat,
         a <= b, b <= c, c <= Len(s)
  PROVE  Bytes(s, a, b) \o Bytes(s, b, c) = Bytes(s, a, c)
<1>0. Len(s) \in Nat
  BY LenProperties
<1>1. a + 1 \in 1 .. Len(s) + 1 /\ b \in (a + 1) - 1 .. Len(s) /\ c \in b .. Len(s)
  BY <1>0
<1>2. SubSeq(s, a + 1, b) \o SubSeq(s, b + 1, c) = SubSeq(s, a + 1, c)
  BY <1>1, ConcatAdjacentSubSeq
<1> QED
  BY <1>2 DEF Bytes

\* What is in the buffer between two offsets is in the body.
LEMMA BytesInWindow ==
  ASSUME Window, upload.body \in Seq(Byte), buffer \in Seq(Byte),
         got \in 0 .. Len(upload.body),
         NEW a \in Nat, NEW b \in Nat, a <= b, b <= Len(buffer)
  PROVE  Bytes(buffer, a, b) = Bytes(upload.body, Base + a, Base + b)
<1>0. Len(upload.body) \in Nat /\ Len(buffer) \in Nat
  BY LenProperties
<1>1. /\ Base + a \in Nat /\ Base + b \in Nat
      /\ Base + a <= Base + b /\ Base + b <= Len(upload.body)
  BY <1>0 DEF Window, Base
<1> DEFINE l == Bytes(buffer, a, b)
           r == Bytes(upload.body, Base + a, Base + b)
<1>2. l \in Seq(Byte) /\ Len(l) = b - a /\ \A k \in 1 .. b - a : l[k] = buffer[a + k]
  BY <1>0, BytesOf
<1>3. /\ r \in Seq(Byte) /\ Len(r) = (Base + b) - (Base + a)
      /\ \A k \in 1 .. (Base + b) - (Base + a) : r[k] = upload.body[Base + a + k]
  BY <1>1, BytesOf, Zenon
<1> HIDE DEF l, r
<1>4. Len(r) = b - a /\ \A k \in 1 .. b - a : r[k] = upload.body[Base + (a + k)]
  BY <1>3 DEF Window
<1>5. \A k \in 1 .. b - a : l[k] = r[k]
  <2> TAKE k \in 1 .. b - a
  <2>1. a + k \in 1 .. Len(buffer)
    BY <1>0
  <2> QED
    BY <1>2, <1>4, <2>1 DEF Window
<1>6. l = r
  BY <1>2, <1>3, <1>4, <1>5, SeqEqual
<1> QED
  BY <1>6 DEF l, r

\* What is found in the buffer is in the body.
LEMMA MatchInWindow ==
  ASSUME Window, upload.body \in Seq(Byte), buffer \in Seq(Byte),
         got \in 0 .. Len(upload.body),
         NEW S, NEW pattern \in Seq(S), NEW i \in Int, MatchesAt(buffer, pattern, i)
  PROVE  MatchesAt(upload.body, pattern, Base + i)
<1>0. Len(upload.body) \in Nat /\ Len(buffer) \in Nat /\ Len(pattern) \in Nat
  BY LenProperties
<1>1. i >= 0 /\ i + Len(pattern) <= Len(buffer)
  BY DEF MatchesAt
<1>2. Base + i >= 0 /\ Base + i + Len(pattern) <= Len(upload.body)
  BY <1>0, <1>1 DEF Window, Base
<1>3. \A k \in 1 .. Len(pattern) : upload.body[Base + i + k] = pattern[k]
  <2> TAKE k \in 1 .. Len(pattern)
  <2>1. i + k \in 1 .. Len(buffer)
    BY <1>0, <1>1
  <2>2. buffer[i + k] = upload.body[Base + (i + k)]
    BY <2>1 DEF Window
  <2>3. Base + (i + k) = Base + i + k
    BY <1>0 DEF Window
  <2>4. buffer[i + k] = pattern[k]
    BY DEF MatchesAt
  <2> QED
    BY <2>2, <2>3, <2>4
<1> QED
  BY <1>2, <1>3 DEF MatchesAt

\* What is in the body is found in the buffer, if it is in the window as a whole.
LEMMA MatchFromBody ==
  ASSUME Window, buffer \in Seq(Byte),
         NEW S, NEW pattern \in Seq(S), NEW i \in Nat, i + Len(pattern) <= Len(buffer),
         MatchesAt(upload.body, pattern, Base + i)
  PROVE  MatchesAt(buffer, pattern, i)
<1>0. Len(buffer) \in Nat /\ Len(pattern) \in Nat /\ Base \in Nat
  BY LenProperties DEF Window
<1>1. ASSUME NEW k \in 1 .. Len(pattern) PROVE buffer[i + k] = pattern[k]
  <2>1. i + k \in 1 .. Len(buffer)
    BY <1>0
  <2>2. buffer[i + k] = upload.body[Base + (i + k)]
    BY <2>1 DEF Window
  <2>3. Base + (i + k) = (Base + i) + k
    BY <1>0
  <2>4. upload.body[(Base + i) + k] = pattern[k]
    BY DEF MatchesAt
  <2> QED
    BY <2>2, <2>3, <2>4
<1> QED
  BY <1>1 DEF MatchesAt

\* Two patterns that follow on each other
LEMMA MatchesJoin ==
  ASSUME NEW S, NEW p \in Seq(S), NEW q \in Seq(S), NEW s, NEW i \in Int,
         Len(s) \in Nat,
         MatchesAt(s, p, i), MatchesAt(s, q, i + Len(p))
  PROVE  MatchesAt(s, p \o q, i)
<1>0. Len(p) \in Nat /\ Len(q) \in Nat
  BY LenProperties
<1>1. /\ Len(p \o q) = Len(p) + Len(q)
      /\ \A k \in 1 .. Len(p) + Len(q) :
           (p \o q)[k] = IF k <= Len(p) THEN p[k] ELSE q[k - Len(p)]
  BY ConcatProperties
<1>2. ASSUME NEW k \in 1 .. Len(p) + Len(q) PROVE s[i + k] = (p \o q)[k]
  <2>1. CASE k <= Len(p)
    BY <1>0, <1>1, <2>1 DEF MatchesAt
  <2>2. CASE ~(k <= Len(p))
    <3>1. k - Len(p) \in 1 .. Len(q)
      BY <1>0, <2>2
    <3>2. s[(i + Len(p)) + (k - Len(p))] = q[k - Len(p)]
      BY <3>1 DEF MatchesAt
    <3>3. (i + Len(p)) + (k - Len(p)) = i + k
      BY <1>0
    <3> QED
      BY <1>1, <2>2, <3>2, <3>3
  <2> QED
    BY <2>1, <2>2
<1> QED
  BY <1>0, <1>1, <1>2 DEF MatchesAt

-------------------------------------------------------------------------------
\* Types

\* The constants and the requests have the types that the lemmas need.
LEMMA Patterns ==
  /\ Boundary \in Seq(Byte) /\ boundary_len \in Nat
  /\ BufferLen \in Nat \ {0} /\ MaxShort \in Nat
  /\ data_start \in Seq({"CR", "LF", "-"}) /\ Len(data_start) = 4
  /\ data_end \in Seq({"CR", "LF", "-"}) /\ Len(data_end) = 4
  /\ \A u \in Upload : u.body \in Seq(Byte) /\ Len(u.body) \in Nat
<1>1. Boundary \in Seq(Byte) /\ boundary_len \in Nat
  BY UploadAssumption, LenProperties DEF boundary_len
<1>2. BufferLen \in Nat \ {0} /\ MaxShort \in Nat
  BY UploadAssumption
<1>3. data_start \in Seq({"CR", "LF", "-"}) /\ Len(data_start) = 4
  BY DEF data_start
<1>4. data_end \in Seq({"CR", "LF", "-"}) /\ Len(data_end) = 4
  BY DEF data_end
<1>5. \A u \in Upload : u.body \in Seq(Byte) /\ Len(u.body) \in Nat
  BY LenProperties DEF Upload
<1> QED
  BY <1>1, <1>2, <1>3, <1>4, <1>5

Typed == UploadTypeOK /\ Offsets

\* What is true of the numbers in a state of the right type
LEMMA TypedNumbers ==
  ASSUME Typed
  PROVE  /\ Len(buffer) \in 0 .. BufferLen /\ ScanEnd \in Int
         /\ ScanEnd = Len(buffer) - boundary_len
         /\ available_len \in Nat /\ available_len = BufferLen - Len(buffer)
         /\ got \in 0 .. Len(upload.body) /\ Len(upload.body) \in Nat
         /\ p_payload \in Nat /\ p_payload_end \in Nat
         /\ to_write \in Nat /\ written \in Nat /\ WriteFrom = p_payload + written
<1>1. Len(buffer) \in 0 .. BufferLen
  BY LenProperties DEF Typed, UploadTypeOK
<1>2. Len(upload.body) \in Nat
  BY Patterns DEF Typed, UploadTypeOK
<1> QED
  BY <1>1, <1>2, Patterns DEF Typed, UploadTypeOK, ScanEnd, available_len, WriteFrom

\* At the end the types are those before it.
LEMMA EndTyped ==
  ASSUME Typed, NEW o \in {"accepted", "rejected", "crash", "undefined"}, End(o)
  PROVE  Typed'
BY DEF Typed, UploadTypeOK, Offsets, End, chunk, scan, output

\* The offsets that write() is given are in the buffer.
LEMMA WritesTyped ==
  ASSUME Typed, pc = "boundary", NEW to \in Nat, to <= Len(buffer), Writes(to),
         post_boundary_found' \in BOOLEAN
  PROVE  Typed'
<1>1. to \in 0 .. BufferLen
  BY TypedNumbers, Patterns
<1>2. /\ to_write' \in 0 .. BufferLen
      /\ to_write' > 0 => p_payload + to_write' <= to
  BY <1>1, TypedNumbers, Patterns DEF Writes
<1>3. p_payload <= Len(buffer)
  BY DEF Typed, Offsets
<1> QED
  BY <1>1, <1>2, <1>3, TypedNumbers, Patterns
  DEF Typed, UploadTypeOK, Offsets, Writes, chunk

\* FCGX_GetStr() reads n bytes of the body and appends them to the buffer, which is full
\* then, unless the end of the body has been reached.
Reads(n) ==
  /\ got + n <= Len(upload.body) /\ Len(buffer) + n <= BufferLen
  /\ Bytes(upload.body, got, got + n) \in Seq(Byte)
  /\ Len(Bytes(upload.body, got, got + n)) = n
  /\ \A k \in 1 .. n : Bytes(upload.body, got, got + n)[k] = upload.body[got + k]
  /\ buffer' = buffer \o Bytes(upload.body, got, got + n) /\ got' = got + n
  /\ filled' \in BOOLEAN
  /\ IF filled' THEN Len(buffer) + n = BufferLen ELSE got + n = Len(upload.body)

\* It reads as many bytes as there is room for, and none behind the end.
LEMMA GetStrReads ==
  ASSUME Typed, FCGX_GetStr
  PROVE  \E n \in Nat : Reads(n)
<1> DEFINE rest == Len(upload.body) - got
           n == IF rest < available_len THEN rest ELSE available_len
<1>1. n \in Nat /\ got + n <= Len(upload.body) /\ Len(buffer) + n <= BufferLen
  <2>1. rest \in Nat
    BY TypedNumbers
  <2>2. n \in Nat /\ n <= rest /\ n <= available_len
    BY <2>1, TypedNumbers
  <2> HIDE DEF n
  <2> QED
    BY <2>2, TypedNumbers, Patterns
<1>2. /\ buffer' = buffer \o Bytes(upload.body, got, got + n) /\ got' = got + n
      /\ filled' \in BOOLEAN /\ (filled' <=> n = available_len)
  BY DEF FCGX_GetStr, IsFilled
<1>3. n = available_len \/ n = rest
  OBVIOUS
<1>4. IF filled' THEN Len(buffer) + n = BufferLen ELSE got + n = Len(upload.body)
  <2>1. filled' => Len(buffer) + n = BufferLen
    BY <1>2, TypedNumbers, Patterns
  <2>2. ~filled' => got + n = Len(upload.body)
    BY <1>2, <1>3, TypedNumbers
  <2> QED
    BY <2>1, <2>2
<1> HIDE DEF n
<1>5. got \in Nat /\ got + n \in Nat /\ got <= got + n /\ (got + n) - got = n
  BY <1>1, TypedNumbers
<1>6. upload.body \in Seq(Byte)
  BY Patterns DEF Typed, UploadTypeOK
<1>7. /\ Bytes(upload.body, got, got + n) \in Seq(Byte)
      /\ Len(Bytes(upload.body, got, got + n)) = (got + n) - got
      /\ \A k \in 1 .. (got + n) - got :
           Bytes(upload.body, got, got + n)[k] = upload.body[got + k]
  BY <1>1, <1>5, <1>6, BytesOf, Zenon
<1> QED
  BY <1>1, <1>2, <1>5, <1>7, <1>4 DEF Reads

\* What has been read follows what was in the buffer.
LEMMA ReadsAppend ==
  ASSUME buffer \in Seq(Byte), NEW n \in Nat, Reads(n)
  PROVE  /\ buffer' \in Seq(Byte) /\ Len(buffer') = Len(buffer) + n
         /\ \A k \in 1 .. Len(buffer) + n :
              buffer'[k] = IF k <= Len(buffer) THEN buffer[k]
                           ELSE upload.body[got + (k - Len(buffer))]
<1> DEFINE r == Bytes(upload.body, got, got + n)
<1>1. /\ r \in Seq(Byte) /\ Len(r) = n /\ buffer' = buffer \o r
      /\ \A k \in 1 .. n : r[k] = upload.body[got + k]
  BY DEF Reads
<1> HIDE DEF r
<1>2. /\ buffer \o r \in Seq(Byte) /\ Len(buffer \o r) = Len(buffer) + n
      /\ \A k \in 1 .. Len(buffer) + n :
           (buffer \o r)[k] = IF k <= Len(buffer) THEN buffer[k] ELSE r[k - Len(buffer)]
  BY <1>1, ConcatProperties
<1>3. ASSUME NEW k \in 1 .. Len(buffer) + n, ~(k <= Len(buffer))
      PROVE  r[k - Len(buffer)] = upload.body[got + (k - Len(buffer))]
  <2>1. k - Len(buffer) \in 1 .. n
    BY <1>3, LenProperties
  <2> QED
    BY <1>1, <2>1
<1> QED
  BY <1>1, <1>2, <1>3

\* No step takes an offset out of the buffer or changes a type.
LEMMA TypedInductive == Typed /\ [Next]_vars => Typed'
<1> SUFFICES ASSUME Typed, [Next]_vars PROVE Typed'
  OBVIOUS
<1>0. UploadTypeOK /\ Offsets
  BY DEF Typed
<1>1. CASE check_content_type
  BY <1>0, <1>1, EndTyped DEF check_content_type, Typed, UploadTypeOK, Offsets, chunk,
     scan, output
<1>2. CASE loop_Ends
  BY <1>2, EndTyped DEF loop_Ends
<1>3. CASE FCGX_GetStr_Fails
  BY <1>3, EndTyped DEF FCGX_GetStr_Fails
<1>4. CASE FCGX_GetStr
  <2>1. PICK n \in Nat : Reads(n)
    BY <1>4, GetStrReads
  <2>4. buffer' \in Seq(Byte) /\ Len(buffer') = Len(buffer) + n
    BY <1>0, <2>1, ReadsAppend DEF UploadTypeOK
  <2>5. got' \in 0 .. Len(upload.body) /\ filled' \in BOOLEAN /\ Len(buffer') <= BufferLen
    BY <2>1, <2>4, TypedNumbers DEF Reads
  <2>6. /\ pc' \in {"start_of_data", "boundary"} /\ p_payload' = 0
        /\ pc' = "boundary" => ~first
        /\ UNCHANGED <<upload, first, p_payload_end, post_boundary_found, output, file,
                       outcome>>
    BY <1>4 DEF FCGX_GetStr
  <2>7. p_payload' <= Len(buffer') /\ p_payload' \in 0 .. BufferLen
    BY <2>1, <2>4, <2>6, TypedNumbers, Patterns
  <2> QED
    BY <1>0, <2>4, <2>5, <2>6, <2>7 DEF Typed, UploadTypeOK, Offsets, output
<1>5. CASE find_start_of_data
  <2>1. CASE End("undefined") \/ End("crash")
    BY <2>1, EndTyped
  <2>2. ASSUME NEW i \in boundary_len + 1 .. Len(buffer),
               FirstMatch(buffer, data_start, boundary_len + 1, Len(buffer), i),
               p_payload' = i + Len(data_start), pc' = "boundary",
               UNCHANGED <<upload, chunk, p_payload_end, post_boundary_found, output,
                           file, outcome>>
        PROVE  Typed'
    <3>1. i + Len(data_start) <= Len(buffer)
      BY <2>2 DEF FirstMatch, MatchesAt
    <3>2. /\ p_payload' \in 0 .. BufferLen /\ p_payload' <= Len(buffer)
          /\ boundary_len < BufferLen
      BY <2>2, <3>1, TypedNumbers, Patterns
    <3> QED
      BY <1>0, <2>2, <3>2 DEF Typed, UploadTypeOK, Offsets, output, chunk
  <2> QED
    BY <1>5, <2>1, <2>2 DEF find_start_of_data
<1>6. CASE find_post_boundary
  <2>1. CASE End("rejected")
    BY <2>1, EndTyped
  <2>2. ASSUME NEW i \in p_payload .. ScanEnd - 1,
               MatchesAt(buffer, data_end, i - Len(data_end)),
               post_boundary_found' = TRUE, Writes(i - Len(data_end))
        PROVE  Typed'
    <3>1. i - Len(data_end) \in Nat /\ i - Len(data_end) <= Len(buffer)
      BY <2>2, TypedNumbers, Patterns DEF MatchesAt
    <3> QED
      BY <1>6, <2>2, <3>1, WritesTyped DEF find_post_boundary
  <2>3. ASSUME Writes(IF p_payload < ScanEnd THEN ScanEnd ELSE p_payload),
               UNCHANGED post_boundary_found
        PROVE  Typed'
    <3> DEFINE to == IF p_payload < ScanEnd THEN ScanEnd ELSE p_payload
    <3>1. pc = "boundary" /\ post_boundary_found' \in BOOLEAN
      BY <1>0, <1>6, <2>3 DEF find_post_boundary, UploadTypeOK
    <3>2. to \in Nat /\ to <= Len(buffer)
      BY <1>0, <3>1, TypedNumbers, Patterns DEF Offsets
    <3> HIDE DEF to
    <3>3. Writes(to)
      BY <2>3 DEF to
    <3> QED
      BY <3>1, <3>2, <3>3, WritesTyped
  <2> QED
    BY <1>6, <2>1, <2>2, <2>3 DEF find_post_boundary
<1>7. CASE write
  <2>1. PICK n \in 1 .. to_write :
          /\ n = to_write \/ shorts < MaxShort
          /\ stored' = stored \o Bytes(buffer, WriteFrom, WriteFrom + n)
          /\ written' = n
          /\ to_write' = to_write - n
          /\ shorts' = shorts + (IF n < to_write THEN 1 ELSE 0)
    BY <1>7 DEF write
  <2>2. /\ pc = "write" /\ to_write > 0
        /\ UNCHANGED <<upload, pc, chunk, scan, file, outcome>>
    BY <1>7 DEF write
  <2>3. /\ WriteFrom \in Nat /\ WriteFrom + n \in Nat /\ WriteFrom <= WriteFrom + n
        /\ WriteFrom + n <= Len(buffer)
    BY <1>0, <2>2, TypedNumbers DEF Offsets
  <2>4. Bytes(buffer, WriteFrom, WriteFrom + n) \in Seq(Byte)
    BY <1>0, <2>3, BytesOf DEF UploadTypeOK
  <2>5. stored' \in Seq(Byte)
    BY <1>0, <2>1, <2>4, ConcatProperties DEF UploadTypeOK
  <2>6. /\ shorts' \in 0 .. MaxShort
        /\ to_write' \in 0 .. BufferLen /\ written' \in 0 .. BufferLen
    BY <1>0, <2>1, TypedNumbers, Patterns DEF UploadTypeOK
  <2>7. to_write' > 0 => p_payload + written' + to_write' <= p_payload_end
    BY <1>0, <2>1, <2>2, TypedNumbers DEF Offsets
  <2> QED
    BY <1>0, <2>2, <2>5, <2>6, <2>7 DEF Typed, UploadTypeOK, Offsets, chunk, scan
<1>8. CASE write_Fails
  BY <1>8, EndTyped DEF write_Fails
<1>9. CASE next_buffer
  <2>1. CASE End("accepted") \/ End("rejected") \/ End("undefined")
    BY <2>1, EndTyped
  <2>2. ASSUME p_payload_end <= ScanEnd, buffer' = Kept, first' = FALSE, pc' = "loop",
               UNCHANGED <<upload, got, filled, scan, output, file, outcome>>
        PROVE  Typed'
    <3>0. boundary_len < BufferLen
      BY <1>0, <1>9 DEF next_buffer, Offsets
    <3>1. /\ p_payload_end \in Nat /\ p_payload_end + boundary_len \in Nat
          /\ p_payload_end <= p_payload_end + boundary_len
          /\ p_payload_end + boundary_len <= Len(buffer)
      BY <2>2, TypedNumbers, Patterns
    <3>2. /\ Kept \in Seq(Byte)
          /\ Len(Kept) = (p_payload_end + boundary_len) - p_payload_end
      BY <1>0, <3>1, BytesOf DEF UploadTypeOK, Kept
    <3>3. Len(Kept) <= BufferLen
      BY <3>0, <3>1, <3>2, Patterns
    <3> QED
      BY <1>0, <2>2, <3>0, <3>2, <3>3 DEF Typed, UploadTypeOK, Offsets, scan, output
  <2> QED
    BY <1>9, <2>1, <2>2 DEF next_buffer
<1>10. CASE UNCHANGED vars
  BY <1>0, <1>10 DEF Typed, UploadTypeOK, Offsets, vars, chunk, scan, output, ScanEnd
<1> QED
  BY <1>1, <1>2, <1>3, <1>4, <1>5, <1>6, <1>7, <1>8, <1>9, <1>10 DEF Next

\* Before the first step the types are right.
LEMMA TypedInitially == Init => Typed
<1> SUFFICES ASSUME Init PROVE Typed
  OBVIOUS
<1>1. upload \in Upload
  BY UploadAssumption DEF Init
<1>2. buffer \in Seq(Byte) /\ Len(buffer) = 0 /\ stored \in Seq(Byte)
  BY EmptySeq DEF Init
<1>3. Offsets
  BY DEF Init, Offsets
<1>4. 0 \in 0 .. Len(upload.body) /\ 0 \in 0 .. BufferLen /\ 0 \in 0 .. MaxShort
  BY <1>1, Patterns
<1>5. Len(buffer) <= BufferLen
  BY <1>2, Patterns
<1>6. /\ pc = "start" /\ got = 0 /\ filled = FALSE /\ first = TRUE
      /\ p_payload = 0 /\ p_payload_end = 0 /\ post_boundary_found = FALSE
      /\ to_write = 0 /\ written = 0 /\ shorts = 0 /\ file = FALSE /\ outcome = "none"
  BY DEF Init
<1>7. UploadTypeOK
  BY <1>1, <1>2, <1>4, <1>5, <1>6, Zenon DEF UploadTypeOK
<1> QED
  BY <1>3, <1>7 DEF Typed

\* Every state has the types, and its offsets are in the buffer.
LEMMA AlwaysTyped == Spec => []Typed
BY TypedInitially, TypedInductive, PTL DEF Spec

\* For any size of the buffer, a boundary that is longer than it included: every variable
\* of fcgi_write_file_from_stream() keeps its type, FCGX_GetStr() fills no more than the
\* buffer, and write() is given bytes of the buffer that have been read.
THEOREM UploadTypeCorrect == Spec => [](UploadTypeOK /\ Offsets)
<1>1. Typed <=> UploadTypeOK /\ Offsets
  BY DEF Typed
<1> QED
  BY <1>1, AlwaysTyped, PTL

-------------------------------------------------------------------------------
\* How many steps there are

\* One run of the loop less counts for more than all its stages.
LEMMA FewerRuns ==
  ASSUME NEW a \in Nat, NEW b \in Nat, NEW w \in Nat, NEW c \in Nat, NEW d \in Nat,
         a < b, c < w
  PROVE  a * w + c < b * w + d
<1> DEFINE k == b - a - 1
<1>1. k \in Nat /\ b = a + 1 + k
  OBVIOUS
<1> HIDE DEF k
<1>2. b * w = a * w + w + k * w
  BY <1>1, SMT
<1>3. a * w \in Nat /\ k * w \in Nat
  BY <1>1, SMT
<1>4. a * w + c < (a * w + w + k * w) + d
  BY <1>3
<1> QED
  BY <1>2, <1>4

\* The stages of a run of the loop
LEMMA Stages ==
  /\ pc = "start" => Stage = 1
  /\ pc = "loop" => Stage = 0
  /\ pc = "start_of_data" => Stage = BufferLen + 3
  /\ pc = "boundary" => Stage = BufferLen + 2
  /\ pc = "write" => Stage = to_write + 1
  /\ pc = "done" => Stage = 0
BY DEF Stage

\* The same of the next state
LEMMA NextStages ==
  /\ pc' = "start" => Stage' = 1
  /\ pc' = "loop" => Stage' = 0
  /\ pc' = "start_of_data" => Stage' = BufferLen + 3
  /\ pc' = "boundary" => Stage' = BufferLen + 2
  /\ pc' = "write" => Stage' = to_write' + 1
  /\ pc' = "done" => Stage' = 0
BY DEF Stage

\* The product of two natural numbers is one.
LEMMA Product == ASSUME NEW a \in Nat, NEW b \in Nat PROVE a * b \in Nat
BY SMT

\* The numbers that the rank is made of
LEMMA RankNumbers ==
  ASSUME Typed
  PROVE  /\ Runs \in Nat /\ Stage \in Nat /\ Stage < BufferLen + 4 /\ BufferLen + 4 \in Nat
         /\ Runs * (BufferLen + 4) \in Nat
         /\ Rank \in Nat /\ (pc # "done" => Rank \in Nat \ {0})
<1>1. /\ to_write \in 0 .. BufferLen /\ BufferLen \in Nat
      /\ Len(upload.body) - got \in Nat
  BY TypedNumbers, Patterns DEF Typed, UploadTypeOK
<1>2. Runs \in Nat
  BY <1>1 DEF Runs
<1>3. Stage \in Nat /\ Stage < BufferLen + 4
  BY <1>1, Stages DEF Typed, UploadTypeOK
<1>4. BufferLen + 4 \in Nat \ {0} /\ Runs * (BufferLen + 4) \in Nat
  BY <1>1, <1>2, SMT
<1>5. ASSUME pc # "done" PROVE Runs * (BufferLen + 4) + Stage > 0
  <2>1. CASE pc = "loop"
    <3>1. Runs \in Nat \ {0}
      BY <1>1, <2>1 DEF Runs
    <3>2. Runs * (BufferLen + 4) > 0
      BY <1>4, <3>1, SMT
    <3> QED
      BY <1>3, <1>4, <3>2
  <2>2. CASE pc # "loop"
    <3>1. Stage > 0
      BY <1>1, <1>5, <2>2, Stages DEF Typed, UploadTypeOK
    <3> QED
      BY <1>3, <1>4, <3>1
  <2> QED
    BY <2>1, <2>2
<1> QED
  BY <1>2, <1>3, <1>4, <1>5 DEF Rank

\* Whenever the buffer is to be read there is room in it for one byte at least.
LEMMA RoomInductive == Typed /\ Room /\ [Next]_vars => Room'
<1> SUFFICES ASSUME Typed, Room, [Next]_vars PROVE Room'
  OBVIOUS
<1>1. CASE next_buffer
  <2>1. CASE pc' = "done"
    BY <2>1 DEF Room
  <2>2. CASE pc' # "done"
    <3>1. p_payload_end <= ScanEnd /\ buffer' = Kept
      BY <1>1, <2>2 DEF next_buffer, End
    <3>2. /\ p_payload_end \in Nat /\ p_payload_end + boundary_len \in Nat
          /\ p_payload_end <= p_payload_end + boundary_len
          /\ p_payload_end + boundary_len <= Len(buffer) /\ boundary_len \in Nat
      BY <3>1, TypedNumbers, Patterns
    <3>3. Len(Kept) = (p_payload_end + boundary_len) - p_payload_end
      BY <3>2, BytesOf DEF Typed, UploadTypeOK, Kept
    <3>4. boundary_len < BufferLen
      BY <1>1 DEF next_buffer, Typed, Offsets
    <3> QED
      BY <3>1, <3>2, <3>3, <3>4 DEF Room
  <2> QED
    BY <2>1, <2>2
<1>2. CASE check_content_type
  BY <1>2 DEF check_content_type, End, chunk, Room
<1>3. CASE FCGX_GetStr
  BY <1>3 DEF FCGX_GetStr, Room
<1>4. CASE find_start_of_data \/ find_post_boundary \/ write
  BY <1>4 DEF find_start_of_data, find_post_boundary, write, Writes, End, Room
<1>5. CASE loop_Ends \/ FCGX_GetStr_Fails \/ write_Fails
  BY <1>5 DEF loop_Ends, FCGX_GetStr_Fails, write_Fails, End, Room
<1>6. CASE UNCHANGED vars
  BY <1>6 DEF vars, chunk, Room
<1> QED
  BY <1>1, <1>2, <1>3, <1>4, <1>5, <1>6 DEF Next

\* A step that does not read leaves the run of the loop for a later stage, or ends it.
LEMMA StageAdvances ==
  ASSUME Typed, pc # "done", UNCHANGED Runs, Stage' \in Nat, Stage' < Stage
  PROVE  Rank' \in 0 .. Rank - 1
<1>1. CASE pc' = "done"
  <2>1. Rank' = 0 /\ Rank \in Nat \ {0}
    BY <1>1, RankNumbers DEF Rank
  <2> QED
    BY <2>1
<1>2. CASE pc' # "done"
  <2>1. /\ Rank = Runs * (BufferLen + 4) + Stage
        /\ Rank' = Runs * (BufferLen + 4) + Stage'
    BY <1>2 DEF Rank
  <2>2. Runs * (BufferLen + 4) \in Nat /\ Stage \in Nat
    BY RankNumbers
  <2> QED
    BY <2>1, <2>2
<1> QED
  BY <1>1, <1>2

\* The end of the function leaves nothing to do.
LEMMA EndAdvances ==
  ASSUME Typed, pc # "done", NEW o, End(o)
  PROVE  Rank' \in 0 .. Rank - 1
<1>1. Rank' = 0 /\ Rank \in Nat \ {0}
  BY RankNumbers DEF Rank, End
<1> QED
  BY <1>1

\* Each call of FCGX_GetStr() reads something, or it is the last.
LEMMA ReadAdvances ==
  ASSUME Typed, Typed', Room, FCGX_GetStr
  PROVE  Rank' \in 0 .. Rank - 1
<1>1. PICK n \in Nat : Reads(n)
  BY GetStrReads
<1>2. /\ pc = "loop" /\ pc' \in {"start_of_data", "boundary"} /\ upload' = upload
  BY DEF FCGX_GetStr
<1>3. /\ Len(upload.body) \in Nat /\ got \in 0 .. Len(upload.body)
      /\ got' = got + n /\ got + n <= Len(upload.body)
      /\ BufferLen \in Nat /\ Len(buffer) \in Nat /\ Len(buffer) < BufferLen
  BY <1>1, <1>2, TypedNumbers, Patterns DEF Reads, Room
<1>4. Runs = Len(upload.body) - got + 1 /\ Runs \in Nat
  BY <1>2, <1>3 DEF Runs
<1>5. /\ Runs' = (Len(upload.body) - (got + n)) + (IF filled' THEN 1 ELSE 0)
      /\ filled' \in BOOLEAN
  BY <1>1, <1>2, <1>3 DEF Runs, Reads
<1>6. Runs' \in Nat /\ Runs' < Runs
  <2>1. CASE filled'
    <3>1. n > 0
      BY <1>1, <1>3, <2>1 DEF Reads
    <3> QED
      BY <1>3, <1>4, <1>5, <2>1, <3>1
  <2>2. CASE ~filled'
    BY <1>3, <1>4, <1>5, <2>2
  <2> QED
    BY <2>1, <2>2
<1>7. Stage = 0 /\ Stage' \in Nat /\ Stage' < BufferLen + 4
  BY <1>2, <1>3, Stages, NextStages
<1>8. /\ Rank = Runs * (BufferLen + 4) + Stage
      /\ Rank' = Runs' * (BufferLen + 4) + Stage'
  BY <1>2 DEF Rank
<1>9. Rank' < Rank
  <2>1. BufferLen + 4 \in Nat /\ Stage \in Nat
    BY <1>3, <1>7
  <2> QED
    BY <1>4, <1>6, <1>7, <1>8, <2>1, FewerRuns
<1>10. Rank' \in Nat
  <2>1. Runs' * (BufferLen + 4) \in Nat
    <3>1. BufferLen + 4 \in Nat /\ Runs' \in Nat
      BY <1>3, <1>6
    <3> QED
      BY <3>1, Product
  <2> QED
    BY <1>7, <1>8, <2>1
<1> QED
  BY <1>9, <1>10, RankNumbers

\* Every step leaves less to do.
LEMMA StepAdvances ==
  ASSUME Typed, Typed', Room, Next
  PROVE  Rank' \in 0 .. Rank - 1
<1>0. BufferLen \in Nat /\ to_write \in Nat
  BY Patterns, TypedNumbers
<1>1. PICK b \in 0 .. BufferLen : to_write' = b
  BY Zenon DEF Typed, UploadTypeOK
<1>2. CASE pc # "done" /\ \E o \in {"accepted", "rejected", "crash", "undefined"} : End(o)
  BY <1>2, EndAdvances
<1>3. CASE FCGX_GetStr
  BY <1>3, ReadAdvances
<1>4. CASE pc = "start" /\ pc' = "loop" /\ UNCHANGED <<upload, chunk>>
  <2>1. UNCHANGED Runs
    BY <1>4 DEF Runs, chunk
  <2> QED
    BY <1>4, <2>1, Stages, NextStages, StageAdvances
<1>5. CASE pc = "start_of_data" /\ pc' = "boundary" /\ UNCHANGED <<upload, chunk>>
  <2>1. UNCHANGED Runs
    BY <1>5 DEF Runs, chunk
  <2>2. Stage' \in Nat /\ Stage' < Stage
    BY <1>0, <1>5, Stages, NextStages
  <2> QED
    BY <1>5, <2>1, <2>2, StageAdvances
<1>6. CASE pc = "boundary" /\ pc' = "write" /\ UNCHANGED <<upload, chunk>>
  <2>1. UNCHANGED Runs
    BY <1>6 DEF Runs, chunk
  <2>2. Stage = BufferLen + 2 /\ Stage' = to_write' + 1
    BY <1>6, Stages, NextStages
  <2>3. Stage' \in Nat /\ Stage' < Stage
    <3>1. Stage' = b + 1
      BY <1>1, <2>2
    <3> QED
      BY <1>0, <2>2, <3>1
  <2> QED
    BY <1>6, <2>1, <2>3, StageAdvances
<1>7. CASE write
  <2>1. pc = "write" /\ pc' = "write" /\ UNCHANGED <<upload, chunk>>
    BY <1>7 DEF write
  <2>2. UNCHANGED Runs
    BY <2>1 DEF Runs, chunk
  <2>3. b < to_write
    <3>1. \E n \in 1 .. to_write : b = to_write - n
      BY <1>1, <1>7 DEF write
    <3> QED
      BY <1>0, <3>1
  <2>4. Stage = to_write + 1 /\ Stage' = b + 1
    BY <1>1, <2>1, Stages, NextStages
  <2>5. Stage' \in Nat /\ Stage' < Stage
    BY <1>0, <2>3, <2>4
  <2> QED
    BY <2>1, <2>2, <2>5, StageAdvances
<1>8. CASE pc = "write" /\ pc' = "loop" /\ filled /\ UNCHANGED <<upload, got, filled>>
  <2>1. UNCHANGED Runs
    BY <1>8 DEF Runs
  <2>2. Stage' \in Nat /\ Stage' < Stage
    BY <1>0, <1>8, Stages, NextStages
  <2> QED
    BY <1>8, <2>1, <2>2, StageAdvances
<1>9. QED
  BY <1>2, <1>3, <1>4, <1>5, <1>6, <1>7, <1>8
  DEF Next, check_content_type, loop_Ends, FCGX_GetStr_Fails, find_start_of_data,
      find_post_boundary, Writes, write_Fails, next_buffer

\* fcgi_write_file_from_stream() takes finitely many steps for every request, every size
\* of the buffer and boundary, and however often write() is short: each step leaves less
\* to do than the one before.
THEOREM StepsAreFinite == Spec => Advances
<1>1. Init => Room
  <2>1. Init => Len(buffer) = 0
    BY EmptySeq DEF Init
  <2> QED
    BY <2>1, Patterns DEF Room
<1>2. Typed /\ Typed' /\ Room /\ [Next]_vars => Room' /\ [Rank' \in 0 .. Rank - 1]_vars
  BY RoomInductive, StepAdvances
<1> QED
  BY <1>1, <1>2, AlwaysTyped, PTL DEF Spec, Advances

-------------------------------------------------------------------------------
\* What is stored

\* Everything that the proofs need to know of a state of the right type
LEMMA WindowNumbers ==
  ASSUME Typed, Window
  PROVE  /\ Base \in Nat /\ Base = got - Len(buffer)
         /\ Base + Len(buffer) <= Len(upload.body)
         /\ upload.body \in Seq(Byte) /\ buffer \in Seq(Byte)
BY TypedNumbers, Patterns DEF Window, Base, Typed, UploadTypeOK

\* The end of the function leaves the file alone.
LEMMA EndSent ==
  ASSUME Sent, NEW o, o # "accepted", End(o)
  PROVE  Sent'
<1>1. pc' = "done" /\ outcome' = o /\ UNCHANGED <<upload, got, buffer>>
  BY DEF End, chunk
<1>2. Window'
  BY <1>1 DEF Sent, Window, Base
<1>3. BeforeWriting' /\ WhileWriting'
  BY <1>1 DEF BeforeWriting, WhileWriting
<1>4. StoredAsSent'
  BY <1>1 DEF StoredAsSent
<1> QED
  BY <1>1, <1>2, <1>3, <1>4 DEF Sent

\* What has been stored stays stored.
LEMMA StoredStays ==
  ASSUME NEW x, UNCHANGED <<upload, stored>>, StoredUpTo(x)
  PROVE  \E s \in 0 .. Len(upload'.body) :
           /\ MatchesAt(upload'.body, data_start, s - Len(data_start))
           /\ x \in s .. Len(upload'.body)
           /\ stored' = Bytes(upload'.body, s, x)
BY DEF StoredUpTo

\* A file of no bytes ends where the header does.
LEMMA NothingStored ==
  ASSUME Typed, NEW x, StoredUpTo(x), stored = <<>>
  PROVE  /\ x \in 0 .. Len(upload.body)
         /\ MatchesAt(upload.body, data_start, x - Len(data_start))
<1>1. PICK s \in 0 .. Len(upload.body) :
        /\ MatchesAt(upload.body, data_start, s - Len(data_start))
        /\ x \in s .. Len(upload.body)
        /\ stored = Bytes(upload.body, s, x)
  BY DEF StoredUpTo
<1>2. upload.body \in Seq(Byte) /\ Len(upload.body) \in Nat
  BY Patterns DEF Typed, UploadTypeOK
<1>3. Len(stored) = x - s
  BY <1>1, <1>2, BytesOf
<1>4. x = s
  BY <1>1, <1>2, <1>3
<1> QED
  BY <1>1, <1>4

\* The boundary with what precedes it
LEMMA Delimiter ==
  \E S : data_end \in Seq(S) /\ Boundary \in Seq(S) /\ data_end \o Boundary \in Seq(S)
<1> DEFINE S == Byte \cup {"CR", "LF", "-"}
<1>1. data_end \in Seq(S)
  BY Patterns, SeqMonotonic
<1>2. Boundary \in Seq(S)
  BY Patterns, SeqMonotonic
<1> QED
  BY <1>1, <1>2, ConcatProperties

\* write() appends the n bytes of the body that follow those that have been stored.
WritesNext(n) ==
  LET x == Base + p_payload_end - to_write
  IN  /\ x \in Nat /\ x + n \in Nat /\ x <= x + n /\ x + n <= Len(upload.body)
      /\ stored' = stored \o Bytes(upload.body, x, x + n)
      /\ to_write' = to_write - n
      /\ Base' + p_payload_end' - to_write' = x + n
      /\ to_write' > 0 => written' + to_write' = p_payload_end - p_payload
      /\ to_write' > 0 => shorts' > 0
      /\ shorts' \in Nat

\* It does so whenever it has been short at most once for this buffer.
LEMMA WriteAppends ==
  ASSUME MaxShort <= 1, Typed, UploadTypeOK, Offsets, Window, WhileWriting, write
  PROVE  \E n \in 1 .. to_write : WritesNext(n)
<1>1. PICK n \in 1 .. to_write :
        /\ n = to_write \/ shorts < MaxShort
        /\ stored' = stored \o Bytes(buffer, WriteFrom, WriteFrom + n)
        /\ written' = n
        /\ to_write' = to_write - n
        /\ shorts' = shorts + (IF n < to_write THEN 1 ELSE 0)
  BY DEF write
<1>2. /\ pc = "write" /\ to_write > 0
      /\ UNCHANGED <<upload, pc, got, buffer, p_payload, p_payload_end, Base>>
  BY DEF write, chunk, scan, Base
<1> DEFINE x == Base + p_payload_end - to_write
<1>3. p_payload_end >= p_payload /\ written + to_write = p_payload_end - p_payload
  BY <1>2 DEF WhileWriting
<1>4. /\ WriteFrom \in Nat /\ WriteFrom + n \in Nat /\ WriteFrom <= WriteFrom + n
      /\ WriteFrom + n <= Len(buffer)
      /\ Base + WriteFrom = x /\ Base + (WriteFrom + n) = x + n
      /\ x \in Nat /\ x + n \in Nat /\ x <= x + n /\ x + n <= Len(upload.body)
  <2>1. /\ Base \in Nat /\ Base + Len(buffer) <= Len(upload.body)
        /\ Len(buffer) \in Nat /\ Len(upload.body) \in Nat /\ n \in Nat /\ n <= to_write
        /\ p_payload \in Nat /\ p_payload_end \in Nat
        /\ to_write \in Nat /\ written \in Nat /\ WriteFrom = p_payload + written
    BY TypedNumbers, WindowNumbers
  <2>2. p_payload_end <= Len(buffer)
    BY <1>2 DEF Offsets
  <2>3. WriteFrom = p_payload_end - to_write
    BY <1>3, <2>1
  <2> QED
    BY <2>1, <2>2, <2>3
<1>5. /\ Base' + p_payload_end' - to_write' = x + n
      /\ to_write' > 0 => written' + to_write' = p_payload_end - p_payload
      /\ to_write' > 0 => shorts' > 0
      /\ shorts' \in Nat
  BY <1>1, <1>2, <1>3, TypedNumbers, WindowNumbers, Patterns DEF WhileWriting, UploadTypeOK
<1> HIDE DEF x
<1>6. Bytes(buffer, WriteFrom, WriteFrom + n) = Bytes(upload.body, x, x + n)
  BY <1>4, WindowNumbers, TypedNumbers, BytesInWindow
<1> QED
  BY <1>1, <1>4, <1>5, <1>6 DEF WritesNext, x

\* No step stores anything but the next bytes of the body, in their order.
LEMMA SentInductive ==
  ASSUME MaxShort <= 1, Typed, Typed', Sent, [Next]_vars
  PROVE  Sent'
<1>0. /\ UploadTypeOK /\ Offsets /\ Window /\ BeforeWriting /\ WhileWriting
      /\ pc # "done" => outcome = "none"
  BY DEF Typed, Sent
<1>1. CASE check_content_type
  <2>1. CASE End("crash") \/ End("rejected")
    BY <2>1, EndSent
  <2>2. CASE pc' = "loop" /\ UNCHANGED <<upload, chunk, scan, output, outcome>>
    <3>1. pc = "start"
      BY <1>1 DEF check_content_type
    <3>2. stored' = <<>> /\ first' = TRUE /\ post_boundary_found' = FALSE
      BY <1>0, <2>2, <3>1 DEF BeforeWriting, UploadTypeOK, output, chunk, scan
    <3> QED
      BY <1>0, <2>2, <3>1, <3>2
      DEF Sent, Window, Base, BeforeWriting, WhileWriting, StoredAsSent, chunk
  <2> QED
    BY <1>1, <2>1, <2>2 DEF check_content_type
<1>2. CASE loop_Ends
  BY <1>2, EndSent DEF loop_Ends
<1>3. CASE FCGX_GetStr_Fails
  BY <1>3, EndSent DEF FCGX_GetStr_Fails
<1>4. CASE FCGX_GetStr
  <2>1. PICK n \in Nat : Reads(n)
    BY <1>4, GetStrReads
  <2>2. /\ pc = "loop" /\ pc' = (IF first THEN "start_of_data" ELSE "boundary")
        /\ p_payload' = 0
        /\ UNCHANGED <<upload, first, p_payload_end, post_boundary_found, stored, outcome>>
    BY <1>4 DEF FCGX_GetStr, output
  <2>3. /\ Len(buffer') = Len(buffer) + n
        /\ \A k \in 1 .. Len(buffer) + n :
             buffer'[k] = IF k <= Len(buffer) THEN buffer[k]
                          ELSE upload.body[got + (k - Len(buffer))]
    BY <1>0, <2>1, ReadsAppend DEF UploadTypeOK
  <2>4. Base' = Base
    BY <1>0, <2>1, <2>3, WindowNumbers, TypedNumbers DEF Reads, Base
  <2>5. \A k \in 1 .. Len(buffer') : buffer'[k] = upload.body[Base + k]
    <3> TAKE k \in 1 .. Len(buffer')
    <3>1. CASE k <= Len(buffer)
      BY <1>0, <2>3, <3>1 DEF Window
    <3>2. CASE ~(k <= Len(buffer))
      <4>2. buffer'[k] = upload.body[got + (k - Len(buffer))]
        BY <2>1, <2>3, <3>2
      <4>3. got + (k - Len(buffer)) = Base + k
        BY <1>0, <2>3, TypedNumbers, WindowNumbers
      <4> QED
        BY <4>2, <4>3
    <3> QED
      BY <3>1, <3>2
  <2>6. Window'
    BY <1>0, <2>2, <2>4, <2>5 DEF Window
  <2>7. BeforeWriting'
    <3>1. CASE first
      BY <1>0, <2>2, <3>1 DEF BeforeWriting
    <3>2. CASE ~first
      <4>1. StoredUpTo(Base)
        BY <1>0, <2>2, <3>2 DEF BeforeWriting
      <4>2. Base' + p_payload' = Base
        BY <1>0, <2>2, <2>4, WindowNumbers
      <4>3. StoredUpTo(Base + p_payload)'
        BY <2>2, <4>1, <4>2, StoredStays DEF StoredUpTo
      <4> QED
        BY <1>0, <2>2, <3>2, <4>3 DEF BeforeWriting
    <3> QED
      BY <1>0, <3>1, <3>2 DEF UploadTypeOK
  <2> QED
    BY <1>0, <2>2, <2>6, <2>7 DEF Sent, WhileWriting, StoredAsSent
<1>5. CASE find_start_of_data
  <2>1. CASE End("undefined") \/ End("crash")
    BY <2>1, EndSent
  <2>2. ASSUME NEW i \in boundary_len + 1 .. Len(buffer),
               FirstMatch(buffer, data_start, boundary_len + 1, Len(buffer), i),
               p_payload' = i + Len(data_start), pc = "start_of_data", pc' = "boundary",
               UNCHANGED <<upload, chunk, p_payload_end, post_boundary_found, output,
                           file, outcome>>
        PROVE  Sent'
    <3>1. UNCHANGED <<Base, upload, got, buffer, stored, outcome, post_boundary_found>>
      BY <2>2 DEF Base, chunk, output
    <3>2. /\ i \in Int /\ MatchesAt(buffer, data_start, i) /\ i >= 0
          /\ i + 4 <= Len(buffer)
      BY <2>2, Patterns DEF FirstMatch, MatchesAt
    <3>3. MatchesAt(upload.body, data_start, Base + i)
      BY <1>0, <3>2, WindowNumbers, TypedNumbers, Patterns, MatchInWindow
    <3> DEFINE s == Base + i + 4
    <3>4. /\ s \in 0 .. Len(upload.body) /\ s - Len(data_start) = Base + i
          /\ Base + p_payload' = s /\ s \in s .. Len(upload.body)
      <4>0. /\ Base \in Nat /\ Base + Len(buffer) <= Len(upload.body)
            /\ Len(buffer) \in Nat /\ Len(upload.body) \in Nat
        BY <1>0, WindowNumbers, TypedNumbers
      <4>1. s \in 0 .. Len(upload.body)
        BY <3>2, <4>0
      <4>2. Len(data_start) = 4
        BY Patterns
      <4>3. s - 4 = Base + i /\ Base + (i + 4) = s
        BY <1>0, <3>2, WindowNumbers
      <4> QED
        BY <2>2, <4>1, <4>2, <4>3
    <3>5. stored = <<>> /\ Bytes(upload.body, s, s) = <<>>
      BY <1>0, <2>2, <3>4, SubSeqEmpty DEF BeforeWriting, Bytes
    <3> HIDE DEF s
    <3>6. StoredUpTo(s)
      BY <3>3, <3>4, <3>5 DEF StoredUpTo
    <3>7. StoredUpTo(Base + p_payload)'
      BY <3>1, <3>4, <3>6, StoredStays DEF StoredUpTo
    <3>8. BeforeWriting'
      BY <1>0, <2>2, <3>1, <3>5, <3>7 DEF BeforeWriting
    <3> QED
      BY <1>0, <2>2, <3>1, <3>8 DEF Sent, Window, WhileWriting, StoredAsSent
  <2> QED
    BY <1>5, <2>1, <2>2 DEF find_start_of_data
<1>6. CASE find_post_boundary
  <2>1. CASE End("rejected")
    BY <2>1, EndSent
  <2>2. ASSUME NEW to \in Nat, Writes(to), post_boundary_found' \in BOOLEAN,
               IF post_boundary_found' THEN MatchesAt(buffer, data_end \o Boundary, to)
               ELSE to >= p_payload /\ to >= ScanEnd
        PROVE  Sent'
    <3>1. /\ pc' = "write" /\ p_payload_end' = to /\ written' = 0
          /\ to_write' = (IF to > p_payload THEN to - p_payload ELSE 0)
          /\ UNCHANGED <<Base, ScanEnd, upload, got, buffer, p_payload, stored, outcome>>
      BY <2>2 DEF Writes, Base, ScanEnd, chunk
    <3>2. StoredUpTo(Base + p_payload) /\ (p_payload = 0 \/ stored = <<>>)
      BY <1>0, <1>6 DEF BeforeWriting, find_post_boundary
    <3>3. StoredUpTo(Base + p_payload)'
      BY <3>1, <3>2, StoredStays DEF StoredUpTo
    <3>4. /\ to >= p_payload => Base + to - to_write' = Base + p_payload
          /\ to_write' > 0 => written' + to_write' = to - p_payload
          /\ ~(to >= p_payload) => p_payload # 0 /\ to_write' = 0
      BY <1>0, <2>2, <3>1, WindowNumbers, TypedNumbers
    <3>5. to >= p_payload => StoredUpTo(Base + p_payload_end - to_write)'
      BY <3>1, <3>3, <3>4
    <3>6. WhileWriting'
      BY <2>2, <3>1, <3>2, <3>3, <3>4, <3>5 DEF WhileWriting
    <3> QED
      BY <1>0, <1>6, <3>1, <3>6
      DEF Sent, Window, BeforeWriting, StoredAsSent, find_post_boundary
  <2>3. ASSUME NEW i \in p_payload .. ScanEnd - 1,
               MatchesAt(buffer, Boundary, i),
               MatchesAt(buffer, data_end, i - Len(data_end)),
               post_boundary_found' = TRUE, Writes(i - Len(data_end))
        PROVE  Sent'
    <3> DEFINE to == i - Len(data_end)
    <3>1. to \in Nat /\ to \in Int /\ to + Len(data_end) = i
      BY <2>3, TypedNumbers, Patterns DEF MatchesAt
    <3>2. MatchesAt(buffer, data_end, to) /\ Writes(to)
      BY <2>3
    <3> HIDE DEF to
    <3>3. MatchesAt(buffer, data_end \o Boundary, to)
      BY <2>3, <3>1, <3>2, TypedNumbers, Delimiter, MatchesJoin
    <3> QED
      BY <2>2, <2>3, <3>1, <3>2, <3>3
  <2>4. ASSUME Writes(IF p_payload < ScanEnd THEN ScanEnd ELSE p_payload),
               UNCHANGED post_boundary_found
        PROVE  Sent'
    <3> DEFINE to == IF p_payload < ScanEnd THEN ScanEnd ELSE p_payload
    <3>1. to \in Nat /\ to >= p_payload /\ to >= ScanEnd
      BY TypedNumbers
    <3>2. post_boundary_found' = FALSE
      BY <1>0, <1>6, <2>4 DEF find_post_boundary, BeforeWriting, UploadTypeOK
    <3> HIDE DEF to
    <3>3. Writes(to)
      BY <2>4 DEF to
    <3> QED
      BY <2>2, <3>1, <3>2, <3>3
  <2>5. QED
    BY <1>6, <2>1, <2>3, <2>4 DEF find_post_boundary, FirstMatch
<1>7. CASE write
  <2> DEFINE x == Base + p_payload_end - to_write
  <2>1. PICK n \in 1 .. to_write : WritesNext(n)
    BY <1>0, <1>7, WriteAppends
  <2>2. /\ pc = "write" /\ to_write > 0
        /\ UNCHANGED <<upload, pc, got, buffer, p_payload, p_payload_end,
                       post_boundary_found, outcome, Base, ScanEnd>>
    BY <1>7 DEF write, chunk, scan, Base, ScanEnd
  <2>3. p_payload_end >= p_payload /\ StoredUpTo(x)
    BY <1>0, <2>2 DEF WhileWriting
  <2>4. /\ Base' + p_payload_end' - to_write' = x + n
        /\ to_write' > 0 => written' + to_write' = p_payload_end - p_payload
        /\ to_write' > 0 => shorts' > 0
        /\ shorts' \in Nat
        /\ x \in Nat /\ x + n \in Nat /\ x <= x + n /\ x + n <= Len(upload.body)
        /\ stored' = stored \o Bytes(upload.body, x, x + n)
    BY <2>1 DEF WritesNext
  <2> HIDE DEF x
  <2>5. PICK s \in 0 .. Len(upload.body) :
          /\ MatchesAt(upload.body, data_start, s - Len(data_start))
          /\ x \in s .. Len(upload.body)
          /\ stored = Bytes(upload.body, s, x)
    BY <2>3 DEF StoredUpTo
  <2>6. s \in Nat /\ s <= x /\ x + n \in s .. Len(upload.body)
    BY <2>4, <2>5, TypedNumbers
  <2>7. stored' = Bytes(upload.body, s, x + n)
    <3>1. upload.body \in Seq(Byte)
      BY <1>0, WindowNumbers
    <3>2. x \in Nat /\ x + n \in Nat /\ x <= x + n /\ x + n <= Len(upload.body)
      BY <2>4
    <3>3. Bytes(upload.body, s, x) \o Bytes(upload.body, x, x + n)
            = Bytes(upload.body, s, x + n)
      BY <2>6, <3>1, <3>2, BytesJoin, Zenon
    <3> QED
      BY <2>4, <2>5, <3>3
  <2>8. StoredUpTo(Base + p_payload_end - to_write)'
    BY <2>2, <2>4, <2>5, <2>6, <2>7 DEF StoredUpTo
  <2>9. WhileWriting'
    BY <1>0, <2>2, <2>3, <2>4, <2>8 DEF WhileWriting
  <2> QED
    BY <1>0, <2>2, <2>9 DEF Sent, Window, BeforeWriting, StoredAsSent
<1>8. CASE write_Fails
  BY <1>8, EndSent DEF write_Fails
<1>9. CASE next_buffer
  <2>0. pc = "write" /\ to_write = 0
    BY <1>9 DEF next_buffer
  <2>1. CASE End("rejected") \/ End("undefined")
    BY <2>1, EndSent
  <2>2. CASE post_boundary_found /\ End("accepted")
    <3> DEFINE t == Base + p_payload_end
    <3>1. MatchesAt(buffer, data_end \o Boundary, p_payload_end)
      BY <1>0, <2>0, <2>2 DEF WhileWriting
    <3>2. MatchesAt(upload.body, data_end \o Boundary, t)
      <4>1. PICK S : data_end \o Boundary \in Seq(S)
        BY Delimiter
      <4>2. /\ p_payload_end \in Int /\ upload.body \in Seq(Byte) /\ buffer \in Seq(Byte)
            /\ got \in 0 .. Len(upload.body)
        BY <1>0, WindowNumbers, TypedNumbers
      <4> QED
        BY <1>0, <3>1, <4>1, <4>2, MatchInWindow
    <3>3. t \in 0 .. Len(upload.body)
      BY <1>0, <2>0, WindowNumbers, TypedNumbers DEF Offsets
    <3>4. \E s \in 0 .. Len(upload.body) :
            /\ MatchesAt(upload.body, data_start, s - Len(data_start))
            /\ stored = Bytes(upload.body, s, t)
      <4>1. CASE p_payload_end >= p_payload
        <5>1. Base + p_payload_end - to_write = t
          BY <1>0, <2>0, WindowNumbers, TypedNumbers
        <5>2. StoredUpTo(t)
          BY <1>0, <2>0, <4>1, <5>1 DEF WhileWriting
        <5> QED
          BY <5>2 DEF StoredUpTo
      <4>2. CASE ~(p_payload_end >= p_payload)
        <5> DEFINE s == Base + p_payload
        <5>1. StoredUpTo(s) /\ stored = <<>>
          BY <1>0, <2>0, <4>2 DEF WhileWriting
        <5>2. s \in Int /\ t < s + 1
          BY <1>0, <4>2, WindowNumbers, TypedNumbers
        <5>3. Bytes(upload.body, s, t) = <<>>
          BY <3>3, <5>2, SubSeqEmpty DEF Bytes
        <5> HIDE DEF s, t
        <5>4. /\ s \in 0 .. Len(upload.body)
              /\ MatchesAt(upload.body, data_start, s - Len(data_start))
          BY <5>1, NothingStored
        <5> QED
          BY <5>1, <5>3, <5>4
      <4> QED
        BY <4>1, <4>2
    <3> HIDE DEF t
    <3>5. pc' = "done" /\ UNCHANGED <<upload, got, buffer, stored>>
      BY <2>2 DEF End, chunk, output
    <3>6. StoredAsSent'
      BY <3>2, <3>3, <3>4, <3>5 DEF StoredAsSent
    <3> QED
      BY <1>0, <3>5, <3>6 DEF Sent, Window, Base, BeforeWriting, WhileWriting
  <2>3. ASSUME ~post_boundary_found, p_payload_end <= ScanEnd, buffer' = Kept,
               first' = FALSE, pc' = "loop",
               UNCHANGED <<upload, got, filled, scan, output, file, outcome>>
        PROVE  Sent'
    <3>1. p_payload_end = ScanEnd /\ StoredUpTo(Base + p_payload_end - to_write)
      BY <1>0, <2>0, <2>3, TypedNumbers DEF WhileWriting
    <3>2. /\ p_payload_end \in Nat /\ p_payload_end + boundary_len = Len(buffer)
          /\ Len(buffer) \in Nat /\ p_payload_end <= Len(buffer)
      BY <3>1, TypedNumbers, Patterns
    <3>3. /\ Len(Kept) = Len(buffer) - p_payload_end
          /\ \A k \in 1 .. Len(buffer) - p_payload_end :
               Kept[k] = buffer[p_payload_end + k]
      <4>1. Kept = Bytes(buffer, p_payload_end, Len(buffer))
        BY <3>2 DEF Kept
      <4>2. buffer \in Seq(Byte) /\ Len(buffer) <= Len(buffer)
        BY <1>0, <3>2 DEF UploadTypeOK
      <4>3. /\ Len(Bytes(buffer, p_payload_end, Len(buffer))) = Len(buffer) - p_payload_end
            /\ \A k \in 1 .. Len(buffer) - p_payload_end :
                 Bytes(buffer, p_payload_end, Len(buffer))[k] = buffer[p_payload_end + k]
        BY <3>2, <4>2, BytesOf, Zenon
      <4> QED
        BY <4>1, <4>3
    <3>4. Base' = Base + p_payload_end /\ Base' \in Nat
      <4>1. Base' = got - Len(Kept)
        BY <2>3 DEF Base
      <4>2. Base \in Nat /\ Base = got - Len(buffer) /\ got \in Nat
        BY <1>0, WindowNumbers, TypedNumbers
      <4> QED
        BY <3>2, <3>3, <4>1, <4>2
    <3>5. ASSUME NEW k \in 1 .. Len(buffer')
          PROVE  buffer'[k] = upload'.body[Base' + k]
      <4>1. k \in 1 .. Len(buffer) - p_payload_end
        BY <2>3, <3>3
      <4>2. p_payload_end + k \in 1 .. Len(buffer)
        BY <3>2, <4>1
      <4>3. buffer[p_payload_end + k] = upload.body[Base + (p_payload_end + k)]
        BY <1>0, <4>2 DEF Window
      <4>4. Base + (p_payload_end + k) = Base' + k
        BY <1>0, <3>2, <3>4, <4>1, WindowNumbers
      <4> QED
        BY <2>3, <3>3, <4>1, <4>3, <4>4
    <3>6. Window'
      BY <3>4, <3>5 DEF Window
    <3>7. Base' = Base + p_payload_end - to_write
      BY <1>0, <2>0, <3>2, <3>4, WindowNumbers
    <3>8. UNCHANGED <<upload, stored, post_boundary_found, outcome>>
      BY <2>3 DEF scan, output
    <3>9. StoredUpTo(Base)'
      BY <3>1, <3>7, <3>8, StoredStays DEF StoredUpTo
    <3>10. BeforeWriting'
      BY <2>3, <3>8, <3>9 DEF BeforeWriting
    <3> QED
      BY <1>0, <2>0, <2>3, <3>6, <3>8, <3>10 DEF Sent, WhileWriting, StoredAsSent
  <2> QED
    BY <1>9, <2>1, <2>2, <2>3 DEF next_buffer
<1>10. CASE UNCHANGED vars
  <2> QED
    BY <1>0, <1>10
    DEF Sent, Window, Base, BeforeWriting, WhileWriting, StoredAsSent, StoredUpTo, ScanEnd,
        vars, chunk, scan, output
<1> QED
  BY <1>1, <1>2, <1>3, <1>4, <1>5, <1>6, <1>7, <1>8, <1>9, <1>10 DEF Next

\* Nothing is stored before the first step.
LEMMA SentInitially == Init => Sent
<1> SUFFICES ASSUME Init PROVE Sent
  OBVIOUS
<1>1. Len(buffer) = 0 /\ got = 0
  BY EmptySeq DEF Init
<1>2. Window
  BY <1>1 DEF Window, Base
<1>3. BeforeWriting /\ WhileWriting /\ StoredAsSent /\ outcome = "none"
  BY DEF Init, BeforeWriting, WhileWriting, StoredAsSent
<1> QED
  BY <1>2, <1>3 DEF Sent

\* As long as write() is short at most once for a buffer, whatever the size of the
\* buffer, the boundary and the request: a file that is accepted holds the bytes of the
\* request between the end of a header and a delimiter, as they were sent.
THEOREM AcceptedIsAsSent ==
  ASSUME MaxShort <= 1
  PROVE  Spec => []StoredAsSent
<1>1. Init => Sent
  BY SentInitially
<1>2. Typed /\ Typed' /\ Sent /\ [Next]_vars => Sent'
  BY SentInductive
<1>3. Sent => StoredAsSent
  BY DEF Sent
<1> QED
  BY <1>1, <1>2, <1>3, AlwaysTyped, PTL DEF Spec

-------------------------------------------------------------------------------
\* What is read, and when the function leaves its buffer

\* A buffer is read as far as there is room for, or up to the end of the body.
LEMMA ReadIsFilled ==
  ASSUME Typed, FCGX_GetStr
  PROVE  /\ Base' = Base /\ UNCHANGED <<upload, first, stored>>
         /\ IF filled' THEN Len(buffer') = BufferLen ELSE got' = Len(upload'.body)
<1>1. PICK n \in Nat : Reads(n)
  BY GetStrReads
<1>2. Len(buffer') = Len(buffer) + n /\ got' = got + n
  BY <1>1, ReadsAppend DEF Reads, Typed, UploadTypeOK
<1>3. UNCHANGED <<upload, first, stored>>
  BY DEF FCGX_GetStr, output
<1>4. Base' = Base
  BY <1>2, TypedNumbers DEF Base
<1> QED
  BY <1>1, <1>2, <1>3, <1>4 DEF Reads

\* What is read into an empty buffer is the beginning of the body.
LEMMA FirstRead ==
  ASSUME Typed, FCGX_GetStr, got = 0, buffer = <<>>
  PROVE  Window' /\ Base' = 0
<1>1. PICK n \in Nat : Reads(n)
  BY GetStrReads
<1>2. Len(buffer) = 0 /\ buffer \in Seq(Byte)
  BY EmptySeq
<1>3. /\ Len(buffer') = Len(buffer) + n
      /\ \A k \in 1 .. Len(buffer) + n :
           buffer'[k] = IF k <= Len(buffer) THEN buffer[k]
                        ELSE upload.body[got + (k - Len(buffer))]
  BY <1>1, <1>2, ReadsAppend
<1>4. Len(buffer') = n /\ \A k \in 1 .. n : buffer'[k] = upload.body[k]
  BY <1>2, <1>3
<1>5. got' = n /\ upload' = upload
  BY <1>1 DEF Reads, FCGX_GetStr
<1>6. Base' = 0
  BY <1>4, <1>5 DEF Base
<1> QED
  BY <1>4, <1>5, <1>6 DEF Window

\* The buffer is read from the beginning of the body on, and never stops short of its
\* end unless it is full.
LEMMA ReadsOnInductive ==
  ASSUME Typed, ReadsOn, [Next]_vars
  PROVE  ReadsOn'
<1>1. CASE FCGX_GetStr
  <2>1. /\ Base' = Base /\ UNCHANGED <<upload, first, stored>>
        /\ IF filled' THEN Len(buffer') = BufferLen ELSE got' = Len(upload'.body)
    BY <1>1, ReadIsFilled
  <2>2. pc = "loop" /\ pc' = (IF first THEN "start_of_data" ELSE "boundary")
    BY <1>1 DEF FCGX_GetStr
  <2>3. first => Base' = 0 /\ Window'
    BY <1>1, <2>2, FirstRead DEF ReadsOn
  <2> QED
    BY <2>1, <2>2, <2>3 DEF ReadsOn
<1>2. CASE next_buffer
  BY <1>2 DEF next_buffer, End, ReadsOn
<1>3. CASE check_content_type
  <2>1. pc = "start" /\ UNCHANGED <<got, buffer, first>>
    BY <1>3 DEF check_content_type, End, chunk
  <2> QED
    BY <1>3, <2>1 DEF ReadsOn, check_content_type, End
<1>4. CASE loop_Ends \/ FCGX_GetStr_Fails \/ write_Fails
  BY <1>4 DEF loop_Ends, FCGX_GetStr_Fails, write_Fails, End, ReadsOn
<1>5. CASE find_start_of_data \/ find_post_boundary \/ write \/ UNCHANGED vars
  <2>1. UNCHANGED <<upload, got, buffer, filled, first, Base>>
    BY <1>5 DEF find_start_of_data, find_post_boundary, write, vars, End, Writes, chunk,
        Base
  <2>2. \/ pc' \in {"boundary", "write", "done"} /\ pc \in {"start_of_data", "boundary"}
        \/ pc' = pc
    BY <1>5 DEF find_start_of_data, find_post_boundary, write, vars, End, Writes
  <2> QED
    BY <2>1, <2>2 DEF ReadsOn, Window
<1> QED
  BY <1>1, <1>2, <1>3, <1>4, <1>5 DEF Next

\* A header that ends in time is found in the first buffer, and where it is.
LEMMA HeaderIsFound ==
  ASSUME Typed, ReadsOn, NEW s \in Nat, HeaderEndsAt(upload, s), find_start_of_data
  PROVE  /\ Base = 0 /\ p_payload' = s /\ pc' = "boundary"
         /\ UNCHANGED <<upload, chunk, stored, outcome>>
<1>0. /\ pc = "start_of_data" /\ Window /\ Base = 0
      /\ IF filled THEN Len(buffer) = BufferLen ELSE got = Len(upload.body)
  BY DEF find_start_of_data, ReadsOn
<1>1. /\ s <= Stride /\ s - 4 \in boundary_len + 1 .. Len(upload.body)
      /\ MatchesAt(upload.body, data_start, s - 4) /\ s <= Len(upload.body)
      /\ \A j \in boundary_len + 1 .. s - 4 - 1 : ~MatchesAt(upload.body, data_start, j)
  <2>1. /\ s <= Stride
        /\ FirstMatch(upload.body, data_start, boundary_len + 1, Len(upload.body), s - 4)
    BY Patterns DEF HeaderEndsAt
  <2> QED
    BY <2>1, Patterns DEF FirstMatch, MatchesAt
<1>2. s - 4 \in boundary_len + 1 .. Len(buffer) /\ s - 4 \in Nat /\ s <= Len(buffer)
  <2>1. /\ Stride = BufferLen - boundary_len /\ boundary_len \in Nat /\ BufferLen \in Nat
        /\ Len(buffer) \in Nat /\ got \in Nat /\ got = Len(buffer)
    BY <1>0, WindowNumbers, TypedNumbers, Patterns DEF Stride
  <2>2. s <= Len(buffer)
    BY <1>0, <1>1, <2>1
  <2> QED
    BY <1>1, <2>1, <2>2
<1>3. MatchesAt(buffer, data_start, s - 4)
  <2>1. MatchesAt(upload.body, data_start, Base + (s - 4))
    BY <1>0, <1>1, <1>2
  <2>2. (s - 4) + Len(data_start) <= Len(buffer)
    BY <1>2, Patterns
  <2>3. buffer \in Seq(Byte)
    BY <1>0, WindowNumbers
  <2> QED
    BY <1>0, <1>2, <2>1, <2>2, <2>3, Patterns, MatchFromBody
<1>4. ~(Len(buffer) <= boundary_len)
  BY <1>2, Patterns, TypedNumbers
<1>5. PICK i \in boundary_len + 1 .. Len(buffer) :
        /\ FirstMatch(buffer, data_start, boundary_len + 1, Len(buffer), i)
        /\ p_payload' = i + Len(data_start) /\ pc' = "boundary"
        /\ UNCHANGED <<upload, chunk, stored, outcome>>
  BY <1>2, <1>3, <1>4 DEF find_start_of_data, output
<1>6. i \in Nat /\ ~(s - 4 < i)
  BY <1>2, <1>3, <1>5, Patterns DEF FirstMatch
<1>7. ~(i < s - 4)
  <2>1. i \in Int /\ MatchesAt(buffer, data_start, i)
    BY <1>5, <1>6 DEF FirstMatch
  <2>2. /\ upload.body \in Seq(Byte) /\ buffer \in Seq(Byte)
        /\ got \in 0 .. Len(upload.body)
    BY <1>0, WindowNumbers, TypedNumbers
  <2>3. MatchesAt(upload.body, data_start, Base + i)
    BY <1>0, <2>1, <2>2, Patterns, MatchInWindow
  <2>4. MatchesAt(upload.body, data_start, i)
    BY <1>0, <1>6, <2>3
  <2> QED
    BY <1>1, <1>2, <1>5, <1>6, <2>4, Patterns
<1>8. i + Len(data_start) = s
  BY <1>2, <1>6, <1>7, Patterns
<1> QED
  BY <1>0, <1>5, <1>8

\* No step changes the request.
LEMMA SameUpload == [Next]_vars => UNCHANGED upload
BY DEF Next, vars, check_content_type, loop_Ends, FCGX_GetStr_Fails, FCGX_GetStr,
   find_start_of_data, find_post_boundary, Writes, write, write_Fails, next_buffer, End

\* No step takes the reading of a request with a header out of the buffer.
LEMMA WithinInductive ==
  ASSUME Typed, Typed', ReadsOn, HasHeader(upload), Within, [Next]_vars
  PROVE  Within'
<1>0. upload' = upload
  BY SameUpload
<1>1. CASE check_content_type
  BY <1>1 DEF check_content_type, End, Within
<1>2. CASE loop_Ends \/ FCGX_GetStr_Fails \/ write_Fails
  BY <1>2 DEF loop_Ends, FCGX_GetStr_Fails, write_Fails, End, Within
<1>3. CASE FCGX_GetStr
  <2>1. /\ p_payload' = 0 /\ pc' \in {"start_of_data", "boundary"} /\ outcome' = outcome
        /\ pc' = "boundary" => ~first
    BY <1>3 DEF FCGX_GetStr
  <2>2. pc' = "boundary" => Stride \in Nat
    BY <2>1, Patterns DEF Typed, Offsets, Stride
  <2> QED
    BY <1>0, <2>1, <2>2 DEF Within
<1>4. CASE find_start_of_data
  <2>1. PICK s \in 0 .. Len(upload.body) : HeaderEndsAt(upload, s)
    BY DEF HasHeader
  <2>2. p_payload' = s /\ pc' = "boundary" /\ outcome' = outcome
    BY <1>4, <2>1, HeaderIsFound
  <2>3. s <= Stride
    BY <2>1 DEF HeaderEndsAt
  <2> QED
    BY <1>0, <2>2, <2>3 DEF Within
<1>5. CASE find_post_boundary
  <2>1. CASE End("rejected")
    BY <2>1 DEF End, Within
  <2>2. CASE post_boundary_found' = TRUE /\ pc' = "write" /\ outcome' = outcome
    BY <1>0, <2>2 DEF Within
  <2>3. CASE Writes(IF p_payload < ScanEnd THEN ScanEnd ELSE p_payload)
    <3>1. /\ pc' = "write" /\ outcome' = outcome /\ filled' = filled
          /\ p_payload_end' = IF p_payload < ScanEnd THEN ScanEnd ELSE p_payload
      BY <2>3 DEF Writes, chunk
    <3>2. filled => ScanEnd = Stride
      BY <1>5 DEF find_post_boundary, ReadsOn, ScanEnd, Stride
    <3>3. p_payload <= Stride
      BY <1>5 DEF find_post_boundary, Within
    <3>4. filled => p_payload_end' <= Stride
      BY <3>1, <3>2, <3>3, TypedNumbers
    <3> QED
      BY <1>0, <3>1, <3>4 DEF Within
  <2> QED
    BY <1>5, <2>1, <2>2, <2>3 DEF find_post_boundary, Writes
<1>6. CASE write
  BY <1>0, <1>6 DEF write, chunk, scan, Within
<1>7. CASE next_buffer
  <2>1. ~post_boundary_found /\ filled => ~(p_payload_end > ScanEnd)
    <3>1. pc = "write"
      BY <1>7 DEF next_buffer
    <3>2. filled => ScanEnd = Stride
      BY <3>1 DEF ReadsOn, ScanEnd, Stride
    <3> QED
      BY <3>1, <3>2, TypedNumbers DEF Within
  <2> QED
    BY <1>0, <1>7, <2>1 DEF next_buffer, End, Within
<1>8. CASE UNCHANGED vars
  BY <1>8 DEF vars, chunk, scan, Within
<1> QED
  BY <1>1, <1>2, <1>3, <1>4, <1>5, <1>6, <1>7, <1>8 DEF Next

\* For any size of the buffer, any boundary and however often write() is short: where the
\* code crashes or leaves its buffer, the request has no content type, or no header in the
\* part of the first buffer that is not kept.
THEOREM HeadersKeepWithin == Spec => []OverrunsOnlyWithoutHeader
<1>1. Init => HeaderInv
  BY DEF Init, HeaderInv, ReadsOn, Within
<1>2. Typed /\ Typed' /\ HeaderInv /\ [Next]_vars => HeaderInv'
  <2> SUFFICES ASSUME Typed, Typed', HeaderInv, [Next]_vars PROVE HeaderInv'
    OBVIOUS
  <2>1. ReadsOn /\ (HasHeader(upload) => Within)
    BY DEF HeaderInv
  <2>2. ReadsOn'
    BY <2>1, ReadsOnInductive
  <2>3. HasHeader(upload)' => HasHeader(upload)
    BY SameUpload DEF HasHeader, HeaderEndsAt, FirstMatch, MatchesAt
  <2>4. HasHeader(upload) => Within'
    BY <2>1, WithinInductive
  <2> QED
    BY <2>2, <2>3, <2>4 DEF HeaderInv
<1>3. HeaderInv => OverrunsOnlyWithoutHeader
  BY DEF HeaderInv, OverrunsOnlyWithoutHeader, Within
<1> QED
  BY <1>1, <1>2, <1>3, AlwaysTyped, PTL DEF Spec

===============================================================================
