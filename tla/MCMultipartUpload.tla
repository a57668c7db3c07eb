-------------------------- MODULE MCMultipartUpload --------------------------
(***************************************************************************)
(* Small instances of MultipartUpload for TLC.                             *)
(***************************************************************************)
EXTENDS MultipartUploadProperties

SomeBytes == {"CR", "LF", "-", "b", "c", "x"}
BoundaryText == <<"b", "c">>
CRLF == <<"CR", "LF">>
Xs(n) == [i \in 1 .. n |-> "x"]

Form(header, payload) ==
  <<"-", "-">> \o Boundary \o CRLF \o header \o data_start \o payload \o data_end
  \o Boundary \o <<"-", "-">> \o CRLF

\* Files that spread over up to four buffers and end like any part of a delimiter
Endings ==
  {<<>>, <<"b">>, <<"CR">>, <<"CR", "LF", "-">>, <<"CR", "LF", "-", "-", "b">>}
Payloads == {Xs(n) \o e : n \in 0 .. 24, e \in Endings}

Request(body) ==
  [type |-> "boundary", length |-> Len(body), body |-> body, fault |-> "none"]
Forms == {Request(Form(Xs(1), payload)) : payload \in Payloads}

\* Files that contain the boundary, a long header, and requests that end early
WithBoundary == {Request(Form(<<>>, Xs(n) \o Boundary \o <<"x">>)) : n \in 0 .. 8}
LongHeader == {Request(Form(Xs(n), Xs(8))) : n \in 2 .. 8}
Truncated ==
  {[Request(Form(Xs(1), Xs(14))) EXCEPT !.body = SubSeq(@, 1, n)] : n \in 0 .. 32}
Malformed ==
  [type : ContentType \ {"boundary"}, length : {0}, body : {<<>>}, fault : {"none"}]
WrongLength ==
  {[Request(Form(Xs(1), Xs(30))) EXCEPT !.length = n] : n \in {0, 1, 8, 20}}
Failing ==
  {[Request(Form(Xs(1), Xs(14))) EXCEPT !.fault = f] : f \in Fault}

SomeUploads ==
  Forms \cup WithBoundary \cup LongHeader \cup Truncated \cup WrongLength
  \cup Malformed \cup Failing
=============================================================================
