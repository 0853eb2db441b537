----------------------------- MODULE HttpResponse -----------------------------
(***************************************************************************)
(* How an answer is put together: what ServiceTask::updateContent takes     *)
(* from a file, and how HttpResponse frames it.  A text is a sequence of    *)
(* bytes; a header is a name and a value.                                   *)
(***************************************************************************)
EXTENDS HttpRequest

CONSTANTS ChunkSize    \* TRANSFER_ENCODING_CHUNK_SIZE

ASSUME ChunkSizeAssumption == ChunkSize \in Nat \ {0}

Nul == "nul"

NewResponse == [status |-> 0, head |-> <<>>, content |-> <<>>, list |-> <<>>, compressed |-> FALSE]

Header(rs, name) == IF name \in DOMAIN rs.head THEN rs.head[name] ELSE ""

AddHeader(rs, name, value) == [rs EXCEPT !.head = Put(@, name, value)]

Status(rs, code) == [rs EXCEPT !.status = code]

IsChunked(rs) == Header(rs, "Transfer-Encoding") = "chunked"

\* gzip or deflate: a text that is not the other, and can be read back.
Compressed(kind, text) == <<kind>> \o text

-----------------------------------------------------------------------------
\* ServiceTask::getFileContents: n bytes from start, zeros after the end.
GetFileContents(text, start, n) ==
  [i \in 1 .. n |-> IF start + i \in DOMAIN text THEN text[start + i] ELSE Nul]

\* The number of chunks, and chunk number i, counted from 0.
Parts(text) == (Len(text) + ChunkSize - 1) \div ChunkSize

Least(a, b) == IF a < b THEN a ELSE b

Chunk(text, i) == GetFileContents(text, ChunkSize * i, Least(ChunkSize, Len(text) - ChunkSize * i))

\* What one range takes: nothing for one that is refused.  Its second value is
\* a number of bytes, and is compared with the length as if it was a position.
RefusedRange(r, text) == r[2] # -1 /\ r[2] >= Len(text) /\ r[1] # -1 /\ r[1] < Len(text)

RangePart(r, text) ==
  GetFileContents(text, IF r[1] = -1 THEN 0 ELSE r[1], IF r[2] = -1 THEN Len(text) - 1 ELSE r[2] + 1)

\* An open range of an empty file asks for a text of length -1.
ThrowsPart(values, text) == text = <<>> /\ \E i \in DOMAIN values : values[i][2] = -1

\* The label of a part is taken from the list of all the ranges asked for, at
\* the place the part has in the list of those that are well formed.
RangeParts(asked, text) ==
  LET values == Ranges(asked)
      Part(i) == [text |-> RangePart(values[i], text), range |-> asked[i]]
  IN  [i \in 1 .. Len(SelectSeq(values, LAMBDA r : ~RefusedRange(r, text))) |->
         Part(SetToSortSeq({j \in DOMAIN values : ~RefusedRange(values[j], text)}, <)[i])]

\* The rest of updateContent once the file is chosen.
ContentFrom(rs, rq, text) ==
  LET typed(r) == AddHeader(r, "Content-Type", rq.mime)
  IN  IF Ranges(rq.ranges) # <<>>
      THEN IF rq.version < 11 THEN Status(rs, 416)
           ELSE [AddHeader(AddHeader(Status(rs, 206), "Content-Type", "multipart/byteranges"),
                           "Content-Length", Len(text))
                   EXCEPT !.list = RangeParts(rq.ranges, text)]
      ELSE IF Parts(text) > 1
           THEN typed([AddHeader(Status(rs, 200), "Transfer-Encoding", "chunked")
                         EXCEPT !.content = Chunk(text, 0)])
      ELSE typed([AddHeader(Status(rs, 200), "Content-Length", Len(text)) EXCEPT !.content = text])

HeadFrom(rs, rq, text) ==
  AddHeader(AddHeader(AddHeader(Status(rs, 200), "Content-Length", Len(text)),
                      "Accept-Ranges", "bytes"), "Content-Type", rq.mime)

-----------------------------------------------------------------------------
(* HttpResponse::generateResponse.  An answer is its status, the length its *)
(* head announces, whether it comes in chunks, and the text after the head. *)
NoLength == -1

Multipart(list) ==
  FlattenSeq([i \in DOMAIN list |-> <<"boundary">> \o list[i].text]) \o <<"boundary">>

LengthenedNot(rs) == rs
Lengthened(rs) ==
  IF ~IsChunked(rs) /\ rs.content # <<>> THEN AddHeader(rs, "Content-Length", Len(rs.content)) ELSE rs

GenerateHead(rs) ==
  LET listed == IF rs.list = <<>> THEN rs ELSE [rs EXCEPT !.content = Multipart(rs.list)]
      encoding == Header(rs, "Content-Encoding")
      packed == IF IsChunked(rs) \/ rs.compressed \/ listed.content = <<>> \/ encoding = "" THEN listed
                ELSE [listed EXCEPT !.content = Compressed(encoding, @)]
  IN  Lengthened(packed)

Answer(rs, body) ==
  [status |-> rs.status, chunked |-> IsChunked(rs), body |-> body,
   length |-> IF "Content-Length" \in DOMAIN rs.head THEN rs.head["Content-Length"] ELSE NoLength]

\* OPTIONS neither packs the content nor counts it.
GenerateResponse(rs, method) ==
  CASE method = "HEAD"    -> Answer(GenerateHead(rs), <<>>)
    [] method = "OPTIONS" -> Answer(rs, <<>>)
    [] OTHER -> LET r == GenerateHead(rs) IN Answer(r, r.content)
=============================================================================
