----------------------------- MODULE HttpRequest -----------------------------
(***************************************************************************)
(* How HttpRequest reads a request: the request line and the headers, the  *)
(* query, a form in the body and a multipart body, in memory                *)
(* (updateFromContentStr) or in the temporary file a large body is put in   *)
(* (updateFromContentFile).  Text is a sequence of tokens: the ones that    *)
(* separate ("=", "&"), their encoded forms, "[]" for the brackets of an    *)
(* array name, and any other token for a piece of a name or a value.        *)
(***************************************************************************)
EXTENDS Integers, Sequences, SequencesExt, FiniteSets

\* StringUtil::split: the pieces between the delimiters, empty ones included.
Split(s, d) ==
  LET cut == <<0>> \o SetToSortSeq({i \in DOMAIN s : s[i] = d}, <) \o <<Len(s) + 1>>
  IN  [i \in 1 .. Len(cut) - 1 |-> SubSeq(s, cut[i] + 1, cut[i + 1] - 1)]

\* CryptoHandler::urlDecode, on the tokens that have an encoded form.
Decoded == [t \in {"%26", "%3D", "%25"} |->
              CASE t = "%26" -> "&" [] t = "%3D" -> "=" [] t = "%25" -> "%"]

Decode(s) == [i \in DOMAIN s |-> IF s[i] \in DOMAIN Decoded THEN Decoded[s[i]] ELSE s[i]]

\* Encoding, as a client does it: what Decode is meant to undo.
Encoded(s) == [i \in DOMAIN s |-> IF s[i] = "&" THEN "%26"
                                  ELSE IF s[i] = "=" THEN "%3D" ELSE s[i]]

IsArray(name) == Contains(name, "[]")

-----------------------------------------------------------------------------
\* The parameters read so far: what each name got, how often each array name
\* came, and the names in their order (reqorderinf).
NoParams == [of |-> <<>>, count |-> <<>>, order |-> <<>>]

Put(f, k, v) == [x \in DOMAIN f \cup {k} |-> IF x = k THEN v ELSE f[x]]

NextIndex(count, name) == IF name \in DOMAIN count THEN count[name] + 1 ELSE 0

\* An array name is numbered: the value goes to name[0], name[1], ...
SetParam(ps, name, value) ==
  IF IsArray(name)
  THEN LET i == NextIndex(ps.count, name)
       IN  [ps EXCEPT !.of = Put(@, <<name, i>>, value), !.count = Put(@, name, i)]
  ELSE [ps EXCEPT !.of = Put(@, <<name, -1>>, value)]

\* One piece of a query or of a form.  A piece without exactly one "=" is lost.
ReadParam(ps, piece) ==
  LET param == Split(piece, "=")
  IN  IF Len(param) # 2 THEN ps
      ELSE [SetParam(ps, Decode(param[1]), Decode(param[2]))
              EXCEPT !.order = Append(@, param[1])]

ReadParams(text) == FoldLeft(ReadParam, NoParams, Split(text, "&"))

\* A piece of a form goes by its decoded name in the order too.
FormParams(text) ==
  LET ps == ReadParams(text)
  IN  [ps EXCEPT !.order = [i \in DOMAIN @ |-> Decode(@[i])]]

-----------------------------------------------------------------------------
(* The request line.  A target is the parts of the path between its slashes *)
(* and the query.  Each method has its own copy of the same lines; they     *)
(* differ in when the query is decoded.                                     *)
\* Where a path leads: alone in its directory a file is the default
\* context's, else the first part names the context.  A path that starts with
\* two slashes leaves everything unset.
Located(path, params) ==
  IF Len(path) = 1 THEN [ctx |-> "default", file |-> path[1], path |-> path, params |-> params]
  ELSE IF path[1] = "" THEN [ctx |-> "", file |-> "", path |-> path, params |-> params]
  ELSE [ctx |-> path[1], file |-> Last(path), path |-> path, params |-> params]

GetTarget(t)    == Located(t.path, ReadParams(t.query))
HeadTarget(t)   == Located(t.path, ReadParams(t.query))
TraceTarget(t)  == Located(t.path, ReadParams(t.query))
\* OPTIONS does not look for a query: it stays part of the file's name.
OptionsTarget(t) == Located([t.path EXCEPT ![Len(t.path)] = <<@, t.query>>], NoParams)
\* These decode the query before they split it, and each part once more.
DeleteTarget(t) == Located(t.path, ReadParams(Decode(t.query)))
PutTarget(t)    == Located(t.path, ReadParams(Decode(t.query)))
PostTarget(t)   == Located(t.path, ReadParams(Decode(t.query)))

HttpMethods == {"GET", "HEAD", "TRACE", "OPTIONS", "DELETE", "PUT", "POST"}

Target(method, t) ==
  CASE method = "GET" -> GetTarget(t)
    [] method = "HEAD" -> HeadTarget(t)
    [] method = "TRACE" -> TraceTarget(t)
    [] method = "OPTIONS" -> OptionsTarget(t)
    [] method = "DELETE" -> DeleteTarget(t)
    [] method = "PUT" -> PutTarget(t)
    [] method = "POST" -> PostTarget(t)

\* A context that is not configured is looked up in the default one.
Resolved(located, contexts) ==
  IF located.ctx \in contexts THEN located ELSE [located EXCEPT !.ctx = "default"]

\* What is wrong with a request line; 0 for nothing.  A version is ten times
\* its number, NoVersion a text that is not one.  Every numeric version passes:
\* none is both below 1.0 and above 1.1.
NoVersion == -1

RequestLineStatus(words, method, version) ==
  IF words < 3 THEN 400
  ELSE IF method \notin HttpMethods THEN 405
  ELSE IF version = NoVersion \/ (version < 10 /\ version > 11) THEN 505
  ELSE IF version < 11 /\ method = "OPTIONS" THEN 405 ELSE 0

-----------------------------------------------------------------------------
(* A header line.  Without ": " after its name it is taken for a request    *)
(* line, and refused unless it has three words.                             *)
\* What the lines have said so far.
NoHead == [status |-> 0, method |-> "", version |-> 0, at |-> <<>>, headers |-> <<>>, cookies |-> <<>>]

ReadCookies(value) ==
  LET pieces == Split(value, "; ")
      Read(c, piece) ==
        LET kv == Split(piece, "=")
        IN  Put(c, kv[1], IF Len(kv) = 2 THEN kv[2] ELSE <<"true">>)
  IN  FoldLeft(Read, <<>>, pieces)

ReadHeader(h, line) ==
  [h EXCEPT !.headers = Put(@, line.name, line.value),
            !.cookies = IF line.name = "Cookie" THEN ReadCookies(line.value) ELSE @]

ReadRequestLine(h, line) ==
  LET status == RequestLineStatus(line.words, line.method, line.version)
  IN  IF status # 0 THEN [h EXCEPT !.status = status]
      ELSE [h EXCEPT !.method = line.method, !.version = line.version,
                     !.at = Target(line.method, line.target)]

ReadLine(h, line) ==
  IF h.status # 0 THEN h
  ELSE IF line.kind = "request" THEN ReadRequestLine(h, line)
  ELSE IF line.spaced THEN ReadHeader(h, line)
  ELSE [h EXCEPT !.status = 400]

ReadHead(lines) == FoldLeft(ReadLine, NoHead, lines)

\* HttpRequest::hasCookie: a session cookie that is not blank.
HasCookie(h) == "FFEADID" \in DOMAIN h.cookies /\ h.cookies["FFEADID"] # <<>>

-----------------------------------------------------------------------------
(* A multipart body, line by line: "delim" and "end" are the two forms of    *)
(* the boundary, "blank" an empty line, a record a header line that names    *)
(* the part, any other line is text.  Both forms start with the boundary.    *)
\* hdrs: the header lines of the part being read; inFile: a temporary file
\* takes its text; cont: its text; parts: the named parts and what each holds;
\* spooled: the body is read from a file, not from memory.
NoBody == [spooled |-> FALSE, hdrs |-> <<>>, inHdrs |-> FALSE, inCont |-> FALSE, ended |-> FALSE, inFile |-> FALSE,
           cont |-> <<>>, parts |-> <<>>, count |-> <<>>, rest |-> <<>>]

PartOf(b) == [name |-> b.hdrs[1].name, file |-> b.inFile, text |-> b.cont]

AddPart(b, key, part) == [b EXCEPT !.parts = Put(@, key, part)]

Numbered(b, name, part) ==
  LET i == NextIndex(b.count, name)
  IN  [AddPart(b, <<name, i>>, part) EXCEPT !.count = Put(@, name, i)]

\* The body in memory: a second part of a plain name takes the place of the first.
AddPartStr(b, name, part) ==
  IF IsArray(name) \/ name \in DOMAIN b.count THEN Numbered(b, name, part)
  ELSE AddPart(b, <<name, -1>>, part)

\* The body in a file: the parts of one name become an array, the first of them too.
AddPartFile(b, name, part) ==
  LET first == <<name, -1>>
      moved == [Numbered(b, name, b.parts[first])
                  EXCEPT !.parts = [k \in DOMAIN @ \ {first} |-> @[k]]]
  IN  IF IsArray(name) THEN Numbered(b, name, part)
      ELSE IF first \in DOMAIN b.parts THEN Numbered(moved, name, part)
      ELSE IF name \in DOMAIN b.count THEN Numbered(b, name, part)
      ELSE AddPart(b, first, part)

\* The next line.
ReadBodyLine(b, line) ==
  IF b.ended THEN b
  ELSE IF b.hdrs # <<>> /\ line \in {"delim", "end"}
       THEN [(IF b.spooled THEN AddPartFile(b, PartOf(b).name, PartOf(b))
              ELSE AddPartStr(b, PartOf(b).name, PartOf(b)))
               EXCEPT !.inCont = FALSE, !.inHdrs = TRUE, !.inFile = FALSE,
                      !.hdrs = <<>>, !.cont = <<>>]
  ELSE IF line = "end" THEN [b EXCEPT !.ended = TRUE]
  ELSE IF b.inHdrs
       THEN IF line = "blank" THEN [b EXCEPT !.inCont = TRUE, !.inHdrs = FALSE]
            ELSE [b EXCEPT !.hdrs = Append(@, line), !.inFile = @ \/ line.file]
  ELSE IF line = "delim" THEN [b EXCEPT !.inHdrs = TRUE]
  ELSE IF b.inCont THEN [b EXCEPT !.cont = Append(@, line)]
  ELSE [b EXCEPT !.rest = Append(@, line)]

UpdateFromContentStr(lines) == FoldLeft(ReadBodyLine, NoBody, lines).parts

UpdateFromContentFile(lines) ==
  FoldLeft(ReadBodyLine, [NoBody EXCEPT !.spooled = TRUE], lines).parts

-----------------------------------------------------------------------------
(* HttpRequest::getRanges.  A range is its pieces between the dashes, Blank  *)
(* for an empty one.  A range without a dash has no second piece, and        *)
(* asking for it throws.                                                     *)
Blank == -1

ThrowsRange(ranges) == \E i \in DOMAIN ranges : Len(ranges[i]) = 1

\* The values of a range: where it starts and how many bytes follow the first,
\* -1 for an open end; nothing for a range that is not one.
RangeValues(r) ==
  IF Len(r) > 2 THEN <<>>
  ELSE IF r[1] # Blank /\ r[2] # Blank
       THEN IF r[1] > r[2] THEN <<>> ELSE <<<<r[1], r[2] - r[1]>>>>
  ELSE IF r[1] # Blank THEN <<<<r[1], -1>>>>
  ELSE IF r[2] # Blank THEN <<<<-1, r[2]>>>> ELSE <<>>

Ranges(ranges) == FlattenSeq([i \in DOMAIN ranges |-> RangeValues(ranges[i])])

\* HttpRequest::getCORSRequestType.
CORSRequestType(rq) ==
  IF rq.origin \in {"", rq.host} THEN "OTHER"
  ELSE IF rq.acrm # "" /\ rq.method = "OPTIONS" THEN "PREFLIGHT" ELSE "CORS"
=============================================================================
