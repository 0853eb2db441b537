------------------------------- MODULE WebPages -------------------------------
(***************************************************************************)
(* The second phase of ServiceTask::run: forms, web services, scripts, the  *)
(* extensions .dcp, .view and .tpe, .fview pages, and files; and the whole   *)
(* way of a request, in two halves around the call of a REST controller.    *)
(***************************************************************************)
EXTENDS WebControllers

\* A text for an answer, or none: then 404.
Page(x, text) ==
  IF text = <<>> THEN [x EXCEPT !.rs = Status(@, 404)]
  ELSE [With(x, "Content-Type", "text/html") EXCEPT !.rs = [Status(@, 200) EXCEPT !.content = text]]

\* SoapHandler::handle: a fault of any kind is an answer 200 as well.  The body
\* is the parts of the envelope, the last the method; none cannot be read.
SoapEnvelope(rq) ==
  IF rq.soap = <<>> THEN <<"fault">>
  ELSE IF Last(rq.soap) \in Site.operations THEN <<"envelope", Last(rq.soap)>>
  ELSE <<"envelope", "fault">>

Soap(x) ==
  IF x.rq.ctype # "text/xml" THEN [x EXCEPT !.rs = Status(@, 400)]
  ELSE [With(x, "Content-Type", "text/xml")
          EXCEPT !.rs = [Status(@, 200) EXCEPT !.content = SoapEnvelope(x.rq)]]

\* ScriptHandler::handle; what the interpreter printed is in Site.
ScriptExtensions == {".php", ".pl", ".rb", ".py", ".lua", ".njs"}
Script(x) == Page(x, At(Site.scripts, x.rq.url, <<>>))

-----------------------------------------------------------------------------
\* ExtHandler::handle: the four flows, and whether it has handled the request;
\* it never says so of a .tpe page.
IsAjax(rq) == rq.path \in DOMAIN Site.ajax /\ rq.method = "POST" /\ rq.ajax # ""

\* The parameters param_1, ...; paramsize says how many: 0 when it is not given,
\* -1 when it is no number.
AjaxParams(rq) == [i \in 1 .. rq.paramSize |-> At(rq.ajaxParams, i, <<>>)]

Ajax(x) ==
  IF x.rq.paramSize < 0 \/ x.rq.ajax \notin Site.ajax[x.rq.path] THEN [x EXCEPT !.rs = Status(@, 500)]
  ELSE [With(x, "Content-Type", "text/plain")
          EXCEPT !.rs = Invoked(@, Call("ajax", x.rq.ajax, AjaxParams(x.rq)))]

Dcp(x)  == Page(x, At(Site.dcps, x.rq.url, <<>>))
View(x) == Page(x, At(Site.views, x.rq.url, <<>>))
Tpe(x)  == Page(x, At(Site.templates, x.rq.url, <<>>))

ExtHandle(x) ==
  IF IsAjax(x.rq) THEN [x |-> Ajax(x), handled |-> TRUE]
  ELSE IF Ext(x) = ".dcp" THEN [x |-> Dcp(x), handled |-> TRUE]
  ELSE IF Ext(x) = ".view" /\ x.rq.url \in DOMAIN Site.views THEN [x |-> View(x), handled |-> TRUE]
  ELSE IF Ext(x) = ".tpe" /\ x.rq.url \in DOMAIN Site.templates THEN [x |-> Tpe(x), handled |-> FALSE]
  ELSE [x |-> x, handled |-> FALSE]

\* FviewHandler::handle: the lines of the page without "<?" and "?>", with the
\* scripts put in before the head ends, where a byte is lost, or after the page
\* starts.
FviewScripts == <<"json2", "prototype", "afc", "objects", "interfaces", "own">>
FviewLines(lines) ==
  LET kept == SelectSeq(lines, LAMBDA l : l # "<?")
      head == Find(<<"</head>">>, kept)
      html == Find(<<"<html>">>, kept)
      From(i) == SubSeq(kept, i + 1, Len(kept))
  IN  IF head # -1 THEN SubSeq(kept, 1, IF head = 0 THEN Len(kept) ELSE head - 1) \o FviewScripts \o From(head)
      ELSE IF html # -1 THEN SubSeq(kept, 1, html + 1) \o FviewScripts \o From(html + 1)
      ELSE kept

Fview(x) ==
  IF x.rq.url \notin DOMAIN Site.fviews THEN [x EXCEPT !.rs = Status(@, 404)]
  ELSE [With(x, "Content-Type", "text/html")
          EXCEPT !.rs = [Status(@, 200) EXCEPT !.content = FviewLines(Site.fviews[x.rq.url])]]

-----------------------------------------------------------------------------
\* ServiceTask::updateContent on a file that nobody changes meanwhile.
NotModified(rq, file) == rq.since # 0 /\ rq.since >= file.modified

UpdateContent(x) ==
  LET file == Site.files[x.rq.url]
      rs   == IF Header(x.rs, "Content-Encoding") = "" THEN x.rs ELSE [x.rs EXCEPT !.compressed = TRUE]
      text == IF rs.compressed THEN Compressed(Header(x.rs, "Content-Encoding"), file.text) ELSE file.text
      rq   == [x.rq EXCEPT !.mime = file.mime]
  IN  IF ThrowsRange(x.rq.ranges) THEN [x EXCEPT !.threw = TRUE]
      ELSE IF x.rq.method = "OPTIONS" THEN [x EXCEPT !.rs = Status(@, 200)]
      ELSE IF x.rq.url \notin DOMAIN Site.files THEN [x EXCEPT !.rs = Status(@, 404)]
      ELSE IF x.rq.method = "HEAD" THEN [x EXCEPT !.rs = HeadFrom(@, rq, file.text)]
      ELSE IF NotModified(x.rq, file) THEN [x EXCEPT !.rs = Status(@, 304)]
      ELSE IF ThrowsPart(Ranges(x.rq.ranges), text) THEN [x EXCEPT !.threw = TRUE]
      ELSE [x EXCEPT !.rs = ContentFrom(rs, rq, text)]

\* Whether text of this type is sent packed to a client that takes it.
Packs(x, mime) == Site.encoding # "" /\ x.rq.acceptsCE /\ mime \in {"text/html", "text/xml", "text/plain"}

\* The last branch: a file, unless a handler has left a content.  A handler
\* that has left none loses what it said to the file of that name, or to a 404.
ContentOf(x, mime) ==
  IF x.rs.content = <<>> THEN UpdateContent(x)
  ELSE [x EXCEPT !.rs = AddHeader(Status(@, 200), "Content-Type",
                                  IF Header(@, "Content-Type") = "" THEN mime ELSE Header(@, "Content-Type"))]

StaticOrContent(x) ==
  LET mime == IF x.rq.url \in DOMAIN Site.files THEN Site.files[x.rq.url].mime ELSE ""
  IN  ContentOf(IF Packs(x, mime) THEN With(x, "Content-Encoding", Site.encoding) ELSE x, mime)

FviewOrStatic(e) == IF ~e.handled /\ Ext(e.x) = ".fview" THEN Fview(e.x) ELSE StaticOrContent(e.x)

ScriptOrExt(x) ==
  FviewOrStatic(IF Ext(x) \in ScriptExtensions THEN [x |-> Script(x), handled |-> TRUE] ELSE ExtHandle(x))

Dispatch(x) ==
  IF x.done THEN x
  ELSE IF Ext(x) = ".form" THEN Form(x)
  ELSE IF x.rq.url \in Site.services THEN Soap(x)
  ELSE ScriptOrExt(x)

\* A content that is not sent in chunks is sent packed to a client that takes it.
Packed(x) ==
  IF Packs(x, Header(x.rs, "Content-Type")) /\ ~IsChunked(x.rs) /\ ~x.threw
  THEN With(x, "Content-Encoding", Site.encoding) ELSE x

PhaseTwo(x) == Packed(HandleOut(Dispatch(x)))

-----------------------------------------------------------------------------
\* Up to the call of a REST controller: each handler only if none before it
\* has done with the request.  The sets have one element, the request as the
\* handlers so far leave it, which TLC computes once.
Then(x, y) == IF x.done \/ x.threw THEN x ELSE y

PhaseOne(rq, role) ==
  CHOOSE answered \in
    {Then(a, HandleController(a)) :
       a \in {Then(f, Auth(f)) :
                f \in {Then(s, Filter(s)) :
                         s \in {Then(c, Security(c)) : c \in {CORS(x) : x \in {Serving(rq, role)}}}}}} : TRUE

\* What the handlers make of a request with a role in its session, as far as
\* the call of a REST controller, if there is one.
UnlessCalled(x) == IF x.call = NoCall /\ ~x.threw THEN PhaseTwo(x) ELSE x

\* And of one that comes back from a controller, with the response as it is then:
\* its own, or what some call has written over it.
Finished(rq, role, rs) == PhaseTwo([Serving(rq, role) EXCEPT !.rs = rs])

\* The answer leaves the connection open if the client wants it kept, in HTTP
\* 1.1, and it is no error.
KeepsAlive(rq, rs) == rq.keepAlive /\ rs.status <= 307 /\ rq.version >= 11

-----------------------------------------------------------------------------
(* What the proofs ask of an application, beyond what the handlers do.      *)

\* Where a role is needed there are a provider and a login page, another page.
Protects(rq) ==
  RoleOf(rq) \notin {"", Anonymous} =>
    /\ SecurityOf(rq).provider # "" /\ Secured(rq).path # <<>>
    /\ SecurityOf(rq).login \notin {<<>>, rq.path}

\* An answer whose end is known: an error, which closes the connection, one
\* with a content, one that says there is none, one that needs none.
Ends(rs) ==
  \/ rs.status > 307 \/ rs.status \in {0, 206, 304, 307} \/ IsChunked(rs)
  \/ rs.content # <<>>
  \/ "Content-Length" \in DOMAIN rs.head /\ rs.head["Content-Length"] = 0

\* The controllers of the application leave such answers, and its pages are
\* texts, those of .fview not empty.
Text(s) == Len(s) \in Nat /\ DOMAIN s = 1 .. Len(s)
Texts(f) == \A k \in DOMAIN f : Text(f[k])

SiteAnswers ==
  /\ \A k \in DOMAIN Site.controllers :
       Bean(Site.controllers[k]) /\ Site.controllers[k] \notin Site.failing => Site.controllers[k] \in DOMAIN Site.service
  /\ \A name \in DOMAIN Site.service :
       LET rs == Site.service[name]
       IN  DOMAIN rs = DOMAIN NewResponse /\ Text(rs.content) /\ rs.list = <<>> /\ rs.status \in Nat /\ Ends(rs)
  /\ Texts(Site.scripts) /\ Texts(Site.dcps) /\ Texts(Site.views) /\ Texts(Site.templates)
  /\ \A url \in DOMAIN Site.fviews : Text(FviewLines(Site.fviews[url])) /\ FviewLines(Site.fviews[url]) # <<>>
  /\ \A url \in DOMAIN Site.files : Text(Site.files[url].text)
  /\ Text(Site.functions) /\ \A i \in DOMAIN Site.functions : Text(Site.functions[i].params)
  /\ \A url \in DOMAIN Site.forms : Text(Site.forms[url].fields)
=============================================================================
