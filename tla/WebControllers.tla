---------------------------- MODULE WebControllers ----------------------------
(***************************************************************************)
(* ControllerHandler and FormHandler: which controller a request is for,    *)
(* and the arguments a REST controller or a form controller gets.           *)
(***************************************************************************)
EXTENDS WebHandlers

-----------------------------------------------------------------------------
(* The address of a REST function is parts between slashes; a part is a     *)
(* text, or a parameter with a prefix and a suffix.                         *)
Lit(text) == [param |-> "", pre |-> text, suf |-> <<>>]
Par(pre, name, suf) == [param |-> name, pre |-> pre, suf |-> suf]

\* string::find, from 0; -1 for none, which int arithmetic then goes on with.
Find(p, s) ==
  LET at == {i \in 0 .. Len(s) - Len(p) : SubSeq(s, i + 1, i + Len(p)) = p}
  IN  IF at = {} THEN -1 ELSE Min(at)

\* The value of a parameter.  The suffix is taken off only behind a prefix; a
\* text too short for both leaves a negative length, which substr takes for all.
PathValue(part, text) ==
  LET from == Find(part.pre, text) + Len(part.pre)
      len  == Len(text) - Len(part.pre) - Len(part.suf)
  IN  IF part.pre = <<>> THEN text
      ELSE SubSeq(text, from + 1, IF len < 0 THEN Len(text) ELSE Least(from + len, Len(text)))

\* substr throws when it is asked to start behind the end.
ThrowsPath(part, text) ==
  part.param # "" /\ part.pre # <<>> /\ Find(part.pre, text) + Len(part.pre) > Len(text)

PartMatches(part, text) == part.param # "" \/ part.pre = text

\* How many parts agree before the first that does not.
Agreeing(url, parts) ==
  LET off == {i \in DOMAIN parts : ~PartMatches(parts[i], url[i])}
  IN  IF off = {} THEN Len(parts) ELSE Min(off) - 1

\* The parameters in the parts that agree.
ParamsOf(url, f) ==
  IF Len(url) # Len(f.parts) THEN {} ELSE {j \in 1 .. Agreeing(url, f.parts) : f.parts[j].param # ""}

\* What becomes of a function of the table: it has another number of parts, a
\* parameter throws, only its first parts agree, or all of them do.
Compared(url, method, f) ==
  IF Len(url) # Len(f.parts) THEN "other"
  ELSE IF \E j \in ParamsOf(url, f) : ThrowsPath(f.parts[j], url[j]) THEN "throws"
  ELSE IF Agreeing(url, f.parts) < Len(f.parts) THEN "partly"
  ELSE IF f.method # method THEN "method" ELSE "found"

\* The values of the parameters, also of functions that agreed in part: each from
\* the last function that has it.
PathValues(url, fs) ==
  [name \in UNION {{fs[i].parts[j].param : j \in ParamsOf(url, fs[i])} : i \in DOMAIN fs} |->
     LET having(i) == {j \in ParamsOf(url, fs[i]) : fs[i].parts[j].param = name}
         last == Max({i \in DOMAIN fs : having(i) # {}})
         part == Max(having(last))
     IN  PathValue(fs[last].parts[part], url[part])]

\* The functions are compared until one matches, is of another method, or throws.
FindFunction(x) ==
  LET url   == Split(x.rq.path, "/")
      is(i) == Compared(url, x.rq.method, Site.functions[i])
      ends  == {i \in DOMAIN Site.functions : is(i) \in {"throws", "method", "found"}}
      last  == IF ends = {} THEN Len(Site.functions) ELSE Min(ends)
      y     == IF \E i \in 1 .. last : is(i) \in {"other", "partly"} THEN [x EXCEPT !.rs = Status(@, 404)] ELSE x
  IN  IF ends = {} THEN [x |-> y, f |-> <<>>, values |-> <<>>]
      ELSE IF is(last) = "throws" THEN [x |-> [y EXCEPT !.threw = TRUE], f |-> <<>>, values |-> <<>>]
      ELSE IF is(last) = "method" THEN [x |-> Answered(y, 405), f |-> <<>>, values |-> <<>>]
      ELSE [x |-> y, f |-> <<Site.functions[last]>>, values |-> PathValues(url, SubSeq(Site.functions, 1, last))]

-----------------------------------------------------------------------------
\* An argument: where it is taken from, and its type.
ParamText(rq, f, values, p) ==
  CASE p.from = "path"      -> At(values, p.name, <<>>)
    [] p.from = "reqparam"  -> At(rq.query, p.name, <<>>)
    [] p.from = "postparam" -> At(rq.form, p.name, <<>>)
    [] p.from = "header"    -> At(rq.headers, p.name, <<>>)
    [] p.from = "multipart-content" ->
         IF p.name \in DOMAIN rq.parts /\ ~rq.parts[p.name].file THEN rq.parts[p.name].text ELSE <<>>
    [] p.from = "body"      -> rq.body

\* What is wrong with an argument before its text is looked at; 0 for nothing.
ParamStatus(rq, f, p) ==
  IF f.icont # "" /\ f.icont # rq.ctype THEN 415
  ELSE IF p.from = "multipart-content" /\ p.type # "vector-of-filestream"
          /\ (p.name \notin DOMAIN rq.parts \/ (rq.parts[p.name].file /\ p.type # "filestream")) THEN 500
  ELSE IF p.from = "body" /\ Len(f.params) > 1 THEN 400 ELSE 0

\* lexical_cast takes an empty text for 0; an object needs its JSON or XML.
Converts(type, text) ==
  CASE type = "number" -> \A i \in DOMAIN text : text[i] \in {"1", "2", "3"}
    [] type \in {"string", "filestream", "vector-of-filestream"} -> TRUE
    [] OTHER -> text = <<type>>

Argument(rq, f, values, p) ==
  LET status == ParamStatus(rq, f, p)
      text   == ParamText(rq, f, values, p)
  IN  IF status # 0 THEN [status |-> status, text |-> <<>>]
      ELSE IF ~Converts(p.type, text) THEN [status |-> 400, text |-> <<>>]
      ELSE [status |-> 0, text |-> IF p.type = "number" /\ text = <<>> THEN <<"0">> ELSE text]

Arguments(rq, f, values) == [i \in DOMAIN f.params |-> Argument(rq, f, values, f.params[i])]

\* A call of the application, on a bean; what it answers shows its arguments.
Call(on, name, args) == [bean |-> on, name |-> name, args |-> args]
Invoked(rs, call) == [Status(rs, 200) EXCEPT !.content = <<call.name>> \o call.args]

\* The call of function f with these arguments, unless one of them is wrong.
CallOf(x, f, args) ==
  LET wrong == {i \in DOMAIN args : args[i].status # 0}
  IN  IF wrong # {} THEN Answered(x, args[Min(wrong)].status)
      ELSE IF f.name \notin Site.methods THEN [x EXCEPT !.rs = Status(@, 404)]
      ELSE [x EXCEPT !.call = Call(f.bean, f.name, [i \in DOMAIN args |-> args[i].text])]

CallFound(found) ==
  IF found.f = <<>> THEN found.x
  ELSE IF ~Bean(found.f[1].bean) THEN Answered(found.x, 500)
  ELSE CallOf(found.x, found.f[1], Arguments(found.x.rq, found.f[1], found.values))

RestController(x) == CallFound(FindFunction(x))

-----------------------------------------------------------------------------
\* A plain controller's answer takes the place of what the handlers before it
\* have said; with no status the request goes on.
Controller(x, name) ==
  IF ~Bean(name) THEN Answered(x, 500)
  ELSE IF name \in Site.failing THEN x
  ELSE [x EXCEPT !.rs = Site.service[name], !.done = Site.service[name].status # 0]

\* HttpRequest::setFile, for an address of another extension.
Mapped(x, ext) ==
  LET base(url) == IF Last(url) \in Extensions THEN Front(url) ELSE url
  IN  [x EXCEPT !.rq.url = Append(base(@), ext)]

ByExtension(f, x) ==
  IF <<x.rq.ctx, "*.*">> \in DOMAIN f THEN f[<<x.rq.ctx, "*.*">>] ELSE At(f, <<x.rq.ctx, Ext(x)>>, "")

HandleController(x) ==
  IF ByExtension(Site.controllers, x) # "" THEN Controller(x, ByExtension(Site.controllers, x))
  ELSE IF ByExtension(Site.mappings, x) # "" THEN Mapped(x, ByExtension(Site.mappings, x))
  ELSE RestController(x)

-----------------------------------------------------------------------------
\* FormHandler: the fields of a form.  A number that is not in the query is 0,
\* although it may be in the body.
ParamValue(rq, name) ==
  IF name \in DOMAIN rq.query THEN rq.query[name] ELSE At(rq.form, name, <<>>)

FormField(rq, field) ==
  IF field.type # "string" /\ At(rq.query, field.name, <<>>) = <<>> THEN <<"0">>
  ELSE ParamValue(rq, field.name)

FormBean(rq, form) == [i \in DOMAIN form.fields |-> FormField(rq, form.fields[i])]

\* A form that is not configured, or has no controller, is left without a status.
Form(x) ==
  IF x.rq.url \notin DOMAIN Site.forms \/ ~Bean(Site.forms[x.rq.url].bean) THEN x
  ELSE [x EXCEPT !.rs = Invoked(@, Call(Site.forms[x.rq.url].bean, "onSubmit",
                                        FormBean(x.rq, Site.forms[x.rq.url])))]
=============================================================================
