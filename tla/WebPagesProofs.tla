---------------------------- MODULE WebPagesProofs ----------------------------
(***************************************************************************)
(* Proofs about the handlers of WebPages: which role they leave in the     *)
(* session, whom they refuse a page to, and where their answers end, for   *)
(* any application, configuration and request.                             *)
(***************************************************************************)
EXTENDS WebPages, SequenceTheorems, WellFoundedInduction, TLAPS

XFields == {"rq", "rs", "role", "dirty", "done", "threw", "called", "call"}
RsFields == {"status", "head", "content", "list", "compressed"}

\* What every handler leaves alone, but for the one that logs in.
Same(x, y) == DOMAIN y = XFields /\ y.role = x.role

LEMMA AnsweredSame ==
  ASSUME NEW x, DOMAIN x = XFields, NEW code
  PROVE  /\ Same(x, Answered(x, code))
         /\ Answered(x, code).done /\ Answered(x, code).threw = x.threw /\ Answered(x, code).call = x.call
         /\ Answered(x, code).rs = Status(x.rs, code) /\ Answered(x, code).rq = x.rq
BY DEF Answered, Same, XFields

LEMMA WithSame ==
  ASSUME NEW x, DOMAIN x = XFields, NEW name, NEW value
  PROVE  /\ Same(x, With(x, name, value))
         /\ With(x, name, value).done = x.done /\ With(x, name, value).threw = x.threw
         /\ With(x, name, value).call = x.call /\ With(x, name, value).rq = x.rq
         /\ With(x, name, value).rs = AddHeader(x.rs, name, value)
BY DEF With, Same, XFields

LEMMA ServingFields ==
  ASSUME NEW rq, NEW role
  PROVE  /\ DOMAIN Serving(rq, role) = XFields
         /\ Serving(rq, role).rq = rq /\ Serving(rq, role).role = role /\ Serving(rq, role).rs = NewResponse
         /\ Serving(rq, role).call = NoCall /\ ~Serving(rq, role).done /\ ~Serving(rq, role).threw
BY DEF Serving, XFields

-----------------------------------------------------------------------------
(* CORS and security. *)

\* A preflight, or a request of another site, is done with by CORS unless it is
\* allowed; it has no page then.
Unserved(y) == y.done /\ y.call = NoCall /\ ~y.threw /\ DOMAIN y.rs = RsFields /\ y.rs.status # 200
Unchanged(x, y) ==
  /\ Same(x, y) /\ y.rq = x.rq /\ y.done = x.done /\ y.threw = x.threw /\ y.call = x.call
  /\ DOMAIN y.rs = RsFields

LEMMA StatusFields ==
  ASSUME NEW rs, DOMAIN rs = RsFields, NEW code
  PROVE  /\ DOMAIN Status(rs, code) = RsFields /\ Status(rs, code).status = code
         /\ Status(rs, code).head = rs.head /\ Status(rs, code).content = rs.content
         /\ Status(rs, code).list = rs.list /\ Status(rs, code).compressed = rs.compressed
BY DEF Status, RsFields

LEMMA HeaderFields ==
  ASSUME NEW rs, DOMAIN rs = RsFields, NEW name, NEW value
  PROVE  /\ DOMAIN AddHeader(rs, name, value) = RsFields /\ AddHeader(rs, name, value).status = rs.status
         /\ AddHeader(rs, name, value).head = Put(rs.head, name, value)
         /\ AddHeader(rs, name, value).content = rs.content
         /\ AddHeader(rs, name, value).list = rs.list /\ AddHeader(rs, name, value).compressed = rs.compressed
BY DEF AddHeader, RsFields

LEMMA NewFields == DOMAIN NewResponse = RsFields /\ NewResponse.status = 0 /\ NewResponse.list = <<>>
                   /\ NewResponse.content = <<>> /\ NewResponse.head = <<>>
BY DEF NewResponse, RsFields

LEMMA PreflightUnserved ==
  ASSUME NEW x, DOMAIN x = XFields, DOMAIN x.rs = RsFields, x.rs.status = 0, x.call = NoCall, ~x.threw
  PROVE  Same(x, Preflight(x)) /\ Unserved(Preflight(x)) /\ Preflight(x).rq = x.rq
<1>1. ASSUME NEW code \in {400, 403, 405}
      PROVE  Same(x, Answered(x, code)) /\ Unserved(Answered(x, code)) /\ Answered(x, code).rq = x.rq
  BY AnsweredSame, StatusFields DEF Unserved
<1>2. ASSUME NEW value
      PROVE  LET y == [With(x, "Access-Control-Allow-Origin", value) EXCEPT !.done = TRUE]
             IN  Same(x, y) /\ Unserved(y) /\ y.rq = x.rq
  <2> DEFINE w == With(x, "Access-Control-Allow-Origin", value)
  <2>1. /\ Same(x, w) /\ w.threw = x.threw /\ w.call = x.call /\ w.rq = x.rq
        /\ w.rs = AddHeader(x.rs, "Access-Control-Allow-Origin", value)
    BY WithSame
  <2>2. DOMAIN w.rs = RsFields /\ w.rs.status = 0
    BY <2>1, HeaderFields
  <2> HIDE DEF w
  <2>. QED BY <2>1, <2>2 DEF Same, Unserved, XFields, w
<1> DEFINE origin == IF Site.cors.origins = {"*"} THEN "*" ELSE x.rq.origin
           allowed == [With(x, "Access-Control-Allow-Origin", origin) EXCEPT !.done = TRUE]
<1>3. Preflight(x) \in {Answered(x, 400), Answered(x, 403), Answered(x, 405), allowed}
  BY DEF Preflight
<1>4. Same(x, allowed) /\ Unserved(allowed) /\ allowed.rq = x.rq
  BY <1>2
<1> HIDE DEF allowed
<1>. QED BY <1>1, <1>3, <1>4

LEMMA CORSUnserved ==
  ASSUME NEW x, DOMAIN x = XFields, DOMAIN x.rs = RsFields, x.rs.status = 0, x.call = NoCall, ~x.threw
  PROVE  Same(x, CORS(x)) /\ CORS(x).rq = x.rq /\ (Unserved(CORS(x)) \/ Unchanged(x, CORS(x)))
<1>1. ASSUME NEW code \in {403, 405}
      PROVE  Same(x, Answered(x, code)) /\ Unserved(Answered(x, code)) /\ Answered(x, code).rq = x.rq
  BY AnsweredSame, StatusFields DEF Unserved
<1>2. Same(x, x) /\ Unchanged(x, x)
  BY DEF Same, Unchanged
<1>3. ASSUME NEW value PROVE Unchanged(x, With(x, "Access-Control-Allow-Origin", value))
  BY WithSame, HeaderFields DEF Unchanged
<1>4. CASE CORSRequestType(x.rq) = "OTHER"
  BY <1>2, <1>4 DEF CORS
<1>5. CASE CORSRequestType(x.rq) = "PREFLIGHT"
  BY <1>5, PreflightUnserved DEF CORS
<1>6. CASE CORSRequestType(x.rq) \notin {"OTHER", "PREFLIGHT"}
  <2>1. CORS(x) = IF ~IsOriginAllowed(x.rq.origin) THEN Answered(x, 403)
                  ELSE IF ~IsMethodAllowed(x.rq.method) THEN Answered(x, 405)
                  ELSE With(x, "Access-Control-Allow-Origin", x.rq.origin)
    BY <1>6 DEF CORS
  <2>. QED BY <1>1, <1>3, <2>1 DEF Unchanged
<1>. QED BY <1>4, <1>5, <1>6

\* Who logs in has named a user with the right password.
Proved(rq) == IF rq.user # <<>> /\ LoginRole(SecurityOf(rq), rq).valid THEN {LoginRole(SecurityOf(rq), rq).role} ELSE {}
RolesFrom(rq, role) == {role, Anonymous} \cup Proved(rq)

LEMMA LoginRoles ==
  ASSUME NEW x, DOMAIN x = XFields, x.rq.user # <<>>
  PROVE  /\ DOMAIN Login(x, SecurityOf(x.rq)) = XFields
         /\ Login(x, SecurityOf(x.rq)).role \in {Anonymous} \cup Proved(x.rq)
<1> DEFINE sec == SecurityOf(x.rq)
           user == LoginRole(sec, x.rq)
           w == With(x, "Location", sec.welcome)
<1>1. DOMAIN w = XFields
  BY WithSame DEF Same
<1>2. CASE user.valid
  <2>1. Login(x, sec) = [Answered(w, 307) EXCEPT !.role = user.role, !.dirty = TRUE]
    BY <1>2 DEF Login
  <2>2. DOMAIN Answered(w, 307) = XFields
    BY <1>1, AnsweredSame DEF Same
  <2> HIDE DEF w, user
  <2>3. DOMAIN Login(x, sec) = XFields /\ Login(x, sec).role = user.role
    BY <2>1, <2>2 DEF XFields
  <2>. QED BY <1>2, <2>3 DEF Proved, user
<1>3. CASE ~user.valid
  <2>1. Login(x, sec) = [Answered(x, 401) EXCEPT !.role = Anonymous, !.dirty = TRUE]
    BY <1>3 DEF Login
  <2>2. DOMAIN Answered(x, 401) = XFields
    BY AnsweredSame DEF Same
  <2>. QED BY <2>1, <2>2 DEF XFields
<1>. QED BY <1>2, <1>3

LEMMA SecurityRoles ==
  ASSUME NEW x, DOMAIN x = XFields
  PROVE  DOMAIN Security(x) = XFields /\ Security(x).role \in RolesFrom(x.rq, x.role)
<1>1. x.rq.user # <<>> => /\ DOMAIN Login(x, SecurityOf(x.rq)) = XFields
                          /\ Login(x, SecurityOf(x.rq)).role \in {Anonymous} \cup Proved(x.rq)
  BY LoginRoles
<1>2. ASSUME NEW value
      PROVE  DOMAIN Answered(With(x, "Location", value), 307) = XFields
             /\ Answered(With(x, "Location", value), 307).role = x.role
  BY WithSame, AnsweredSame DEF Same
<1>3. \/ Security(x) = x
      \/ Security(x) = Answered(With(x, "Location", SecurityOf(x.rq).login), 307)
      \/ x.rq.user # <<>> /\ Security(x) = Login(x, SecurityOf(x.rq))
  BY DEF Security
<1>. QED BY <1>1, <1>2, <1>3 DEF RolesFrom

LEMMA SentElsewhere ==
  ASSUME NEW x, DOMAIN x = XFields, DOMAIN x.rs = RsFields, x.call = NoCall, ~x.threw, NEW page
  PROVE  /\ Unserved(Answered(With(x, "Location", page), 307))
         /\ Same(x, Answered(With(x, "Location", page), 307))
<1> DEFINE w == With(x, "Location", page)
<1>1. Same(x, w) /\ w.threw = x.threw /\ w.call = x.call /\ w.rs = AddHeader(x.rs, "Location", page)
  BY WithSame
<1>2. DOMAIN w.rs = RsFields
  BY <1>1, HeaderFields
<1> HIDE DEF w
<1>3. Same(w, Answered(w, 307)) /\ Unserved(Answered(w, 307))
  BY <1>1, <1>2, AnsweredSame, StatusFields DEF Unserved, Same
<1>. QED BY <1>1, <1>3 DEF Same, w

\* A page that a role is needed for: without it the login page is named
\* instead, with it nothing changes.
LEMMA SecurityRefuses ==
  ASSUME NEW x, DOMAIN x = XFields, DOMAIN x.rs = RsFields, x.call = NoCall, ~x.threw,
         RoleOf(x.rq) \notin {"", Anonymous}, Protects(x.rq)
  PROVE  /\ x.role # RoleOf(x.rq) => Unserved(Security(x)) /\ Same(x, Security(x))
         /\ x.role = RoleOf(x.rq) => Security(x) = x
<1> DEFINE sec == SecurityOf(x.rq)
<1>1. /\ sec.provider # "" /\ sec.login # <<>> /\ Secured(x.rq).path # <<>> /\ x.rq.path # sec.login
      /\ Secured(x.rq).role = RoleOf(x.rq) /\ Secured(x.rq).role # Anonymous
  BY DEF Protects, RoleOf
<1>2. Security(x) = IF RoleOf(x.rq) # (IF x.role = "" THEN Anonymous ELSE x.role)
                    THEN Answered(With(x, "Location", sec.login), 307) ELSE x
  BY ZenonT(60), <1>1 DEF Security
<1>3. CASE x.role # RoleOf(x.rq)
  <2>1. Security(x) = Answered(With(x, "Location", sec.login), 307)
    BY <1>2, <1>3
  <2>2. /\ Unserved(Answered(With(x, "Location", sec.login), 307))
        /\ Same(x, Answered(With(x, "Location", sec.login), 307))
    BY SentElsewhere
  <2> HIDE DEF sec
  <2>. QED BY <2>1, <2>2, <1>3
<1>4. CASE x.role = RoleOf(x.rq)
  BY <1>2, <1>4
<1>. QED BY <1>3, <1>4

-----------------------------------------------------------------------------
(* The other handlers: what they do to the answer is to say that something  *)
(* is wrong, or to give it a content.                                       *)
Errors == 400 .. 599

\* At most another status, an error.
Marked(rs, t) ==
  /\ t.head = rs.head /\ t.content = rs.content /\ t.list = rs.list /\ t.compressed = rs.compressed
  /\ t.status = rs.status \/ t.status \in Errors
Noted(x, y) ==
  /\ Same(x, y) /\ y.rq = x.rq /\ y.call = x.call
  /\ DOMAIN x.rs = RsFields => DOMAIN y.rs = RsFields /\ Marked(x.rs, y.rs)

LEMMA NotedItself ==
  ASSUME NEW x, DOMAIN x = XFields PROVE Noted(x, x)
BY DEF Noted, Same, Marked

LEMMA NotedTwice ==
  ASSUME NEW x, NEW y, NEW z, Noted(x, y), Noted(y, z) PROVE Noted(x, z)
BY DEF Noted, Same, Marked

LEMMA NotedStatus ==
  ASSUME NEW x, DOMAIN x = XFields, NEW code \in Errors
  PROVE  Noted(x, Answered(x, code)) /\ Noted(x, [x EXCEPT !.rs = Status(@, code)])
<1>1. DOMAIN x.rs = RsFields => DOMAIN Status(x.rs, code) = RsFields /\ Marked(x.rs, Status(x.rs, code))
  BY StatusFields DEF Marked
<1>2. Noted(x, Answered(x, code))
  BY <1>1, AnsweredSame DEF Noted
<1>3. PICK rs : rs = Status(x.rs, code)
  OBVIOUS
<1>4. Noted(x, [x EXCEPT !.rs = rs])
  BY <1>1, <1>3 DEF Noted, Same, XFields
<1>. QED BY <1>2, <1>3, <1>4

LEMMA CalledNoted ==
  ASSUME NEW x, DOMAIN x = XFields, NEW phase, NEW filters
  PROVE  /\ Noted(x, Called(x, phase, filters))
         /\ Called(x, phase, filters).rs = x.rs /\ Called(x, phase, filters).call = x.call
         /\ Called(x, phase, filters).threw = x.threw /\ Called(x, phase, filters).done = x.done
<1>1. PICK called : called = x.called \o [i \in DOMAIN filters |-> <<phase, filters[i]>>]
  OBVIOUS
<1>2. Called(x, phase, filters) = [x EXCEPT !.called = called]
  BY <1>1 DEF Called
<1>. QED BY <1>2 DEF Noted, Same, Marked, XFields

LEMMA FilterNoted ==
  ASSUME NEW x, DOMAIN x = XFields PROVE Noted(x, Filter(x))
<1> DEFINE y == HandleIn(x)
           filters == FiltersFor(y.rq.ctx, Ext(y), "handle")
           z == Called(y, "handle", filters)
<1>1. Noted(x, y)
  BY CalledNoted DEF HandleIn
<1>2. Noted(y, z)
  BY <1>1, CalledNoted DEF Noted, Same
<1>3. PICK done : Filter(x) = [z EXCEPT !.done = done]
  BY DEF Filter, FilterHandle
<1> HIDE DEF y, z
<1>4. Noted(z, Filter(x))
  BY <1>2, <1>3 DEF Noted, Same, Marked, XFields
<1>. QED BY <1>1, <1>2, <1>4, NotedTwice

LEMMA AuthNoted ==
  ASSUME NEW x, DOMAIN x = XFields PROVE Noted(x, Auth(x))
<1>0. 401 \in Errors /\ 500 \in Errors
  BY DEF Errors
<1>1. Noted(x, Answered(x, 401)) /\ Noted(x, Answered(x, 500)) /\ Noted(x, x)
  BY ZenonT(60), <1>0, NotedItself, NotedStatus
<1>2. Auth(x) \in {x, Answered(x, 401), Answered(x, 500)}
  BY DEF Auth
<1>. QED BY <1>1, <1>2

LEMMA FoundNoted ==
  ASSUME NEW x, DOMAIN x = XFields PROVE Noted(x, FindFunction(x).x)
<1> DEFINE url   == Split(x.rq.path, "/")
           is(i) == Compared(url, x.rq.method, Site.functions[i])
           ends  == {i \in DOMAIN Site.functions : is(i) \in {"throws", "method", "found"}}
           last  == IF ends = {} THEN Len(Site.functions) ELSE Min(ends)
           y     == IF \E i \in 1 .. last : is(i) \in {"other", "partly"} THEN [x EXCEPT !.rs = Status(@, 404)] ELSE x
<1>1. Noted(x, y)
  <2>1. 404 \in Errors
    BY DEF Errors
  <2>. QED BY <2>1, NotedItself, NotedStatus
<1>2. FindFunction(x).x \in {y, [y EXCEPT !.threw = TRUE], Answered(y, 405)}
  BY DEF FindFunction
<1> HIDE DEF y
<1>3. DOMAIN y = XFields
  BY <1>1 DEF Noted, Same
<1>4. Noted(y, [y EXCEPT !.threw = TRUE])
  BY <1>3 DEF Noted, Same, Marked, XFields
<1>5. 405 \in Errors
  BY DEF Errors
<1>6. Noted(y, Answered(y, 405))
  BY <1>3, <1>5, NotedStatus
<1>7. Noted(y, FindFunction(x).x)
  <2>1. Noted(y, y)
    BY <1>3, NotedItself
  <2>. QED BY Zenon, <1>2, <1>4, <1>6, <2>1
<1>. QED BY <1>1, <1>7, NotedTwice

\* A set of numbers has a least one.
LEMMA MinOf ==
  ASSUME NEW S \in SUBSET Nat, S # {} PROVE Min(S) \in S
<1>1. PICK x \in S : \A y \in S : ~(<<y, x>> \in OpToRel(<, Nat))
  BY NatLessThanWellFounded, WFMin
<1>2. \A y \in S : ~(y < x)
  BY <1>1 DEF OpToRel
<1>3. \A y \in S : x <= y
  BY <1>2
<1>. QED BY <1>3 DEF Min

\* What is wrong with an argument is an error.
LEMMA ArgumentStatus ==
  ASSUME NEW rq, NEW f, NEW values, NEW p
  PROVE  Argument(rq, f, values, p).status \in {0} \cup Errors
<1>1. ParamStatus(rq, f, p) \in {0, 400, 415, 500}
  BY DEF ParamStatus
<1>2. Argument(rq, f, values, p).status \in {ParamStatus(rq, f, p), 400, 0}
  BY DEF Argument
<1>. QED BY <1>1, <1>2 DEF Errors

\* The call is all that a controller's function adds; its arguments are a text.
LEMMA CallOfSame ==
  ASSUME NEW x, DOMAIN x = XFields, NEW f, NEW args
  PROVE  Same(x, CallOf(x, f, args))
<1>1. PICK code : code = args[Min({i \in DOMAIN args : args[i].status # 0})].status
  OBVIOUS
<1>2. PICK rs : rs = Status(x.rs, 404)
  OBVIOUS
<1>3. PICK call : call = Call(f.bean, f.name, [i \in DOMAIN args |-> args[i].text])
  OBVIOUS
<1>4. CallOf(x, f, args) \in {Answered(x, code), [x EXCEPT !.rs = rs], [x EXCEPT !.call = call]}
  BY <1>1, <1>2, <1>3 DEF CallOf
<1>5. Same(x, Answered(x, code)) /\ Same(x, [x EXCEPT !.rs = rs]) /\ Same(x, [x EXCEPT !.call = call])
  BY AnsweredSame DEF Same, XFields
<1>. QED BY <1>4, <1>5

LEMMA RestSame ==
  ASSUME NEW x, DOMAIN x = XFields
  PROVE  Same(x, RestController(x))
<1>1. PICK found : found = FindFunction(x)
  OBVIOUS
<1>2. Same(x, found.x)
  BY <1>1, FoundNoted DEF Noted
<1>3. PICK args : args = Arguments(found.x.rq, found.f[1], found.values)
  OBVIOUS
<1>4. RestController(x) \in {found.x, Answered(found.x, 500), CallOf(found.x, found.f[1], args)}
  BY <1>1, <1>3 DEF RestController, CallFound
<1>5. /\ Same(found.x, found.x) /\ Same(found.x, Answered(found.x, 500))
      /\ Same(found.x, CallOf(found.x, found.f[1], args))
  BY <1>2, AnsweredSame, CallOfSame DEF Same
<1>6. Same(found.x, RestController(x))
  BY <1>4, <1>5
<1>. QED BY <1>2, <1>6 DEF Same

LEMMA ControllerSame ==
  ASSUME NEW x, DOMAIN x = XFields, NEW name
  PROVE  Same(x, Controller(x, name))
<1>1. PICK rs : rs = Site.service[name]
  OBVIOUS
<1>2. PICK done : done = (Site.service[name].status # 0)
  OBVIOUS
<1>3. Controller(x, name) \in {Answered(x, 500), x, [x EXCEPT !.rs = rs, !.done = done]}
  BY <1>1, <1>2 DEF Controller
<1>4. Same(x, Answered(x, 500)) /\ Same(x, x) /\ Same(x, [x EXCEPT !.rs = rs, !.done = done])
  BY AnsweredSame DEF Same, XFields
<1>. QED BY <1>3, <1>4

LEMMA MappedSame ==
  ASSUME NEW x, DOMAIN x = XFields, NEW ext
  PROVE  /\ Same(x, Mapped(x, ext)) /\ Mapped(x, ext).rs = x.rs
         /\ DOMAIN Mapped(x, ext).rq = DOMAIN x.rq
         /\ \A f \in DOMAIN x.rq \ {"url"} : Mapped(x, ext).rq[f] = x.rq[f]
<1>1. PICK url : Mapped(x, ext) = [x EXCEPT !.rq.url = url]
  BY DEF Mapped
<1>2. Mapped(x, ext) = [x EXCEPT !.rq = [x.rq EXCEPT !.url = url]]
  BY <1>1
<1>3. PICK rq : rq = [x.rq EXCEPT !.url = url]
  OBVIOUS
<1>4. Mapped(x, ext) = [x EXCEPT !.rq = rq]
  BY <1>2, <1>3
<1>5. Same(x, Mapped(x, ext)) /\ Mapped(x, ext).rs = x.rs /\ Mapped(x, ext).rq = rq
  BY <1>4 DEF Same, XFields
<1>. QED BY <1>3, <1>5

LEMMA ControllersSame ==
  ASSUME NEW x, DOMAIN x = XFields
  PROVE  Same(x, HandleController(x))
BY ControllerSame, MappedSame, RestSame DEF HandleController

-----------------------------------------------------------------------------
(* The second phase leaves the role alone, whatever it serves. *)
LEMMA AnswerSame ==
  ASSUME NEW x, DOMAIN x = XFields, NEW rs
  PROVE  /\ Same(x, [x EXCEPT !.rs = rs]) /\ [x EXCEPT !.rs = rs].rs = rs /\ [x EXCEPT !.rs = rs].rq = x.rq
         /\ [x EXCEPT !.rs = rs].threw = x.threw /\ [x EXCEPT !.rs = rs].call = x.call
         /\ [x EXCEPT !.rs = rs].done = x.done
BY DEF Same, XFields

\* A handler that gives the answer another status, headers and content.
Rewritten(x, y) == Same(x, y) /\ y.rq = x.rq /\ y.call = x.call

LEMMA RewrittenRs ==
  ASSUME NEW x, DOMAIN x = XFields, NEW y, \E rs : y = [x EXCEPT !.rs = rs]
  PROVE  Rewritten(x, y)
BY AnswerSame DEF Rewritten

LEMMA RewrittenWith ==
  ASSUME NEW x, DOMAIN x = XFields, NEW y, \E name, value, rs : y = [With(x, name, value) EXCEPT !.rs = rs]
  PROVE  Rewritten(x, y)
<1>1. PICK name, value, rs : y = [With(x, name, value) EXCEPT !.rs = rs]
  OBVIOUS
<1>2. PICK w : w = With(x, name, value)
  OBVIOUS
<1>3. Same(x, w) /\ w.rq = x.rq /\ w.call = x.call
  BY <1>2, WithSame
<1>4. Rewritten(w, y)
  BY <1>1, <1>2, <1>3, RewrittenRs DEF Same
<1>. QED BY <1>3, <1>4 DEF Rewritten, Same

LEMMA RewrittenTwice ==
  ASSUME NEW x, NEW y, NEW z, Rewritten(x, y), Rewritten(y, z) PROVE Rewritten(x, z)
BY DEF Rewritten, Same

LEMMA RewrittenItself ==
  ASSUME NEW x, DOMAIN x = XFields PROVE Rewritten(x, x)
BY DEF Rewritten, Same

LEMMA PageRewritten ==
  ASSUME NEW x, DOMAIN x = XFields, NEW text PROVE Rewritten(x, Page(x, text))
<1>1. CASE text = <<>>
  BY <1>1, RewrittenRs DEF Page
<1>2. CASE text # <<>>
  BY <1>2, RewrittenWith DEF Page
<1>. QED BY <1>1, <1>2

LEMMA AjaxRewritten ==
  ASSUME NEW x, DOMAIN x = XFields PROVE Rewritten(x, Ajax(x))
<1>1. \/ \E rs : Ajax(x) = [x EXCEPT !.rs = rs]
      \/ \E name, value, rs : Ajax(x) = [With(x, name, value) EXCEPT !.rs = rs]
  BY Zenon DEF Ajax
<1>. QED BY <1>1, RewrittenRs, RewrittenWith

LEMMA SoapRewritten ==
  ASSUME NEW x, DOMAIN x = XFields PROVE Rewritten(x, Soap(x))
<1>1. \/ \E rs : Soap(x) = [x EXCEPT !.rs = rs]
      \/ \E name, value, rs : Soap(x) = [With(x, name, value) EXCEPT !.rs = rs]
  BY Zenon DEF Soap
<1>. QED BY <1>1, RewrittenRs, RewrittenWith

LEMMA FviewRewritten ==
  ASSUME NEW x, DOMAIN x = XFields PROVE Rewritten(x, Fview(x))
<1>1. \/ \E rs : Fview(x) = [x EXCEPT !.rs = rs]
      \/ \E name, value, rs : Fview(x) = [With(x, name, value) EXCEPT !.rs = rs]
  BY Zenon DEF Fview
<1>. QED BY <1>1, RewrittenRs, RewrittenWith

LEMMA FormRewritten ==
  ASSUME NEW x, DOMAIN x = XFields PROVE Rewritten(x, Form(x))
<1>1. Form(x) = x \/ \E rs : Form(x) = [x EXCEPT !.rs = rs]
  BY Zenon DEF Form
<1>. QED BY <1>1, RewrittenRs, RewrittenItself

LEMMA UpdateRewritten ==
  ASSUME NEW x, DOMAIN x = XFields PROVE Rewritten(x, UpdateContent(x))
<1>1. UpdateContent(x) = [x EXCEPT !.threw = TRUE] \/ \E rs : UpdateContent(x) = [x EXCEPT !.rs = rs]
  BY ZenonT(90) DEF UpdateContent
<1>2. Rewritten(x, [x EXCEPT !.threw = TRUE])
  BY DEF Rewritten, Same, XFields
<1>. QED BY <1>1, <1>2, RewrittenRs

LEMMA ContentRewritten ==
  ASSUME NEW x, DOMAIN x = XFields, NEW mime PROVE Rewritten(x, ContentOf(x, mime))
<1>1. ContentOf(x, mime) = UpdateContent(x) \/ \E rs : ContentOf(x, mime) = [x EXCEPT !.rs = rs]
  BY Zenon DEF ContentOf
<1>. QED BY <1>1, RewrittenRs, UpdateRewritten

LEMMA StaticRewritten ==
  ASSUME NEW x, DOMAIN x = XFields PROVE Rewritten(x, StaticOrContent(x))
<1>1. PICK mime : StaticOrContent(x) \in {ContentOf(x, mime), ContentOf(With(x, "Content-Encoding", Site.encoding), mime)}
  BY DEF StaticOrContent
<1>2. PICK w : w = With(x, "Content-Encoding", Site.encoding)
  OBVIOUS
<1>3. Rewritten(x, w)
  BY <1>2, WithSame DEF Rewritten
<1>4. Rewritten(w, ContentOf(w, mime)) /\ Rewritten(x, ContentOf(x, mime))
  BY <1>3, ContentRewritten DEF Rewritten, Same
<1>. QED BY <1>1, <1>2, <1>3, <1>4, RewrittenTwice

LEMMA ScriptRewritten ==
  ASSUME NEW x, DOMAIN x = XFields PROVE Rewritten(x, ScriptOrExt(x))
<1>1. PICK e : /\ e = IF Ext(x) \in ScriptExtensions THEN [x |-> Script(x), handled |-> TRUE] ELSE ExtHandle(x)
               /\ ScriptOrExt(x) = FviewOrStatic(e)
  BY DEF ScriptOrExt
<1>2. e.x \in {Script(x), Ajax(x), Dcp(x), View(x), Tpe(x), x}
  BY <1>1 DEF ExtHandle
<1>3. Rewritten(x, e.x)
  BY <1>2, PageRewritten, AjaxRewritten, RewrittenItself DEF Script, Dcp, View, Tpe
<1>4. FviewOrStatic(e) \in {Fview(e.x), StaticOrContent(e.x)}
  BY DEF FviewOrStatic
<1>5. Rewritten(e.x, FviewOrStatic(e))
  BY <1>3, <1>4, FviewRewritten, StaticRewritten DEF Rewritten, Same
<1>. QED BY <1>1, <1>3, <1>5, RewrittenTwice

LEMMA DispatchRewritten ==
  ASSUME NEW x, DOMAIN x = XFields PROVE Rewritten(x, Dispatch(x))
<1>1. Dispatch(x) \in {x, Form(x), Soap(x), ScriptOrExt(x)}
  BY DEF Dispatch
<1>. QED BY <1>1, RewrittenItself, FormRewritten, SoapRewritten, ScriptRewritten

\* What the filters on the way out and the packing do to an answer.
Wrapped(x, y) ==
  /\ Same(x, y) /\ y.rq = x.rq /\ y.call = x.call /\ y.threw = x.threw
  /\ y.rs = x.rs \/ y.rs = AddHeader(x.rs, "Content-Encoding", Site.encoding)

LEMMA PackedWrapped ==
  ASSUME NEW x, DOMAIN x = XFields PROVE Wrapped(x, Packed(HandleOut(x)))
<1>1. PICK h : h = HandleOut(x)
  OBVIOUS
<1>2. Noted(x, h) /\ h.rs = x.rs /\ h.call = x.call /\ h.threw = x.threw
  BY <1>1, CalledNoted DEF HandleOut
<1>3. Packed(h) \in {h, With(h, "Content-Encoding", Site.encoding)}
  BY DEF Packed
<1>. QED BY <1>1, <1>2, <1>3, WithSame DEF Wrapped, Noted, Same

LEMMA PhaseTwoSame ==
  ASSUME NEW x, DOMAIN x = XFields
  PROVE  /\ Same(x, PhaseTwo(x)) /\ PhaseTwo(x).call = x.call
         /\ Unserved(x) => Unserved([PhaseTwo(x) EXCEPT !.done = TRUE])
<1>1. PICK d : d = Dispatch(x)
  OBVIOUS
<1>2. Rewritten(x, d)
  BY <1>1, DispatchRewritten
<1>3. Wrapped(d, PhaseTwo(x))
  BY <1>1, <1>2, PackedWrapped DEF PhaseTwo, Rewritten, Same
<1>4. Same(x, PhaseTwo(x)) /\ PhaseTwo(x).call = x.call
  BY <1>2, <1>3 DEF Rewritten, Wrapped, Same
<1>5. ASSUME Unserved(x) PROVE Unserved([PhaseTwo(x) EXCEPT !.done = TRUE])
  <2>1. d = x
    BY <1>1, <1>5 DEF Dispatch, Unserved
  <2>2. /\ DOMAIN PhaseTwo(x).rs = RsFields /\ PhaseTwo(x).rs.status # 200
        /\ ~PhaseTwo(x).threw /\ PhaseTwo(x).call = NoCall
    BY <1>3, <1>5, <2>1, HeaderFields DEF Wrapped, Unserved
  <2>. QED BY <1>4, <2>2 DEF Unserved, Same, XFields
<1>. QED BY <1>4, <1>5

-----------------------------------------------------------------------------
(* The whole way of a request. *)
LEMMA ThenStops ==
  ASSUME NEW x, NEW y
  PROVE  /\ x.done => Then(x, y) = x
         /\ ~x.done /\ ~x.threw => Then(x, y) = y
         /\ Then(x, y) \in {x, y}
BY DEF Then

\* What is done with stays as it is until the second phase.
Rest(secured) ==
  LET filtered == Then(secured, Filter(secured))
      allowed  == Then(filtered, Auth(filtered))
  IN  Then(allowed, HandleController(allowed))

LEMMA PhaseOneIs ==
  ASSUME NEW rq, NEW role
  PROVE  LET cors == CORS(Serving(rq, role)) IN PhaseOne(rq, role) = Rest(Then(cors, Security(cors)))
<1>1. PICK cors : cors = CORS(Serving(rq, role))
  OBVIOUS
<1>2. PICK secured : secured = Then(cors, Security(cors))
  OBVIOUS
<1>3. {Then(x, Security(x)) : x \in {cors}} = {secured}
  BY <1>2
<1>4. PICK filtered : filtered = Then(secured, Filter(secured))
  OBVIOUS
<1>5. {Then(x, Filter(x)) : x \in {secured}} = {filtered}
  BY <1>4
<1>6. PICK allowed : allowed = Then(filtered, Auth(filtered))
  OBVIOUS
<1>7. {Then(x, Auth(x)) : x \in {filtered}} = {allowed}
  BY <1>6
<1>8. PICK last : last = Then(allowed, HandleController(allowed))
  OBVIOUS
<1>9. {Then(y, HandleController(y)) : y \in {allowed}} = {last}
  BY <1>8
<1>10. {CORS(x) : x \in {Serving(rq, role)}} = {cors}
  BY <1>1
<1>11. PhaseOne(rq, role) = CHOOSE x \in {last} : TRUE
  BY <1>3, <1>5, <1>7, <1>9, <1>10 DEF PhaseOne
<1>12. PhaseOne(rq, role) = last
  BY <1>11
<1>13. Rest(secured) = last
  BY <1>4, <1>6, <1>8 DEF Rest
<1>. QED BY <1>1, <1>2, <1>12, <1>13

LEMMA RestStops ==
  ASSUME NEW x, x.done PROVE Rest(x) = x
BY ThenStops DEF Rest

LEMMA RestIsSame ==
  ASSUME NEW x, DOMAIN x = XFields PROVE Same(x, Rest(x))
<1>1. PICK f : f = Then(x, Filter(x))
  OBVIOUS
<1>2. Same(x, f)
  BY <1>1, ThenStops, FilterNoted DEF Noted, Same
<1>3. PICK a : a = Then(f, Auth(f))
  OBVIOUS
<1>4. Same(f, a)
  BY <1>2, <1>3, ThenStops, AuthNoted DEF Noted, Same
<1>5. PICK h : h = Then(a, HandleController(a))
  OBVIOUS
<1>6. Same(a, h)
  BY <1>4, <1>5, ThenStops, ControllersSame DEF Same
<1>7. Rest(x) = h
  BY <1>1, <1>3, <1>5 DEF Rest
<1>. QED BY <1>2, <1>4, <1>6, <1>7 DEF Same

LEMMA UnlessCalledSame ==
  ASSUME NEW x, DOMAIN x = XFields
  PROVE  /\ Same(x, UnlessCalled(x))
         /\ Unserved(x) => /\ UnlessCalled(x).call = NoCall /\ ~UnlessCalled(x).threw
                           /\ UnlessCalled(x).rs.status # 200 /\ DOMAIN UnlessCalled(x).rs = RsFields
<1>1. PICK y : y = PhaseTwo(x)
  OBVIOUS
<1>2. Same(x, y) /\ y.call = x.call /\ (Unserved(x) => Unserved([y EXCEPT !.done = TRUE]))
  BY <1>1, PhaseTwoSame
<1>3. Unserved(x) => y.call = NoCall /\ ~y.threw /\ y.rs.status # 200 /\ DOMAIN y.rs = RsFields
  BY <1>2 DEF Unserved, Same, XFields
<1>4. UnlessCalled(x) = IF x.call = NoCall /\ ~x.threw THEN y ELSE x
  BY <1>1 DEF UnlessCalled
<1>. QED BY <1>2, <1>3, <1>4 DEF Same, Unserved

\* The role that a request leaves in the session is the one it came with, that
\* of nobody, or that of the user it has named with the right password.
LEMMA RoleAfter ==
  ASSUME NEW rq, NEW role
  PROVE  /\ DOMAIN UnlessCalled(PhaseOne(rq, role)) = XFields
         /\ UnlessCalled(PhaseOne(rq, role)).role \in RolesFrom(rq, role)
<1>1. PICK s : s = Serving(rq, role)
  OBVIOUS
<1>2. PICK cors : cors = CORS(s)
  OBVIOUS
<1>3. Same(s, cors) /\ cors.rq = rq /\ cors.role = role
  BY <1>1, <1>2, ServingFields, NewFields, CORSUnserved DEF Same
<1>4. PICK x : x = Then(cors, Security(cors))
  OBVIOUS
<1>5. DOMAIN x = XFields /\ x.role \in RolesFrom(rq, role)
  BY <1>3, <1>4, ThenStops, SecurityRoles DEF Same, RolesFrom
<1>6. PICK y : y = PhaseOne(rq, role)
  OBVIOUS
<1>7. Same(x, y)
  BY <1>1, <1>2, <1>4, <1>5, <1>6, PhaseOneIs, RestIsSame
<1>8. Same(y, UnlessCalled(y))
  BY <1>7, UnlessCalledSame DEF Same
<1>. QED BY <1>5, <1>6, <1>7, <1>8 DEF Same

\* A page that a role is needed for is not served to another role.
NotServed(rs) == rs.status # 200

LEMMA RefusedOthers ==
  ASSUME NEW rq, NEW role, RoleOf(rq) \notin {"", Anonymous}, Protects(rq),
         UnlessCalled(PhaseOne(rq, role)).role # RoleOf(rq)
  PROVE  /\ UnlessCalled(PhaseOne(rq, role)).call = NoCall
         /\ ~UnlessCalled(PhaseOne(rq, role)).threw
         /\ NotServed(UnlessCalled(PhaseOne(rq, role)).rs)
         /\ DOMAIN UnlessCalled(PhaseOne(rq, role)).rs = RsFields
<1>1. PICK s : s = Serving(rq, role)
  OBVIOUS
<1>2. PICK cors : cors = CORS(s)
  OBVIOUS
<1>0. /\ DOMAIN s = XFields /\ s.rq = rq /\ s.role = role /\ DOMAIN s.rs = RsFields /\ s.rs.status = 0
      /\ s.call = NoCall /\ ~s.done /\ ~s.threw
  <2>1. /\ DOMAIN s = XFields /\ s.rq = rq /\ s.role = role /\ s.rs = NewResponse /\ s.call = NoCall
        /\ ~s.done /\ ~s.threw
    BY <1>1 DEF Serving, XFields
  <2>. QED BY <2>1, NewFields
<1>3. Same(s, cors) /\ cors.rq = rq /\ cors.role = role /\ (Unserved(cors) \/ Unchanged(s, cors))
  BY <1>0, <1>2, CORSUnserved DEF Same
<1>4. PICK x : x = Then(cors, Security(cors))
  OBVIOUS
<1>5. PICK y : y = PhaseOne(rq, role)
  OBVIOUS
<1>6. y = Rest(x)
  BY <1>1, <1>2, <1>4, <1>5, PhaseOneIs
<1>7. Unserved(x) /\ DOMAIN x = XFields
  <2>1. CASE Unserved(cors)
    BY <1>3, <1>4, <2>1, ThenStops DEF Unserved, Same
  <2>2. CASE Unchanged(s, cors)
    <3>1. ~cors.done /\ ~cors.threw /\ cors.call = NoCall /\ DOMAIN cors = XFields /\ DOMAIN cors.rs = RsFields
        BY <1>0, <2>2 DEF Unchanged, Same
    <3>2. x = Security(cors)
      BY <1>4, <3>1, ThenStops
    <3>3. /\ cors.role # RoleOf(rq) => Unserved(x) /\ Same(cors, x)
          /\ cors.role = RoleOf(rq) => x = cors
      BY <1>3, <3>1, <3>2, SecurityRefuses
    <3>4. CASE cors.role # RoleOf(rq)
      BY <3>3, <3>4 DEF Same
    <3>5. CASE cors.role = RoleOf(rq)
      <4>1. x = cors
        BY <3>3, <3>5
      <4>2. Same(x, y)
        BY <1>6, <3>1, <4>1, RestIsSame
      <4>3. Same(y, UnlessCalled(y))
        BY <4>2, UnlessCalledSame DEF Same
      <4>4. UnlessCalled(y).role = RoleOf(rq)
        BY <3>5, <4>1, <4>2, <4>3 DEF Same
      <4>. QED BY <1>5, <4>4
    <3>. QED BY <3>4, <3>5
  <2>. QED BY <1>3, <2>1, <2>2
<1>8. y = x
  BY <1>6, <1>7, RestStops DEF Unserved
<1>9. /\ UnlessCalled(x).call = NoCall /\ ~UnlessCalled(x).threw /\ NotServed(UnlessCalled(x).rs)
      /\ DOMAIN UnlessCalled(x).rs = RsFields
  BY <1>7, UnlessCalledSame DEF NotServed
<1>. QED BY <1>5, <1>8, <1>9

\* The head that is put before an answer: where the answer lists parts they are
\* its content, a content that is not in chunks is packed for a client that
\* takes it, and its length is said.
Listed(rs) == IF rs.list = <<>> THEN rs ELSE [rs EXCEPT !.content = Multipart(rs.list)]
Packing(rs) ==
  IF IsChunked(rs) \/ rs.compressed \/ Listed(rs).content = <<>> \/ Header(rs, "Content-Encoding") = ""
  THEN Listed(rs) ELSE [Listed(rs) EXCEPT !.content = Compressed(Header(rs, "Content-Encoding"), @)]

LEMMA HeadIs ==
  ASSUME NEW rs PROVE GenerateHead(rs) = Lengthened(Packing(rs))
BY DEF GenerateHead, Packing, Listed

LEMMA ListedFields ==
  ASSUME NEW rs, DOMAIN rs = RsFields
  PROVE  /\ DOMAIN Listed(rs) = RsFields /\ Listed(rs).status = rs.status /\ Listed(rs).head = rs.head
         /\ rs.list = <<>> => Listed(rs).content = rs.content
<1>1. PICK text : text = Multipart(rs.list)
  OBVIOUS
<1>2. Listed(rs) = IF rs.list = <<>> THEN rs ELSE [rs EXCEPT !.content = text]
  BY <1>1 DEF Listed
<1>. QED BY <1>2 DEF RsFields

LEMMA PackingFields ==
  ASSUME NEW rs, DOMAIN rs = RsFields
  PROVE  /\ DOMAIN Packing(rs) = RsFields /\ Packing(rs).status = rs.status /\ Packing(rs).head = rs.head
         /\ Packing(rs).content \in {Listed(rs).content,
                                     Compressed(Header(rs, "Content-Encoding"), Listed(rs).content)}
         /\ Listed(rs).content = <<>> \/ IsChunked(rs) => Packing(rs).content = Listed(rs).content
<1>1. PICK l : l = Listed(rs)
  OBVIOUS
<1>2. PICK text : text = Compressed(Header(rs, "Content-Encoding"), l.content)
  OBVIOUS
<1>3. Packing(rs) = IF IsChunked(rs) \/ rs.compressed \/ l.content = <<>> \/ Header(rs, "Content-Encoding") = ""
                    THEN l ELSE [l EXCEPT !.content = text]
  BY <1>1, <1>2 DEF Packing
<1>4. DOMAIN l = RsFields /\ l.status = rs.status /\ l.head = rs.head
  BY <1>1, ListedFields
<1>5. /\ DOMAIN Packing(rs) = RsFields /\ Packing(rs).status = rs.status /\ Packing(rs).head = rs.head
      /\ Packing(rs).content \in {l.content, text}
      /\ l.content = <<>> \/ IsChunked(rs) => Packing(rs).content = l.content
  BY <1>3, <1>4 DEF RsFields
<1>. QED BY <1>1, <1>2, <1>5

LEMMA HeadFields ==
  ASSUME NEW rs, DOMAIN rs = RsFields
  PROVE  DOMAIN GenerateHead(rs) = RsFields /\ GenerateHead(rs).status = rs.status
<1>1. PICK p : p = Packing(rs)
  OBVIOUS
<1>2. DOMAIN p = RsFields /\ p.status = rs.status
  BY <1>1, PackingFields
<1>3. PICK n : n = Len(p.content)
  OBVIOUS
<1>4. GenerateHead(rs) \in {p, AddHeader(p, "Content-Length", n)}
  BY <1>1, <1>3, HeadIs DEF Lengthened
<1>. QED BY <1>2, <1>4, HeaderFields

\* Framing an answer leaves its status.
LEMMA GeneratedStatus ==
  ASSUME NEW rs, DOMAIN rs = RsFields, NEW method
  PROVE  GenerateResponse(rs, method).status = rs.status
<1>1. PICK r : r = GenerateHead(rs)
  OBVIOUS
<1>2. DOMAIN r = RsFields /\ r.status = rs.status
  BY <1>1, HeadFields
<1>. QED BY <1>1, <1>2 DEF GenerateResponse, Answer

-----------------------------------------------------------------------------
(* Where an answer ends. *)

\* An answer that goes through the handlers, a request that does, and one whose
\* answer is made.
Going(rs) == DOMAIN rs = RsFields /\ rs.status \in Nat /\ Text(rs.content) /\ rs.list = <<>> /\ Ends(rs)
Whole(rs) ==
  /\ DOMAIN rs = RsFields /\ rs.status \in Nat /\ Text(rs.content) /\ (rs.list = <<>> \/ rs.status = 206)
  /\ Ends(rs)
Asks(rq, q) == {"method", "paramSize"} \subseteq DOMAIN rq /\ rq.method = q.method /\ rq.paramSize = q.paramSize
OnWay(x, q) == DOMAIN x = XFields /\ Asks(x.rq, q) /\ Text(x.call.args) /\ Going(x.rs)
Bodiless(q) == q.method \in {"HEAD", "OPTIONS"}
Made(x, q) == DOMAIN x = XFields /\ (x.threw \/ Bodiless(q) \/ Whole(x.rs))

Framing == {"Content-Length", "Transfer-Encoding"}

LEMMA HeadersKept ==
  ASSUME NEW head, NEW name, name \notin Framing, NEW value
  PROVE  /\ \A f \in Framing : f \in DOMAIN Put(head, name, value) <=> f \in DOMAIN head
         /\ \A f \in Framing : f \in DOMAIN head => Put(head, name, value)[f] = head[f]
BY DEF Put, Framing

LEMMA HeaderEnds ==
  ASSUME NEW rs, DOMAIN rs = RsFields, NEW name, name \notin Framing, NEW value
  PROVE  Ends(AddHeader(rs, name, value)) <=> Ends(rs)
<1>1. PICK t : t = AddHeader(rs, name, value)
  OBVIOUS
<1>2. t.status = rs.status /\ t.content = rs.content /\ t.head = Put(rs.head, name, value)
  BY <1>1, HeaderFields
<1>3. /\ "Content-Length" \in DOMAIN t.head <=> "Content-Length" \in DOMAIN rs.head
      /\ "Content-Length" \in DOMAIN rs.head => t.head["Content-Length"] = rs.head["Content-Length"]
      /\ "Transfer-Encoding" \in DOMAIN t.head <=> "Transfer-Encoding" \in DOMAIN rs.head
      /\ "Transfer-Encoding" \in DOMAIN rs.head => t.head["Transfer-Encoding"] = rs.head["Transfer-Encoding"]
  BY <1>2, HeadersKept DEF Framing
<1>4. IsChunked(t) <=> IsChunked(rs)
  BY <1>3 DEF IsChunked, Header
<1>. QED BY <1>1, <1>2, <1>3, <1>4 DEF Ends

LEMMA GoingHeader ==
  ASSUME NEW rs, NEW name, name \notin Framing, NEW value
  PROVE  /\ Going(rs) => Going(AddHeader(rs, name, value))
         /\ Whole(rs) => Whole(AddHeader(rs, name, value))
BY HeaderFields, HeaderEnds DEF Going, Whole

LEMMA GoingMarked ==
  ASSUME NEW rs, Going(rs), NEW t, DOMAIN t = RsFields, Marked(rs, t) PROVE Going(t)
<1>1. IsChunked(t) <=> IsChunked(rs)
  BY DEF Marked, IsChunked, Header
<1>2. t.status \in Nat /\ (t.status = rs.status \/ t.status > 307)
  <2>1. \A n \in Errors : n \in Nat /\ n > 307
    BY DEF Errors
  <2>2. rs.status \in Nat /\ (t.status = rs.status \/ t.status \in Errors)
    BY DEF Marked, Going
  <2>. QED BY <2>1, <2>2
<1>3. Ends(t)
  BY <1>1, <1>2 DEF Going, Marked, Ends
<1>. QED BY <1>2, <1>3 DEF Going, Marked

LEMMA GoingStatus ==
  ASSUME NEW rs, Going(rs), NEW code \in Errors \cup {0, 304, 307} PROVE Going(Status(rs, code))
<1>1. PICK t : t = Status(rs, code)
  OBVIOUS
<1>2. DOMAIN t = RsFields /\ t.status = code /\ t.content = rs.content /\ t.list = rs.list
  BY <1>1, StatusFields DEF Going
<1>3. code \in Nat /\ (code > 307 \/ code \in {0, 206, 304, 307})
  BY DEF Errors
<1>. QED BY <1>1, <1>2, <1>3 DEF Going, Ends

LEMMA GoingContent ==
  ASSUME NEW rs, Going(rs), NEW text, Text(text), text # <<>>, NEW code \in Nat
  PROVE  Going([Status(rs, code) EXCEPT !.content = text])
<1>1. PICK t : t = Status(rs, code)
  OBVIOUS
<1>2. DOMAIN t = RsFields /\ t.status = code /\ t.list = <<>>
  BY <1>1, StatusFields DEF Going
<1>3. PICK u : u = [t EXCEPT !.content = text]
  OBVIOUS
<1>4. DOMAIN u = RsFields /\ u.status = code /\ u.list = <<>> /\ u.content = text
  BY <1>2, <1>3 DEF RsFields
<1>5. Going(u)
  BY <1>4 DEF Going, Ends
<1>. QED BY <1>1, <1>3, <1>5

LEMMA OnWayRs ==
  ASSUME NEW x, NEW q, OnWay(x, q), NEW rs, Going(rs) PROVE OnWay([x EXCEPT !.rs = rs], q)
BY AnswerSame DEF OnWay, Same

LEMMA OnWayWith ==
  ASSUME NEW x, NEW q, OnWay(x, q), NEW name, name \notin Framing, NEW value PROVE OnWay(With(x, name, value), q)
BY WithSame, GoingHeader DEF OnWay, Same

LEMMA OnWayAnswered ==
  ASSUME NEW x, NEW q, OnWay(x, q), NEW code \in Errors \cup {307} PROVE OnWay(Answered(x, code), q)
BY AnsweredSame, GoingStatus DEF OnWay, Same

LEMMA OnWayAs ==
  ASSUME NEW x, NEW q, OnWay(x, q), NEW y, DOMAIN y = XFields, y.rq = x.rq, y.rs = x.rs, y.call = x.call
  PROVE  OnWay(y, q)
BY DEF OnWay

LEMMA OnWayNoted ==
  ASSUME NEW x, NEW q, OnWay(x, q), NEW y, Noted(x, y) PROVE OnWay(y, q)
<1>1. DOMAIN x.rs = RsFields
  BY DEF OnWay, Going
<1>2. Going(y.rs)
  BY <1>1, GoingMarked DEF OnWay, Noted
<1>. QED BY <1>2 DEF OnWay, Noted, Same

LEMMA OnWayCORS ==
  ASSUME NEW x, NEW q, OnWay(x, q) PROVE OnWay(CORS(x), q)
<1>0. DOMAIN x = XFields /\ "Access-Control-Allow-Origin" \notin Framing
  BY DEF OnWay, Framing
<1>1. 400 \in Errors /\ 403 \in Errors /\ 405 \in Errors
  BY DEF Errors
<1>2. OnWay(Answered(x, 400), q) /\ OnWay(Answered(x, 403), q) /\ OnWay(Answered(x, 405), q)
  BY <1>1, OnWayAnswered
<1>3. PICK value : value = IF Site.cors.origins = {"*"} THEN "*" ELSE x.rq.origin
  OBVIOUS
<1>4. PICK w : w = With(x, "Access-Control-Allow-Origin", value)
  OBVIOUS
<1>5. PICK v : v = With(x, "Access-Control-Allow-Origin", x.rq.origin)
  OBVIOUS
<1>6. OnWay(w, q) /\ OnWay(v, q)
  BY <1>0, <1>4, <1>5, OnWayWith
<1>11. PICK d : d = [w EXCEPT !.done = TRUE]
  OBVIOUS
<1>7. OnWay(d, q)
  BY <1>6, <1>11, OnWayAs DEF OnWay, XFields
<1>8. Preflight(x) \in {Answered(x, 400), Answered(x, 403), Answered(x, 405), d}
  BY <1>3, <1>4, <1>11 DEF Preflight
<1>9. CORS(x) \in {x, Preflight(x), Answered(x, 403), Answered(x, 405), v}
  BY <1>5 DEF CORS
<1>10. OnWay(Preflight(x), q)
  BY <1>2, <1>7, <1>8
<1>. QED BY <1>2, <1>6, <1>9, <1>10

LEMMA OnWaySecurity ==
  ASSUME NEW x, NEW q, OnWay(x, q) PROVE OnWay(Security(x), q)
<1>0. DOMAIN x = XFields /\ "Location" \notin Framing /\ 401 \in Errors
  BY DEF OnWay, Framing, Errors
<1>1. ASSUME NEW page PROVE OnWay(Answered(With(x, "Location", page), 307), q)
  BY <1>0, OnWayWith, OnWayAnswered
<1>2. ASSUME NEW y, OnWay(y, q), NEW role PROVE OnWay([y EXCEPT !.role = role, !.dirty = TRUE], q)
  BY <1>2, OnWayAs DEF OnWay, XFields
<1>3. OnWay(Answered(x, 401), q)
  BY <1>0, OnWayAnswered
<1>4. PICK sec : sec = SecurityOf(x.rq)
  OBVIOUS
<1>5. PICK user : user = LoginRole(sec, x.rq)
  OBVIOUS
<1>6. PICK a : a = Answered(With(x, "Location", sec.welcome), 307)
  OBVIOUS
<1>7. PICK b : b = Answered(x, 401)
  OBVIOUS
<1>8. Login(x, sec) \in {[a EXCEPT !.role = user.role, !.dirty = TRUE], [b EXCEPT !.role = Anonymous, !.dirty = TRUE]}
  BY <1>5, <1>6, <1>7 DEF Login
<1>9. OnWay(Login(x, sec), q)
  <2>1. OnWay(a, q) /\ OnWay(b, q)
    BY <1>1, <1>3, <1>6, <1>7
  <2>2. /\ OnWay([a EXCEPT !.role = user.role, !.dirty = TRUE], q)
        /\ OnWay([b EXCEPT !.role = Anonymous, !.dirty = TRUE], q)
    BY <1>2, <2>1
  <2>. QED BY <1>8, <2>2
<1>10. Security(x) \in {x, Answered(With(x, "Location", sec.login), 307), Login(x, sec)}
  BY <1>4 DEF Security
<1>. QED BY <1>1, <1>9, <1>10


\* The controllers.
LEMMA FoundIs ==
  ASSUME NEW x, Text(Site.functions)
  PROVE  \/ FindFunction(x).f = <<>>
         \/ \E i \in DOMAIN Site.functions : FindFunction(x).f = <<Site.functions[i]>>
<1> DEFINE url   == Split(x.rq.path, "/")
           is(i) == Compared(url, x.rq.method, Site.functions[i])
           ends  == {i \in DOMAIN Site.functions : is(i) \in {"throws", "method", "found"}}
           last  == IF ends = {} THEN Len(Site.functions) ELSE Min(ends)
<1>1. FindFunction(x).f = <<>> \/ (ends # {} /\ FindFunction(x).f = <<Site.functions[last]>>)
  BY DEF FindFunction
<1>2. ends # {} => last \in DOMAIN Site.functions
  <2>1. ends \in SUBSET Nat /\ ends \subseteq DOMAIN Site.functions
    BY DEF Text
  <2>2. PICK e : e = ends
    OBVIOUS
  <2>3. e # {} => Min(e) \in e
    BY <2>1, <2>2, MinOf
  <2>. QED BY <2>1, <2>2, <2>3
<1>. QED BY <1>1, <1>2

LEMMA CallOfOnWay ==
  ASSUME NEW x, NEW q, OnWay(x, q), NEW f, Text(f.params), NEW values
  PROVE  OnWay(CallOf(x, f, Arguments(x.rq, f, values)), q)
<1>1. PICK args : args = Arguments(x.rq, f, values)
  OBVIOUS
<1>2. DOMAIN args = DOMAIN f.params /\ DOMAIN args \subseteq Nat
  BY <1>1 DEF Arguments, Text
<1>3. \A i \in DOMAIN args : args[i].status \in {0} \cup Errors
  <2>1. \A i \in DOMAIN f.params : args[i] = Argument(x.rq, f, values, f.params[i])
    BY <1>1 DEF Arguments
  <2>. QED BY <1>2, <2>1, ArgumentStatus
<1>4. PICK wrong : wrong = {i \in DOMAIN args : args[i].status # 0}
  OBVIOUS
<1>5. wrong # {} => args[Min(wrong)].status \in Errors
  <2>1. wrong \in SUBSET Nat
    BY <1>2, <1>4
  <2>2. wrong # {} => Min(wrong) \in wrong
    BY <2>1, MinOf
  <2>. QED BY <1>3, <1>4, <2>2
<1>6. PICK texts : texts = [i \in DOMAIN args |-> args[i].text]
  OBVIOUS
<1>7. Text(texts)
  <2>1. Len(f.params) \in Nat /\ texts = [i \in 1 .. Len(f.params) |-> args[i].text]
    BY <1>2, <1>6 DEF Text
  <2>. QED BY <2>1 DEF Text
<1>8. PICK call : call = Call(f.bean, f.name, texts)
  OBVIOUS
<1>9. PICK code : code = args[Min(wrong)].status
  OBVIOUS
<1>10. CallOf(x, f, args) = IF wrong # {} THEN Answered(x, code)
                            ELSE IF f.name \notin Site.methods THEN [x EXCEPT !.rs = Status(@, 404)]
                            ELSE [x EXCEPT !.call = call]
  BY <1>4, <1>6, <1>8, <1>9 DEF CallOf
<1>11. wrong # {} => OnWay(Answered(x, code), q)
  BY <1>5, <1>9, OnWayAnswered
<1>12. OnWay([x EXCEPT !.rs = Status(@, 404)], q)
  <2>1. 404 \in Errors
    BY DEF Errors
  <2>2. Going(Status(x.rs, 404))
    BY <2>1, GoingStatus DEF OnWay
  <2>. QED BY <2>2, OnWayRs
<1>13. OnWay([x EXCEPT !.call = call], q)
  <2>1. call.args = texts
    BY <1>8 DEF Call
  <2>. QED BY <1>7, <2>1 DEF OnWay, XFields
<1>. QED BY <1>1, <1>10, <1>11, <1>12, <1>13

LEMMA RestOnWay ==
  ASSUME SiteAnswers, NEW x, NEW q, OnWay(x, q) PROVE OnWay(RestController(x), q)
<1>1. PICK found : found = FindFunction(x)
  OBVIOUS
<1>2. OnWay(found.x, q)
  <2>1. Noted(x, found.x)
    BY <1>1, FoundNoted DEF OnWay
  <2>. QED BY <2>1, OnWayNoted
<1>3. found.f = <<>> \/ \E i \in DOMAIN Site.functions : found.f = <<Site.functions[i]>>
  BY <1>1, FoundIs DEF SiteAnswers
<1>4. CASE found.f = <<>>
  BY <1>1, <1>2, <1>4 DEF RestController, CallFound
<1>5. CASE found.f # <<>>
  <2>1. PICK i \in DOMAIN Site.functions : found.f = <<Site.functions[i]>>
    BY <1>3, <1>5
  <2>2. PICK f : f = Site.functions[i]
    OBVIOUS
  <2>3. found.f[1] = f /\ Text(f.params)
    BY <2>1, <2>2 DEF SiteAnswers
  <2>4. OnWay(CallOf(found.x, f, Arguments(found.x.rq, f, found.values)), q)
    BY <1>2, <2>3, CallOfOnWay
  <2>5. 500 \in Errors
    BY DEF Errors
  <2>6. OnWay(Answered(found.x, 500), q)
    BY <1>2, <2>5, OnWayAnswered
  <2>7. RestController(x) = IF ~Bean(f.bean) THEN Answered(found.x, 500)
                            ELSE CallOf(found.x, f, Arguments(found.x.rq, f, found.values))
    BY <1>1, <1>5, <2>3 DEF RestController, CallFound
  <2>. QED BY <2>4, <2>6, <2>7
<1>. QED BY <1>4, <1>5

LEMMA ControllerOnWay ==
  ASSUME SiteAnswers, NEW x, NEW q, OnWay(x, q), NEW k \in DOMAIN Site.controllers
  PROVE  OnWay(Controller(x, Site.controllers[k]), q)
<1>1. PICK name : name = Site.controllers[k]
  OBVIOUS
<1>2. PICK rs : rs = Site.service[name]
  OBVIOUS
<1>3. PICK done : done = (Site.service[name].status # 0)
  OBVIOUS
<1>4. PICK y : y = [x EXCEPT !.rs = rs, !.done = done]
  OBVIOUS
<1>5. OnWay(Answered(x, 500), q)
  <2>1. 500 \in Errors
    BY DEF Errors
  <2>. QED BY <2>1, OnWayAnswered
<1>6. ASSUME Bean(name), name \notin Site.failing PROVE OnWay(y, q)
  <2>1. name \in DOMAIN Site.service
    BY <1>1, <1>6 DEF SiteAnswers
  <2>2. DOMAIN rs = DOMAIN NewResponse /\ Text(rs.content) /\ rs.list = <<>> /\ rs.status \in Nat /\ Ends(rs)
    BY <1>2, <2>1 DEF SiteAnswers
  <2>3. Going(rs)
    BY <2>2, NewFields DEF Going
  <2>4. DOMAIN y = XFields /\ y.rq = x.rq /\ y.call = x.call /\ y.rs = rs
    BY <1>4 DEF OnWay, XFields
  <2>. QED BY <2>3, <2>4 DEF OnWay
<1>7. Controller(x, name) = IF ~Bean(name) THEN Answered(x, 500) ELSE IF name \in Site.failing THEN x ELSE y
  BY <1>2, <1>3, <1>4 DEF Controller
<1>. QED BY <1>1, <1>5, <1>6, <1>7

LEMMA ControllersOnWay ==
  ASSUME SiteAnswers, NEW x, NEW q, OnWay(x, q) PROVE OnWay(HandleController(x), q)
<1>1. ASSUME ByExtension(Site.controllers, x) # ""
      PROVE  \E k \in DOMAIN Site.controllers : ByExtension(Site.controllers, x) = Site.controllers[k]
  BY <1>1 DEF ByExtension, At
<1>2. ASSUME ByExtension(Site.controllers, x) # ""
      PROVE  OnWay(Controller(x, ByExtension(Site.controllers, x)), q)
  BY <1>1, <1>2, ControllerOnWay
<1>3. ASSUME NEW ext PROVE OnWay(Mapped(x, ext), q)
  <2>1. PICK m : m = Mapped(x, ext)
    OBVIOUS
  <2>2. PICK url : m = [x EXCEPT !.rq.url = url]
    BY <2>1 DEF Mapped
  <2>3. PICK rq : rq = [x.rq EXCEPT !.url = url]
    OBVIOUS
  <2>4. m = [x EXCEPT !.rq = rq]
    BY <2>2, <2>3
  <2>5. DOMAIN m = XFields /\ m.rq = rq /\ m.rs = x.rs /\ m.call = x.call
    BY <2>4 DEF OnWay, XFields
  <2>6. Asks(rq, q)
    BY <2>3 DEF Asks, OnWay
  <2>. QED BY <2>1, <2>5, <2>6 DEF OnWay
<1>. QED BY <1>2, <1>3, RestOnWay DEF HandleController

LEMMA NoCallText == Text(NoCall.args)
BY DEF NoCall, Text

\* The first phase.
LEMMA PhaseOneOnWay ==
  ASSUME SiteAnswers, NEW rq, NEW role, {"method", "paramSize"} \subseteq DOMAIN rq
  PROVE  OnWay(PhaseOne(rq, role), rq)
<1>1. PICK s : s = Serving(rq, role)
  OBVIOUS
<1>2. OnWay(s, rq)
  <2>1. /\ DOMAIN s = XFields /\ s.rq = rq /\ s.call = NoCall /\ s.rs = NewResponse
    BY <1>1, ServingFields
  <2>2. Text(s.call.args)
    BY <2>1, NoCallText
  <2>3. Going(s.rs)
    BY <2>1, NewFields DEF Going, Ends, Text
  <2>. QED BY <2>1, <2>2, <2>3 DEF OnWay, Asks
<1>3. PICK cors : cors = CORS(s)
  OBVIOUS
<1>4. OnWay(cors, rq)
  BY <1>2, <1>3, OnWayCORS
<1>5. PICK secured : secured = Then(cors, Security(cors))
  OBVIOUS
<1>6. OnWay(secured, rq)
  BY <1>4, <1>5, OnWaySecurity, ThenStops
<1>7. PICK filtered : filtered = Then(secured, Filter(secured))
  OBVIOUS
<1>8. OnWay(filtered, rq)
  <2>1. OnWay(Filter(secured), rq)
    <3>1. Noted(secured, Filter(secured))
      BY <1>6, FilterNoted DEF OnWay
    <3>. QED BY <1>6, <3>1, OnWayNoted
  <2>. QED BY <1>6, <1>7, <2>1, ThenStops
<1>9. PICK allowed : allowed = Then(filtered, Auth(filtered))
  OBVIOUS
<1>10. OnWay(allowed, rq)
  <2>1. OnWay(Auth(filtered), rq)
    <3>1. Noted(filtered, Auth(filtered))
      BY <1>8, AuthNoted DEF OnWay
    <3>. QED BY <1>8, <3>1, OnWayNoted
  <2>. QED BY <1>8, <1>9, <2>1, ThenStops
<1>11. OnWay(HandleController(allowed), rq)
  BY <1>10, ControllersOnWay
<1>12. PhaseOne(rq, role) = Then(allowed, HandleController(allowed))
  BY <1>1, <1>3, <1>5, <1>7, <1>9, PhaseOneIs DEF Rest
<1>. QED BY <1>10, <1>11, <1>12, ThenStops


-----------------------------------------------------------------------------
(* What the second phase makes of it. *)
LEMMA GoingIsWhole ==
  ASSUME NEW rs, Going(rs) PROVE Whole(rs)
BY DEF Going, Whole

LEMMA OnWayMade ==
  ASSUME NEW x, NEW q, OnWay(x, q) PROVE Made(x, q)
BY GoingIsWhole DEF OnWay, Made

LEMMA AfterName ==
  ASSUME NEW name, NEW args, Text(args) PROVE Text(<<name>> \o args) /\ <<name>> \o args # <<>>
BY DEF Text

LEMMA InvokedGoing ==
  ASSUME NEW rs, Going(rs), NEW call, Text(call.args) PROVE Going(Invoked(rs, call))
<1>1. PICK text : text = <<call.name>> \o call.args
  OBVIOUS
<1>2. Text(text) /\ text # <<>>
  BY <1>1, AfterName
<1>3. 200 \in Nat
  OBVIOUS
<1>4. Invoked(rs, call) = [Status(rs, 200) EXCEPT !.content = text]
  BY <1>1 DEF Invoked
<1>. QED BY <1>2, <1>3, <1>4, GoingContent

LEMMA OnWayStatus ==
  ASSUME NEW x, NEW q, OnWay(x, q), NEW code \in Errors \cup {304} PROVE OnWay([x EXCEPT !.rs = Status(@, code)], q)
<1>1. Going(Status(x.rs, code))
  BY GoingStatus DEF OnWay
<1>. QED BY <1>1, OnWayRs

LEMMA OnWayPage ==
  ASSUME NEW x, NEW q, OnWay(x, q), NEW mime, NEW text, Text(text), text # <<>>
  PROVE  OnWay([With(x, "Content-Type", mime) EXCEPT !.rs = [Status(@, 200) EXCEPT !.content = text]], q)
<1>1. PICK w : w = With(x, "Content-Type", mime)
  OBVIOUS
<1>2. "Content-Type" \notin Framing /\ 200 \in Nat
  BY DEF Framing
<1>3. OnWay(w, q)
  BY <1>1, <1>2, OnWayWith
<1>4. PICK rs : rs = [Status(w.rs, 200) EXCEPT !.content = text]
  OBVIOUS
<1>5. Going(rs)
  BY <1>2, <1>3, <1>4, GoingContent DEF OnWay
<1>6. OnWay([w EXCEPT !.rs = rs], q)
  BY <1>3, <1>5, OnWayRs
<1>. QED BY <1>1, <1>4, <1>6

LEMMA PageOnWay ==
  ASSUME NEW x, NEW q, OnWay(x, q), NEW text, Text(text) PROVE OnWay(Page(x, text), q)
<1>1. 404 \in Errors
  BY DEF Errors
<1>2. OnWay([x EXCEPT !.rs = Status(@, 404)], q)
  BY <1>1, OnWayStatus
<1>. QED BY <1>2, OnWayPage DEF Page

LEMMA PageOf ==
  ASSUME NEW f, Texts(f), NEW k PROVE Text(At(f, k, <<>>))
BY DEF At, Texts, Text

LEMMA AjaxOnWay ==
  ASSUME NEW x, NEW q, OnWay(x, q), q.paramSize \in Int PROVE OnWay(Ajax(x), q)
<1>1. PICK args : args = AjaxParams(x.rq)
  OBVIOUS
<1>2. x.rq.paramSize \in Int
  BY DEF OnWay, Asks
<1>3. ASSUME ~(x.rq.paramSize < 0) PROVE Text(args)
  <2>1. x.rq.paramSize \in Nat
    BY <1>2, <1>3
  <2>. QED BY <1>1, <2>1 DEF AjaxParams, Text
<1>4. PICK call : call = Call("ajax", x.rq.ajax, args)
  OBVIOUS
<1>5. call.args = args
  BY <1>4 DEF Call
<1>6. PICK w : w = With(x, "Content-Type", "text/plain")
  OBVIOUS
<1>7. OnWay(w, q)
  <2>1. "Content-Type" \notin Framing
    BY DEF Framing
  <2>. QED BY <1>6, <2>1, OnWayWith
<1>8. PICK rs : rs = Invoked(w.rs, call)
  OBVIOUS
<1>9. ASSUME ~(x.rq.paramSize < 0) PROVE OnWay([w EXCEPT !.rs = rs], q)
  <2>1. Going(rs)
    BY <1>3, <1>5, <1>7, <1>8, <1>9, InvokedGoing DEF OnWay
  <2>. QED BY <1>7, <2>1, OnWayRs
<1>10. Ajax(x) = IF x.rq.paramSize < 0 \/ x.rq.ajax \notin Site.ajax[x.rq.path] THEN [x EXCEPT !.rs = Status(@, 500)]
                 ELSE [w EXCEPT !.rs = rs]
  BY <1>1, <1>4, <1>6, <1>8 DEF Ajax
<1>11. OnWay([x EXCEPT !.rs = Status(@, 500)], q)
  <2>1. 500 \in Errors
    BY DEF Errors
  <2>. QED BY <2>1, OnWayStatus
<1>. QED BY <1>9, <1>10, <1>11

LEMMA SoapOnWay ==
  ASSUME NEW x, NEW q, OnWay(x, q) PROVE OnWay(Soap(x), q)
<1>1. PICK text : text = SoapEnvelope(x.rq)
  OBVIOUS
<1>2. Text(text) /\ text # <<>>
  <2>1. \/ text = <<"fault">>
        \/ \E part : text = <<"envelope", part>>
    BY <1>1 DEF SoapEnvelope
  <2>. QED BY <2>1 DEF Text
<1>3. OnWay([x EXCEPT !.rs = Status(@, 400)], q)
  <2>1. 400 \in Errors
    BY DEF Errors
  <2>. QED BY <2>1, OnWayStatus
<1>. QED BY <1>1, <1>2, <1>3, OnWayPage DEF Soap

LEMMA FormOnWay ==
  ASSUME SiteAnswers, NEW x, NEW q, OnWay(x, q) PROVE OnWay(Form(x), q)
<1>1. PICK form : form = Site.forms[x.rq.url]
  OBVIOUS
<1>2. PICK args : args = FormBean(x.rq, form)
  OBVIOUS
<1>3. PICK call : call = Call(form.bean, "onSubmit", args)
  OBVIOUS
<1>4. PICK rs : rs = Invoked(x.rs, call)
  OBVIOUS
<1>5. Form(x) = IF x.rq.url \notin DOMAIN Site.forms \/ ~Bean(form.bean) THEN x ELSE [x EXCEPT !.rs = rs]
  BY <1>1, <1>2, <1>3, <1>4 DEF Form
<1>6. ASSUME x.rq.url \in DOMAIN Site.forms PROVE OnWay([x EXCEPT !.rs = rs], q)
  <2>1. Text(form.fields)
    BY <1>1, <1>6 DEF SiteAnswers
  <2>2. Text(args)
    <3>1. Len(form.fields) \in Nat /\ args = [i \in 1 .. Len(form.fields) |-> FormField(x.rq, form.fields[i])]
      BY <1>2, <2>1 DEF FormBean, Text
    <3>. QED BY <3>1 DEF Text
  <2>3. call.args = args
    BY <1>3 DEF Call
  <2>4. Going(rs)
    BY <1>4, <2>2, <2>3, InvokedGoing DEF OnWay
  <2>. QED BY <2>4, OnWayRs
<1>. QED BY <1>5, <1>6

LEMMA FviewOnWay ==
  ASSUME SiteAnswers, NEW x, NEW q, OnWay(x, q) PROVE OnWay(Fview(x), q)
<1>1. PICK text : text = FviewLines(Site.fviews[x.rq.url])
  OBVIOUS
<1>2. Fview(x) = IF x.rq.url \notin DOMAIN Site.fviews THEN [x EXCEPT !.rs = Status(@, 404)]
                 ELSE [With(x, "Content-Type", "text/html")
                         EXCEPT !.rs = [Status(@, 200) EXCEPT !.content = text]]
  BY <1>1 DEF Fview
<1>3. x.rq.url \in DOMAIN Site.fviews => Text(text) /\ text # <<>>
  BY <1>1 DEF SiteAnswers
<1>4. OnWay([x EXCEPT !.rs = Status(@, 404)], q)
  <2>1. 404 \in Errors
    BY DEF Errors
  <2>. QED BY <2>1, OnWayStatus
<1>. QED BY <1>2, <1>3, <1>4, OnWayPage

\* A file, or what is asked of it.
LEMMA ChunkText ==
  ASSUME NEW text, Text(text) PROVE Text(Chunk(text, 0))
<1>1. PICK n : n = Least(ChunkSize, Len(text) - ChunkSize * 0)
  OBVIOUS
<1>2. n \in Nat
  <2>1. ChunkSize \in Nat /\ Len(text) \in Nat
    BY ChunkSizeAssumption DEF Text
  <2>2. Len(text) - ChunkSize * 0 \in Nat
    BY <2>1
  <2>. QED BY <1>1, <2>1, <2>2 DEF Least
<1>3. PICK start : start = ChunkSize * 0
  OBVIOUS
<1>4. Chunk(text, 0) = [i \in 1 .. n |-> IF start + i \in DOMAIN text THEN text[start + i] ELSE Nul]
  BY <1>1, <1>3 DEF Chunk, GetFileContents
<1>. QED BY <1>2, <1>4 DEF Text

\* A content with its length, one in chunks, and a list of parts.
LEMMA FileWhole ==
  ASSUME NEW rs, Going(rs), NEW name, NEW value, NEW mime, NEW text, Text(text),
         \/ name = "Content-Length" /\ value = Len(text)
         \/ name = "Transfer-Encoding" /\ value = "chunked"
  PROVE  Whole(AddHeader([AddHeader(Status(rs, 200), name, value) EXCEPT !.content = text], "Content-Type", mime))
<1>1. PICK t : t = AddHeader(Status(rs, 200), name, value)
  OBVIOUS
<1>2. DOMAIN t = RsFields /\ t.status = 200 /\ t.list = <<>> /\ t.head = Put(rs.head, name, value)
  BY <1>1, StatusFields, HeaderFields DEF Going
<1>3. PICK u : u = [t EXCEPT !.content = text]
  OBVIOUS
<1>4. DOMAIN u = RsFields /\ u.status = 200 /\ u.list = <<>> /\ u.head = Put(rs.head, name, value) /\ u.content = text
  BY <1>2, <1>3 DEF RsFields
<1>5. name \in DOMAIN u.head /\ u.head[name] = value
  BY <1>4 DEF Put
<1>6. Ends(u)
  <2>1. CASE name = "Content-Length" /\ value = Len(text)
    <3>1. text = <<>> => value = 0
      BY <2>1
    <3>. QED BY <1>4, <1>5, <2>1, <3>1 DEF Ends
  <2>2. CASE name = "Transfer-Encoding" /\ value = "chunked"
    BY <1>5, <2>2 DEF Ends, IsChunked, Header
  <2>. QED BY <2>1, <2>2
<1>7. Whole(u)
  BY <1>4, <1>6 DEF Whole
<1>8. "Content-Type" \notin Framing
  BY DEF Framing
<1>. QED BY <1>1, <1>3, <1>7, <1>8, GoingHeader

LEMMA PartsWhole ==
  ASSUME NEW rs, Going(rs), NEW n, NEW list
  PROVE  Whole([AddHeader(AddHeader(Status(rs, 206), "Content-Type", "multipart/byteranges"), "Content-Length", n)
                  EXCEPT !.list = list])
<1>1. PICK t : t = AddHeader(AddHeader(Status(rs, 206), "Content-Type", "multipart/byteranges"), "Content-Length", n)
  OBVIOUS
<1>2. DOMAIN t = RsFields /\ t.status = 206 /\ t.content = rs.content
  <2>1. PICK a : a = AddHeader(Status(rs, 206), "Content-Type", "multipart/byteranges")
    OBVIOUS
  <2>2. DOMAIN a = RsFields /\ a.status = 206 /\ a.content = rs.content
    BY <2>1, StatusFields, HeaderFields DEF Going
  <2>. QED BY <1>1, <2>1, <2>2, HeaderFields
<1>3. PICK u : u = [t EXCEPT !.list = list]
  OBVIOUS
<1>4. DOMAIN u = RsFields /\ u.status = 206 /\ u.content = rs.content
  BY <1>2, <1>3 DEF RsFields
<1>5. Whole(u)
  BY <1>4 DEF Whole, Going, Ends
<1>. QED BY <1>1, <1>3, <1>5

LEMMA ContentFromWhole ==
  ASSUME NEW rs, Going(rs), NEW rq, NEW text, Text(text) PROVE Whole(ContentFrom(rs, rq, text))
<1>1. Whole(Status(rs, 416))
  <2>1. 416 \in Errors
    BY DEF Errors
  <2>. QED BY <2>1, GoingStatus, GoingIsWhole
<1>2. PICK parts : parts = [AddHeader(AddHeader(Status(rs, 206), "Content-Type", "multipart/byteranges"),
                                      "Content-Length", Len(text)) EXCEPT !.list = RangeParts(rq.ranges, text)]
  OBVIOUS
<1>3. Whole(parts)
  BY <1>2, PartsWhole
<1>4. PICK piece : piece = Chunk(text, 0)
  OBVIOUS
<1>5. PICK chunked : chunked = AddHeader([AddHeader(Status(rs, 200), "Transfer-Encoding", "chunked")
                                            EXCEPT !.content = piece], "Content-Type", rq.mime)
  OBVIOUS
<1>6. Whole(chunked)
  <2>1. Text(piece)
    BY <1>4, ChunkText
  <2>. QED BY <1>5, <2>1, FileWhole
<1>7. PICK all : all = AddHeader([AddHeader(Status(rs, 200), "Content-Length", Len(text))
                                    EXCEPT !.content = text], "Content-Type", rq.mime)
  OBVIOUS
<1>8. Whole(all)
  BY <1>7, FileWhole
<1>9. ContentFrom(rs, rq, text) \in {Status(rs, 416), parts, chunked, all}
  BY <1>2, <1>4, <1>5, <1>7 DEF ContentFrom
<1>. QED BY <1>1, <1>3, <1>6, <1>8, <1>9

LEMMA MadeRs ==
  ASSUME NEW x, NEW q, OnWay(x, q), NEW rs, Whole(rs) \/ Bodiless(q) PROVE Made([x EXCEPT !.rs = rs], q)
BY AnswerSame DEF OnWay, Same, Made

LEMMA UpdateMade ==
  ASSUME SiteAnswers, NEW x, NEW q, OnWay(x, q) PROVE Made(UpdateContent(x), q)
<1>0. DOMAIN x = XFields /\ x.rq.method = q.method /\ Going(x.rs)
  BY DEF OnWay, Asks
<1>1. PICK threw : threw = [x EXCEPT !.threw = TRUE]
  OBVIOUS
<1>2. Made(threw, q)
  BY <1>0, <1>1 DEF Made, XFields
<1>3. PICK options : options = [x EXCEPT !.rs = Status(@, 200)]
  OBVIOUS
<1>4. x.rq.method = "OPTIONS" => Made(options, q)
  BY <1>0, <1>3, MadeRs DEF Bodiless
<1>5. PICK missing : missing = [x EXCEPT !.rs = Status(@, 404)]
  OBVIOUS
<1>6. Made(missing, q)
  <2>1. 404 \in Errors
    BY DEF Errors
  <2>. QED BY <1>5, <2>1, OnWayStatus, OnWayMade
<1>7. PICK file : file = Site.files[x.rq.url]
  OBVIOUS
<1>8. PICK rq : rq = [x.rq EXCEPT !.mime = file.mime]
  OBVIOUS
<1>9. PICK head : head = [x EXCEPT !.rs = HeadFrom(@, rq, file.text)]
  OBVIOUS
<1>10. x.rq.method = "HEAD" => Made(head, q)
  BY <1>0, <1>9, MadeRs DEF Bodiless
<1>11. PICK same : same = [x EXCEPT !.rs = Status(@, 304)]
  OBVIOUS
<1>12. Made(same, q)
  BY <1>11, OnWayStatus, OnWayMade
<1>13. PICK encoding : encoding = Header(x.rs, "Content-Encoding")
  OBVIOUS
<1>14. PICK rs : rs = IF encoding = "" THEN x.rs ELSE [x.rs EXCEPT !.compressed = TRUE]
  OBVIOUS
<1>15. Going(rs)
  <2>1. CASE encoding = ""
    BY <1>0, <1>14, <2>1
  <2>2. CASE encoding # ""
    <3>1. /\ DOMAIN rs = RsFields /\ rs.status = x.rs.status /\ rs.head = x.rs.head /\ rs.content = x.rs.content
          /\ rs.list = x.rs.list
      BY <1>0, <1>14, <2>2 DEF Going, RsFields
    <3>2. Ends(rs)
      BY <1>0, <3>1 DEF Going, Ends, IsChunked, Header
    <3>. QED BY <1>0, <3>1, <3>2 DEF Going
  <2>. QED BY <2>1, <2>2
<1>16. PICK text : text = IF rs.compressed THEN Compressed(encoding, file.text) ELSE file.text
  OBVIOUS
<1>17. PICK sent : sent = [x EXCEPT !.rs = ContentFrom(rs, rq, text)]
  OBVIOUS
<1>18. x.rq.url \in DOMAIN Site.files => Made(sent, q)
  <2> SUFFICES ASSUME x.rq.url \in DOMAIN Site.files PROVE Made(sent, q)
    OBVIOUS
  <2>1. Text(file.text)
    BY <1>7 DEF SiteAnswers
  <2>2. Text(text)
    BY <1>16, <2>1, AfterName DEF Compressed
  <2>3. Whole(ContentFrom(rs, rq, text))
    BY <1>15, <2>2, ContentFromWhole
  <2>. QED BY <1>17, <2>3, MadeRs
<1>19. \/ UpdateContent(x) = threw
       \/ x.rq.method = "OPTIONS" /\ UpdateContent(x) = options
       \/ UpdateContent(x) = missing
       \/ x.rq.method = "HEAD" /\ UpdateContent(x) = head
       \/ UpdateContent(x) = same
       \/ x.rq.url \in DOMAIN Site.files /\ UpdateContent(x) = sent
  BY ZenonT(60), <1>1, <1>3, <1>5, <1>7, <1>8, <1>9, <1>11, <1>13, <1>14, <1>16, <1>17 DEF UpdateContent
<1>. QED BY <1>2, <1>4, <1>6, <1>10, <1>12, <1>18, <1>19

LEMMA ContentMade ==
  ASSUME SiteAnswers, NEW x, NEW q, OnWay(x, q), NEW mime PROVE Made(ContentOf(x, mime), q)
<1>1. PICK value : value = IF Header(Status(x.rs, 200), "Content-Type") = "" THEN mime
                           ELSE Header(Status(x.rs, 200), "Content-Type")
  OBVIOUS
<1>2. PICK t : t = Status(x.rs, 200)
  OBVIOUS
<1>3. PICK rs : rs = AddHeader(t, "Content-Type", value)
  OBVIOUS
<1>4. x.rs.content = <<>> => ContentOf(x, mime) = UpdateContent(x)
  BY DEF ContentOf
<1>5. x.rs.content # <<>> => \E other : ContentOf(x, mime) = [x EXCEPT !.rs = AddHeader(t, "Content-Type", other)]
  BY <1>2 DEF ContentOf
<1>6. ASSUME x.rs.content # <<>>, NEW other PROVE Made([x EXCEPT !.rs = AddHeader(t, "Content-Type", other)], q)
  <2>1. /\ DOMAIN t = RsFields /\ t.status = 200 /\ t.content = x.rs.content /\ t.list = <<>>
        /\ Text(x.rs.content)
    BY <1>2, StatusFields DEF OnWay, Going
  <2>2. Whole(t)
    BY <1>6, <2>1 DEF Whole, Ends
  <2>3. "Content-Type" \notin Framing
    BY DEF Framing
  <2>4. Whole(AddHeader(t, "Content-Type", other))
    BY <2>2, <2>3, GoingHeader
  <2>. QED BY <2>4, MadeRs
<1>. QED BY <1>4, <1>5, <1>6, UpdateMade

LEMMA StaticMade ==
  ASSUME SiteAnswers, NEW x, NEW q, OnWay(x, q) PROVE Made(StaticOrContent(x), q)
<1>1. PICK mime : StaticOrContent(x) \in {ContentOf(x, mime), ContentOf(With(x, "Content-Encoding", Site.encoding), mime)}
  BY DEF StaticOrContent
<1>2. PICK w : w = With(x, "Content-Encoding", Site.encoding)
  OBVIOUS
<1>3. OnWay(w, q)
  <2>1. "Content-Encoding" \notin Framing
    BY DEF Framing
  <2>. QED BY <1>2, <2>1, OnWayWith
<1>4. Made(ContentOf(w, mime), q) /\ Made(ContentOf(x, mime), q)
  BY <1>3, ContentMade
<1>. QED BY <1>1, <1>2, <1>4

LEMMA ScriptMade ==
  ASSUME SiteAnswers, NEW x, NEW q, OnWay(x, q), q.paramSize \in Int PROVE Made(ScriptOrExt(x), q)
<1>1. PICK e : /\ e = IF Ext(x) \in ScriptExtensions THEN [x |-> Script(x), handled |-> TRUE] ELSE ExtHandle(x)
               /\ ScriptOrExt(x) = FviewOrStatic(e)
  BY DEF ScriptOrExt
<1>2. e.x \in {Script(x), Ajax(x), Dcp(x), View(x), Tpe(x), x}
  BY <1>1 DEF ExtHandle
<1>3. OnWay(Script(x), q) /\ OnWay(Dcp(x), q) /\ OnWay(View(x), q) /\ OnWay(Tpe(x), q)
  BY PageOf, PageOnWay DEF Script, Dcp, View, Tpe, SiteAnswers
<1>4. OnWay(Ajax(x), q)
  BY AjaxOnWay
<1>5. OnWay(e.x, q)
  BY <1>2, <1>3, <1>4
<1>6. FviewOrStatic(e) \in {Fview(e.x), StaticOrContent(e.x)}
  BY DEF FviewOrStatic
<1>7. Made(Fview(e.x), q) /\ Made(StaticOrContent(e.x), q)
  BY <1>5, FviewOnWay, OnWayMade, StaticMade
<1>. QED BY <1>1, <1>6, <1>7

LEMMA DispatchMade ==
  ASSUME SiteAnswers, NEW x, NEW q, OnWay(x, q), q.paramSize \in Int PROVE Made(Dispatch(x), q)
<1>1. Dispatch(x) \in {x, Form(x), Soap(x), ScriptOrExt(x)}
  BY DEF Dispatch
<1>2. Made(x, q) /\ Made(Form(x), q) /\ Made(Soap(x), q)
  BY FormOnWay, SoapOnWay, OnWayMade
<1>3. Made(ScriptOrExt(x), q)
  BY ScriptMade
<1>. QED BY <1>1, <1>2, <1>3

LEMMA PhaseTwoMade ==
  ASSUME SiteAnswers, NEW x, NEW q, OnWay(x, q), q.paramSize \in Int PROVE Made(PhaseTwo(x), q)
<1>1. PICK d : d = Dispatch(x)
  OBVIOUS
<1>2. Made(d, q)
  BY <1>1, DispatchMade
<1>3. PICK y : y = PhaseTwo(x)
  OBVIOUS
<1>4. Wrapped(d, y)
  BY <1>1, <1>2, <1>3, PackedWrapped DEF PhaseTwo, Made
<1>5. "Content-Encoding" \notin Framing
  BY DEF Framing
<1>6. Whole(d.rs) => Whole(y.rs)
  BY <1>4, <1>5, GoingHeader DEF Wrapped
<1>. QED BY <1>2, <1>3, <1>4, <1>6 DEF Made, Wrapped, Same

-----------------------------------------------------------------------------
(* How the answer is framed. *)

\* Where the answer ends, of one that is sent with its content.
EndsAt(rs, a) ==
  \/ a.chunked \/ a.length = Len(a.body)
  \/ rs.status > 307 \/ rs.status \in {0, 304, 307}
  \/ rs.status = 206 /\ a.body = <<>>

LEMMA PackedNotEmpty ==
  ASSUME NEW rs, Whole(rs), rs.list = <<>>, Packing(rs).content = <<>> PROVE rs.content = <<>>
<1>1. DOMAIN rs = RsFields /\ Text(rs.content)
  BY DEF Whole
<1>2. Listed(rs).content = rs.content
  BY <1>1, ListedFields
<1>3. Compressed(Header(rs, "Content-Encoding"), rs.content) # <<>>
  BY <1>1, AfterName DEF Compressed
<1>4. Packing(rs).content \in {Listed(rs).content, Compressed(Header(rs, "Content-Encoding"), Listed(rs).content)}
  BY <1>1, PackingFields
<1>. QED BY <1>2, <1>3, <1>4

LEMMA AnswerEnds ==
  ASSUME NEW rs, Whole(rs), NEW method, method \notin {"HEAD", "OPTIONS"}
  PROVE  EndsAt(rs, GenerateResponse(rs, method))
<1>1. PICK p : p = Packing(rs)
  OBVIOUS
<1>2. DOMAIN p = RsFields /\ p.status = rs.status /\ p.head = rs.head
  BY <1>1, PackingFields DEF Whole
<1>3. PICK r : r = GenerateHead(rs)
  OBVIOUS
<1>4. PICK n : n = Len(p.content)
  OBVIOUS
<1>5. r = IF ~IsChunked(p) /\ p.content # <<>> THEN AddHeader(p, "Content-Length", n) ELSE p
  BY <1>1, <1>3, <1>4, HeadIs DEF Lengthened
<1>6. PICK a : a = GenerateResponse(rs, method)
  OBVIOUS
<1>7. /\ a.chunked = IsChunked(r) /\ a.body = r.content
      /\ "Content-Length" \in DOMAIN r.head => a.length = r.head["Content-Length"]
  BY <1>3, <1>6 DEF GenerateResponse, Answer
<1>8. CASE IsChunked(p)
  BY <1>5, <1>6, <1>7, <1>8 DEF EndsAt
<1>9. CASE ~IsChunked(p) /\ p.content # <<>>
  <2>1. r.content = p.content /\ r.head = Put(p.head, "Content-Length", n)
    BY <1>2, <1>5, <1>9, HeaderFields
  <2>2. "Content-Length" \in DOMAIN r.head /\ r.head["Content-Length"] = n
    BY <2>1 DEF Put
  <2>. QED BY <1>4, <1>6, <1>7, <2>1, <2>2 DEF EndsAt
<1>10. CASE ~IsChunked(p) /\ p.content = <<>>
  <2>1. r = p /\ a.body = <<>>
    BY <1>5, <1>7, <1>10
  <2>2. CASE rs.list # <<>>
    BY <1>6, <2>1, <2>2 DEF Whole, EndsAt
  <2>3. CASE rs.list = <<>>
    <3>1. rs.content = <<>>
      BY <1>1, <1>10, <2>3, PackedNotEmpty
    <3>2. ~IsChunked(rs)
      BY <1>2, <1>10 DEF IsChunked, Header
    <3>3. \/ rs.status > 307 \/ rs.status \in {0, 206, 304, 307}
          \/ "Content-Length" \in DOMAIN rs.head /\ rs.head["Content-Length"] = 0
      BY <3>1, <3>2 DEF Whole, Ends
    <3>4. CASE "Content-Length" \in DOMAIN rs.head /\ rs.head["Content-Length"] = 0
      <4>1. a.length = 0
        BY <1>2, <1>7, <2>1, <3>4
      <4>. QED BY <1>6, <2>1, <4>1 DEF EndsAt
    <3>. QED BY <1>6, <2>1, <3>3, <3>4 DEF EndsAt
  <2>. QED BY <2>2, <2>3
<1>. QED BY <1>8, <1>9, <1>10

=============================================================================
