----------------------------- MODULE WebHandlers -----------------------------
(***************************************************************************)
(* The handlers a request goes through, in the order of ServiceTask::run:   *)
(* CORS, security, filters, authorisation, controllers, then form, web      *)
(* service, scripts, the other extensions, and files.  Each is an operator  *)
(* from what is known of the request and its answer to the same.  What the  *)
(* application does is in Site, with the configuration: its controllers,    *)
(* filters, scripts and pages, and its users.                               *)
(***************************************************************************)
EXTENDS HttpResponse

CONSTANTS Site

\* x.rq: the request; x.rs: its answer so far; x.role: the role in the
\* session, x.dirty: whether the session was changed; x.done: isContrl;
\* x.called: the filters called; x.call: the controller to invoke.
NoCall == [bean |-> "", name |-> "", args |-> <<>>]

Serving(rq, role) ==
  [rq |-> rq, rs |-> NewResponse, role |-> role, dirty |-> FALSE, done |-> FALSE,
   threw |-> FALSE, called |-> <<>>, call |-> NoCall]

Answered(x, code) == [x EXCEPT !.rs = Status(@, code), !.done = TRUE]
With(x, name, value) == [x EXCEPT !.rs = AddHeader(@, name, value)]

At(f, k, default) == IF k \in DOMAIN f THEN f[k] ELSE default
Occurs(p, s) == \E i \in 0 .. Len(s) - Len(p) : SubSeq(s, i + 1, i + Len(p)) = p

Extensions == {".html", ".form", ".php", ".pl", ".rb", ".py", ".lua", ".njs", ".dcp", ".view", ".tpe", ".fview", ".do"}
\* ServiceTask::getFileExtension; the whole name when it has none.
GetFileExtension(url) == IF Last(url) \in Extensions THEN Last(url) ELSE ""

Ext(x) == GetFileExtension(x.rq.url)
Bean(name) == name \in Site.beans

-----------------------------------------------------------------------------
\* CorsConfig.  Of the headers asked for only the first is looked at, and
\* asking for none is refused too.
IsOriginAllowed(origin) == Site.cors.origins = {"*"} \/ origin \in Site.cors.origins
IsMethodAllowed(m) == m \in Site.cors.methods
IsHeaderAllowed(asked) ==
  Site.cors.headers = {"*"} \/ (asked # <<>> /\ asked[1] \in Site.cors.headers)

\* The method asked for is looked up under Access-Control-Allow-Methods, a
\* header of answers, as the headers asked for are.
Preflight(x) ==
  LET rq == x.rq IN
  IF ~IsOriginAllowed(rq.origin) THEN Answered(x, 403)
  ELSE IF rq.acam = "" THEN Answered(x, 400)
  ELSE IF rq.acam \notin HttpMethods \/ ~IsMethodAllowed(rq.acam) THEN Answered(x, 405)
  ELSE IF ~IsHeaderAllowed(rq.acah) THEN Answered(x, 403)
  ELSE [With(x, "Access-Control-Allow-Origin", IF Site.cors.origins = {"*"} THEN "*" ELSE rq.origin)
          EXCEPT !.done = TRUE]

CORS(x) ==
  CASE CORSRequestType(x.rq) = "OTHER" -> x
    [] CORSRequestType(x.rq) = "PREFLIGHT" -> Preflight(x)
    [] OTHER -> IF ~IsOriginAllowed(x.rq.origin) THEN Answered(x, 403)
                ELSE IF ~IsMethodAllowed(x.rq.method) THEN Answered(x, 405)
                ELSE With(x, "Access-Control-Allow-Origin", x.rq.origin)

-----------------------------------------------------------------------------
\* Security::matchesPath: the last entry that matches.  Once an entry ended in
\* a star the entries after it match as parts of the address as well.
NoAspect == [path |-> <<>>, role |-> ""]

MatchAspect(url, found, aspect) ==
  LET star == aspect.path = <<>> \/ Last(aspect.path) = "*"
      path == IF star THEN SubSeq(aspect.path, 1, Len(aspect.path) - 1) ELSE aspect.path
      wild == found.wild \/ star
  IN  IF aspect.path = <<"*">> THEN [found EXCEPT !.aspect = aspect]
      ELSE [wild |-> wild,
            aspect |-> IF (wild /\ Occurs(path, url)) \/ (~wild /\ path = url)
                       THEN aspect ELSE found.aspect]

MatchesPath(secures, url) ==
  FoldLeft(LAMBDA found, aspect : MatchAspect(url, found, aspect),
           [wild |-> FALSE, aspect |-> NoAspect], secures).aspect

\* FileAuthController, on the lines of the file of users.
AuthenticateSecurity(lines, user, pass) ==
  \E l \in DOMAIN lines : LET f == Split(lines[l], ":")
                          IN  Len(f) >= 2 /\ f[1] = user /\ f[2] = pass
Authenticate(lines, user, pass) == \E l \in DOMAIN lines : Occurs(user \o <<":">> \o pass, lines[l])
GetUserRole(lines, user) ==
  LET found == {l \in DOMAIN lines : LET f == Split(lines[l], ":") IN Len(f) >= 3 /\ f[1] = user}
  IN  IF found = {} \/ user = <<>> THEN "" ELSE Split(lines[Min(found)], ":")[3][1]

Anonymous == "ROLE_ANONYMOUS"

\* Who the login provider takes the user for; "" when it refuses.
LoginRole(sec, rq) ==
  IF sec.provider = "file"
  THEN IF sec.readable /\ AuthenticateSecurity(Site.users, rq.user, rq.pass)
       THEN [valid |-> TRUE, role |-> GetUserRole(Site.users, rq.user)] ELSE [valid |-> FALSE, role |-> ""]
  ELSE IF sec.provider = "class" /\ Bean("login") /\ <<rq.user, rq.pass>> \in DOMAIN Site.logins
       THEN [valid |-> TRUE, role |-> Site.logins[<<rq.user, rq.pass>>]] ELSE [valid |-> FALSE, role |-> ""]

Login(x, sec) ==
  LET user == LoginRole(sec, x.rq)
  IN  IF user.valid
      THEN [Answered(With(x, "Location", sec.welcome), 307) EXCEPT !.role = user.role, !.dirty = TRUE]
      ELSE [Answered(x, 401) EXCEPT !.role = Anonymous, !.dirty = TRUE]

NoSecurity == [provider |-> "", readable |-> FALSE, login |-> <<>>, welcome |-> "", secures |-> <<>>]
SecurityOf(rq) == At(Site.security, rq.ctx, NoSecurity)

\* The entry for a page, and the role that is needed for it.
Secured(rq) == MatchesPath(SecurityOf(rq).secures, rq.path)
RoleOf(rq) == Secured(rq).role

SecurityForAnyRole(x) ==
  LET sec    == SecurityOf(x.rq)
      role   == IF x.role = "" THEN Anonymous ELSE x.role
      aspect == Secured(x.rq)
      page   == x.rq.path = sec.login
      named  == x.rq.user # <<>>
  IN  IF sec.provider = "" \/ sec.login = <<>>
         \/ ~((aspect.path # <<>> /\ aspect.role # Anonymous) \/ (page /\ named)) THEN x
      ELSE IF ~page /\ role = Anonymous THEN Answered(With(x, "Location", sec.login), 307)
      ELSE IF page /\ named THEN Login(x, sec) ELSE x

Security(x) ==
  LET sec    == SecurityOf(x.rq)
      role   == IF x.role = "" THEN Anonymous ELSE x.role
      aspect == Secured(x.rq)
      page   == x.rq.path = sec.login
      named  == x.rq.user # <<>>
  IN  IF sec.provider = "" \/ sec.login = <<>>
         \/ ~((aspect.path # <<>> /\ aspect.role # Anonymous) \/ (page /\ named)) THEN x
      ELSE IF ~page /\ aspect.role # role THEN Answered(With(x, "Location", sec.login), 307)
      ELSE IF page /\ named THEN Login(x, sec) ELSE x

-----------------------------------------------------------------------------
\* FilterHandler: the filters registered for a phase.  In the phases "handle"
\* and "out" the list for all files is taken only if one is registered for "in".
FiltersFor(ctx, ext, phase) ==
  LET all == <<ctx, "*.*", phase>>
      own == <<ctx, ext, phase>>
  IN  IF all \notin DOMAIN Site.filters /\ own \notin DOMAIN Site.filters THEN <<>>
      ELSE IF <<ctx, "*.*", "in">> \in DOMAIN Site.filters THEN At(Site.filters, all, <<>>)
      ELSE At(Site.filters, own, <<>>)

Called(x, phase, filters) ==
  [x EXCEPT !.called = @ \o [i \in DOMAIN filters |-> <<phase, filters[i]>>]]

HandleIn(x) == Called(x, "in", FiltersFor(x.rq.ctx, Ext(x), "in"))
HandleOut(x) == Called(x, "out", FiltersFor(x.rq.ctx, Ext(x), "out"))
\* All are called; the last one says whether to go on.
FilterHandle(x) ==
  LET filters == FiltersFor(x.rq.ctx, Ext(x), "handle")
  IN  [Called(x, "handle", filters)
         EXCEPT !.done = filters # <<>> /\ Last(filters) \in Site.refusing]

Filter(x) == FilterHandle(HandleIn(x))

\* AuthHandler.  A file of users that cannot be read lets everyone pass.
Auth(x) ==
  LET claz == IF <<x.rq.ctx, "*.*">> \in DOMAIN Site.auth THEN Site.auth[<<x.rq.ctx, "*.*">>]
              ELSE At(Site.auth, <<x.rq.ctx, Ext(x)>>, "")
  IN  IF claz = "file"
      THEN IF Site.usersReadable /\ ~Authenticate(Site.users, x.rq.authUser, x.rq.authPass)
           THEN Answered(x, 401) ELSE x
      ELSE IF claz = "class"
      THEN IF ~Bean("auth") THEN Answered(x, 500)
           ELSE IF <<x.rq.authUser, x.rq.authPass>> \in DOMAIN Site.logins THEN x ELSE Answered(x, 401)
      ELSE x
=============================================================================
