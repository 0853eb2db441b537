------------------------------ MODULE MCRequests ------------------------------
(* A small site, and what clients ask of it. *)
EXTENDS ServiceTask, TLC

Page1   == <<"/", "page", ".html">>
Big     == <<"/", "big", ".html">>
Secret  == <<"/", "secret", ".html">>
LoginP  == <<"/", "login", ".html">>
Php     == <<"/", "x", ".php">>
FormP   == <<"/", "f", ".form">>
Doc     == <<"/", "d", ".dcp">>
Fv      == <<"/", "v", ".fview">>
Mapped1 == <<"/", "page", ".do">>
AjaxP   == <<"/", "ajax">>
Ws      == <<"/", "ws">>
RestA   == <<"/", "rest", "/", "a">>
RestB   == <<"/", "rest", "/", "b">>

File(text) == [text |-> text, mime |-> "text/html", modified |-> 2]

MCSite ==
  [cors     |-> [origins |-> {"o1"}, methods |-> {"GET", "PUT"}, headers |-> {"h1"}],
   security |-> [app |-> [provider |-> "file", readable |-> TRUE, login |-> LoginP, welcome |-> Page1,
                          secures |-> <<[path |-> Secret, role |-> "ROLE_USER"]>>]],
   users    |-> <<<<"u", ":", "p", ":", "ROLE_USER">>, <<"w", ":", "q", ":", "ROLE_OTHER">>>>,
   usersReadable |-> TRUE,
   logins   |-> <<>>,
   filters  |-> (<<"app", "*.*", "in">> :> <<"adder">>),
   refusing |-> {},
   auth     |-> <<>>,
   beans    |-> {"ctl", "forms"},
   controllers |-> <<>>, failing |-> {}, service |-> <<>>,
   mappings |-> (<<"app", ".do">> :> ".html"),
   functions |-> <<[parts |-> <<Lit(<<>>), Lit(<<"rest">>), Lit(<<"a">>)>>, method |-> "GET", bean |-> "ctl",
                    name |-> "fa", icont |-> "", params |-> <<>>],
                   [parts |-> <<Lit(<<>>), Lit(<<"rest">>), Lit(<<"b">>)>>, method |-> "GET", bean |-> "ctl",
                    name |-> "fb", icont |-> "", params |-> <<>>]>>,
   methods  |-> {"fa", "fb"},
   forms    |-> (FormP :> [bean |-> "forms", fields |-> <<[name |-> "n", type |-> "number"]>>]),
   services |-> {Ws}, operations |-> {"op"},
   scripts  |-> (Php :> <<"printed">>),
   ajax     |-> (AjaxP :> {"m"}),
   dcps     |-> (Doc :> <<"made">>), views |-> <<>>, templates |-> <<>>,
   fviews   |-> (Fv :> <<"<html>", "<?", "</head>">>),
   files    |-> (Page1 :> File(<<"1", "2">>) @@ Big :> File(<<"1", "2", "3", "4", "5">>)
                 @@ Secret :> File(<<"s">>) @@ LoginP :> File(<<"l">>)),
   encoding |-> "gzip"]

Rq(path) ==
  [method |-> "GET", version |-> 11, ctx |-> "app", path |-> path, url |-> path, origin |-> "", host |-> "h",
   acrm |-> "", acam |-> "", acah |-> <<>>, user |-> <<>>, pass |-> <<>>, authUser |-> <<>>,
   authPass |-> <<>>, query |-> <<>>, form |-> <<>>, headers |-> <<>>, parts |-> <<>>, body |-> <<>>,
   ctype |-> "", soap |-> <<>>, ajax |-> "", paramSize |-> 0, ajaxParams |-> <<>>, since |-> 0,
   ranges |-> <<>>, mime |-> "", acceptsCE |-> FALSE, keepAlive |-> TRUE, size |-> 0, item |-> None,
   calls |-> ""]

LoginAs(user, pass) == [Rq(LoginP) EXCEPT !.method = "POST", !.user = user, !.pass = pass]
Preflighted == [Rq(Page1) EXCEPT !.method = "OPTIONS", !.origin = "o1", !.acrm = "PUT"]

Adding(item) == [Rq(Page1) EXCEPT !.item = item]
Sized(rq, n) == [rq EXCEPT !.size = n]
Closing(rq) == [rq EXCEPT !.keepAlive = FALSE]

\* The requests, by name.
MCPages ==
  [page |-> Rq(Page1), secret |-> Rq(Secret), php |-> Rq(Php), form |-> Rq(FormP), dcp |-> Rq(Doc),
   fview |-> Rq(Fv), mapped |-> Rq(Mapped1), missing |-> Rq(<<"/", "no", ".html">>),
   login |-> LoginAs(<<"u">>, <<"p">>), wrong |-> LoginAs(<<"u">>, <<"q">>), other |-> LoginAs(<<"w">>, <<"q">>),
   preflight |-> Preflighted, preflight2 |-> [Preflighted EXCEPT !.acam = "PUT", !.acah = <<"h1">>],
   foreign |-> [Rq(Page1) EXCEPT !.origin = "o2"],
   packed |-> [Rq(Big) EXCEPT !.acceptsCE = TRUE], head |-> [Rq(Page1) EXCEPT !.method = "HEAD"],
   since |-> [Rq(Page1) EXCEPT !.since = 2], options |-> [Rq(Page1) EXCEPT !.method = "OPTIONS"],
   range |-> [Rq(Big) EXCEPT !.ranges = <<<<1, 2>>>>], ranges |-> [Rq(Big) EXCEPT !.ranges = <<<<1, 9>>>>],
   ajax |-> [Rq(AjaxP) EXCEPT !.method = "POST", !.ajax = "m", !.paramSize = 1, !.ajaxParams = <<<<"v">>>>],
   soap |-> [Rq(Ws) EXCEPT !.method = "POST", !.ctype = "text/xml", !.soap = <<"op">>], nosoap |-> Rq(Ws),
   resta |-> [Rq(RestA) EXCEPT !.calls = "fa"], put |-> [Rq(RestA) EXCEPT !.method = "PUT"]]

MCOthers ==
  [badrange |-> [Rq(Big) EXCEPT !.ranges = <<<<1>>>>], restb |-> [Rq(RestB) EXCEPT !.calls = "fb"],
   i |-> Adding("i"), j |-> Adding("j"), body |-> Sized(Rq(Page1), 1),
   last |-> Closing(Rq(Page1)), longest |-> Closing(Sized(Rq(Page1), 2))]

MCRequest == MCPages @@ MCOthers

All(requests) == [c \in Conn |-> requests]
Base == [conns |-> {1, 2}, owner |-> <<"a", "b", "c">>, requests |-> <<>>, sent |-> <<1, 1, 1>>, pipelined |-> FALSE,
         impatient |-> FALSE, tls |-> {TRUE}]

MCScene ==
  [pages       |-> [Base EXCEPT !.conns = {1}, !.requests = All(DOMAIN MCPages), !.sent = <<2>>],
   secrets     |-> [Base EXCEPT !.conns = {1}, !.requests = All({"login", "wrong", "other", "secret"}), !.sent = <<3>>],
   shared      |-> [Base EXCEPT !.owner = <<"a", "a">>, !.requests = All({"i", "j"}), !.sent = <<2, 1>>],
   strangers   |-> [Base EXCEPT !.requests = <<{"i", "login"}, {"i", "secret"}>>, !.sent = <<2, 1>>],
   sockets     |-> [Base EXCEPT !.conns = {1, 2, 3}, !.requests = All({"last"}), !.tls = {TRUE, FALSE}],
   pipelines   |-> [Base EXCEPT !.conns = {1}, !.requests = All({"page", "body", "longest", "badrange"}),
                                !.sent = <<2>>,
                                !.pipelined = TRUE, !.impatient = TRUE, !.tls = {TRUE, FALSE}],
   controllers |-> [Base EXCEPT !.requests = <<{"resta"}, {"restb"}>>]]

MCWorkload == DOMAIN MCScene

\* What the theorems ask of a site holds of this one.
ASSUME SiteAssumption == SiteAnswers /\ CallsAnswer /\ \A r \in DOMAIN Request : Protects(Request[r])
=============================================================================
