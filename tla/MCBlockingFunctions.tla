----------------------- MODULE MCBlockingFunctions -----------------------
(***************************************************************************)
(* BlockingFunctions with the kinds of user that the rules tell apart, and *)
(* a configuration without rules and one with all of them.                 *)
(***************************************************************************)
EXTENDS BlockingFunctions

Spelling == {"", "me@volt", "Bad@volt", "bad@volt", "x@temp", "volt", "temp", "t1", "t2",
             "Password", "password", "google.com"}
MCLower == [s \in Spelling |->
  CASE s = "Bad@volt" -> "bad@volt" [] s = "Password" -> "password" [] OTHER -> s]
MCDomain == [e \in Spelling |->
  CASE e = "" -> "" [] e = "x@temp" -> "temp" [] OTHER -> "volt"]

NoRules == [tenants |-> {}, providers |-> {}, blocked |-> {}, domains |-> {},
            patterns |-> [p \in {} |-> {}]]
AllRules == [tenants |-> {"t1"}, providers |-> {"google.com", "Password"},
             blocked |-> {"Bad@volt"}, domains |-> {"volt"},
             patterns |-> [p \in {"temp", BadRegex} |-> {"x@temp"}]]
MCSettings == {AllRules}
AnySettings == {NoRules, AllRules}

User(e, v) == [NoUser EXCEPT !.email = e, !.verified = v]
Sent(u, ev, t) == [NoBody EXCEPT !.userInfo = u, !.event = ev, !.resource = t]
MCBodies ==
  { NoBody,
    Sent(User("me@volt", TRUE), "password", ""),
    Sent(User("Bad@volt", FALSE), "Password", "t1"),
    [NoBody EXCEPT !.user = User("x@temp", FALSE), !.signInMethod = "password", !.resource = "t2"] }
=============================================================================
