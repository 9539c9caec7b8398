----------------------------- MODULE MCMercury -----------------------------
(***************************************************************************)
(* Requests, answers and events for checking Mercury with TLC.  Answers    *)
(* are a header alone, or a header and two payload parts, which to a       *)
(* subscription are two URIs; events match the subscription and have a     *)
(* part that is long enough to be cut, or match nothing.                   *)
(***************************************************************************)
EXTENDS Mercury

user == "hm://remote/3/user/me/"
other == "hm://other/"
frame == "hm://remote/3/user/me/frame"

SubAndGet == {[method |-> "SUB", uri |-> user], [method |-> "GET", uri |-> other]}
OnlySub == {[method |-> "SUB", uri |-> user]}

Answer_(status, sizes) == [status |-> status, sizes |-> sizes]
MCReplies == {Answer_("ok", <<1>>), Answer_("ok", <<1, 1, 1>>), Answer_("error", <<1>>)}
HeaderOnly == {Answer_("ok", <<1>>)}

MCEvents == {[uri |-> frame, sizes |-> <<1, 2>>], [uri |-> other, sizes |-> <<1>>]}
OneEvent == {[uri |-> frame, sizes |-> <<1, 1>>]}

MCExtends == {<<frame, user>>}
=============================================================================
