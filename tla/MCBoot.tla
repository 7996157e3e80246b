------------------------------- MODULE MCBoot -------------------------------
(* Setups for Boot: a sound one, and one variation of it at a time.        *)
EXTENDS Boot

MCMinBytes == [token_secret |-> 4, send_auth_token |-> 3, webhook_auth_token |-> 3] @@
              ("smtp.password" :> 2) @@ ("smtp.username" :> 1)

x(n) == [i \in 1 .. n |-> "x"]

\* Variables: a good value, an empty one, a placeholder, a name in lower case.
MCEnv == (<<"A">> :> x(4)) @@ (<<"A", "0">> :> <<>>) @@
         (<<"A", "A">> :> x(3) \o <<"todo">>) @@ (<<"x">> :> x(4))

Ref(name) == <<"$", "open">> \o name \o <<"close">>

SecretTexts ==
    {x(n) : n \in 0 .. 4} \cup {x(2) \o <<"todo">> \o x(2)} \cup
    {Ref(n) : n \in DOMAIN MCEnv \cup {<<>>, <<"0">>, <<"0", "A">>, <<"A", "A", "A">>, <<"A", "x">>}} \cup
    {Ref(<<"A">>) \o <<"close">>, x(1) \o Ref(<<"A">>), Ref(<<"A">>) \o x(4),
     <<"$", "open", "A", "x", "x">>, <<"open", "$", "A", "close">>, Ref(<<"A">>) \o Ref(<<"A">>)}

NoTree == <<"k">> :> Dir

Sound ==
    [secrets |-> [f \in Fields |-> x(4)], hour |-> 1, day |-> 2,
     bind |-> "loopback", trusted |-> {}, hostOk |-> TRUE, dir |-> <<"d">>, fs |-> NoTree]

SecretSetups == {[Sound EXCEPT !.secrets[f] = t] : f \in Fields, t \in SecretTexts}

CapSetups == {[Sound EXCEPT !.hour = h, !.day = d, !.hostOk = ok] :
                h \in 0 .. 2, d \in 0 .. 2, ok \in BOOLEAN}

Entries == {[addr |-> a, len |-> l] :
                a \in {V4({0}), V4({1}), V6({0}), V6({0, 3}), Mapped({1}), Garbage},
                l \in {<<>>, <<NoNumber>>} \cup {<<n>> : n \in 0 .. W6 + 1}}

ProxySetups ==
    {[Sound EXCEPT !.bind = b, !.trusted = {}] : b \in {"loopback", "other", "malformed"}} \cup
    {[Sound EXCEPT !.bind = "other", !.trusted = {e}] : e \in Entries}

Targets == {Link(TRUE, p) : p \in {<<"a">>, <<"b">>, <<"c">>, <<"k">>, <<"n", "m">>,
                                   <<"k", "partitions", "s">>, <<"n", "partitions", "s">>}}
           \cup {Link(FALSE, <<"k", "..", "k", "partitions">>)}

Tree(a, b, c, l) ==
    LET some(name, e) == IF e = {} THEN <<>> ELSE name :> (CHOOSE d \in e : TRUE)
    IN (<<"k">> :> Dir) @@ (<<"k", "partitions">> :> Dir) @@ (<<"k", "partitions", "s">> :> Dir) @@
       some(<<"a">>, a) @@ some(<<"b">>, b) @@ some(<<"c">>, c) @@ some(<<"k", "l">>, l)

Maybe(entries) == {{}} \cup {{e} : e \in entries}

LeadsTo(entries, path) == \E e \in entries : e.to = path

\* b and c are there where a link leads to them; l, in k, where the path goes through it.
Trees(l) ==
    {Tree(t[1], t[2], t[3], l) :
        t \in {u \in Maybe(Targets \cup {Dir}) \X Maybe({e \in Targets : e.absolute})
                   \X {{}, {Link(TRUE, <<"n">>)}} :
                 /\ u[2] # {} => LeadsTo(u[1], <<"b">>)
                 /\ u[3] # {} => LeadsTo(u[1] \cup u[2], <<"c">>)}}

Dirs == {<<"a">>, <<"a", "x">>, <<"k", "partitions">>, <<"k", "partitions", "y">>, <<"y", "x">>}

PathSetups ==
    {[Sound EXCEPT !.dir = d, !.fs = t] : d \in Dirs, t \in Trees({})} \cup
    {[Sound EXCEPT !.dir = <<"a", "..", "x">>, !.fs = t] :
        t \in {u \in Trees({}) : <<"a">> \in DOMAIN u}} \cup
    {[Sound EXCEPT !.dir = d, !.fs = t] :
        d \in {<<"k", "l">>, <<"k", "l", "x">>}, t \in Trees({Link(FALSE, <<"..", "a">>)})}

\* Back by ".." out of a name that doesn't exist yet: to what is at a, through whatever
\* link is there; to a name that doesn't exist either; and from two such names.
BackOutSetups ==
    {[Sound EXCEPT !.dir = d, !.fs = t] :
        d \in {<<"n", "..", "a">>, <<"n", "..", "a", "x">>},
        t \in {u \in Trees({}) : <<"a">> \in DOMAIN u}} \cup
    {[Sound EXCEPT !.dir = d] : d \in {<<"n", "..", "a">>, <<"partitions", "..", "x">>,
                                      <<"n", "m", "..", "..", "k", "y">>}}

MCSetups == SecretSetups \cup CapSetups \cup ProxySetups \cup PathSetups \cup BackOutSetups

MCComponent == STRING
=============================================================================
