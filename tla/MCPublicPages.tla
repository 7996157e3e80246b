---------------------------- MODULE MCPublicPages ----------------------------
(* One visitor who connects directly, one who comes through the proxy.     *)
EXTENDS PublicPages

Direct == [addr |-> V4({0}), proxied |-> FALSE]
Proxied == [addr |-> V4({}), proxied |-> TRUE]
MCVisitors == {Direct, Proxied}

\* The proxy is one of a pool of two, named by its prefix.
MCProxy == V4({0, 1})
MCProxyRange == ParseRange(V4({1}), <<1>>)

MCForgeries == {V4({}), V4({0}), Garbage}

\* The separator of the payload in the local part.
MCEmail == <<4, Bar, 5>>
=============================================================================
