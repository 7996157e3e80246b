------------------------------- MODULE Config -------------------------------
(***************************************************************************)
(* Config::load, after TOML parsing: the five secrets and their            *)
(* environment references, the two send caps, and the bind address against *)
(* the trusted proxies.  A text is a sequence of the characters that the   *)
(* checks look at: "$", the two braces "open" and "close", "A" (any        *)
(* capital or _), "0" (any digit), "x" (anything else), and "todo" for a   *)
(* placeholder of the blocklist, in whatever case, which counts as one     *)
(* character here.                                                         *)
(***************************************************************************)
EXTENDS Naturals, Sequences

CONSTANTS Env,          \* the environment: variable names to texts
          MinBytes      \* field name to the least length of its secret

Fields == DOMAIN MinBytes
Characters == {"$", "open", "close", "A", "0", "x", "todo"}
Texts == Seq(Characters)

ASSUME EnvAssumption == DOMAIN Env \subseteq Texts /\ \A name \in DOMAIN Env : Env[name] \in Texts
ASSUME MinBytesAssumption == MinBytes \in [Fields -> Nat \ {0}]

Occurs(pattern, text) ==
    \E i \in 0 .. Len(text) - Len(pattern) :
        SubSeq(text, i + 1, i + Len(pattern)) = pattern

HasRef(text) == Occurs(<<"$", "open">>, text)

\* is_valid_env_ref: strip the dollar and the braces, a capital or _ first, then digits too.
Name(raw) == SubSeq(raw, 3, Len(raw) - 1)

IsValidEnvRef(raw) ==
    /\ Len(raw) > 3
    /\ SubSeq(raw, 1, 2) = <<"$", "open">>
    /\ raw[Len(raw)] = "close"
    /\ Head(Name(raw)) = "A"
    /\ \A i \in DOMAIN Name(raw) : Name(raw)[i] \in {"A", "0"}

\* resolve_secret_env: <<>> when it is an error.
ResolveSecretEnv_Lenient(raw) ==
    IF IsValidEnvRef(raw) /\ Name(raw) \in DOMAIN Env THEN Env[Name(raw)] ELSE raw

ResolveSecretEnv(raw) ==
    IF ~HasRef(raw) THEN raw
    ELSE IF IsValidEnvRef(raw) /\ Name(raw) \in DOMAIN Env THEN Env[Name(raw)]
    ELSE <<>>

\* A reference that is malformed, unset or empty.
Unresolved(raw) == HasRef(raw) /\ ResolveSecretEnv(raw) = <<>>

\* validate_secret_strength
Strong(secret, min_bytes) == Len(secret) >= min_bytes /\ ~Occurs(<<"todo">>, secret)

\* validate_bind_policy: bind is "malformed", "loopback" or "other".
BindPolicy(bind, trusted) == bind = "other" => trusted # {}
=============================================================================
