----------------------------- MODULE PublicPages -----------------------------
(***************************************************************************)
(* The public side of the router, over time: every request passes the      *)
(* limiter under the key TrustedProxy gives it; the archive lists the      *)
(* sends; mailed links are previewed by a GET and applied by a POST, until *)
(* they expire or the operator rotates the secret and restarts.  Handlers  *)
(* are one step here; their interleavings are Consent's.                   *)
(***************************************************************************)
EXTENDS TrustedProxy, TokenWire, FiniteSets

CONSTANTS Visitors,       \* records: their address and whether they come through the proxy
          Proxy,          \* the proxy's address
          ProxyRange,     \* the one entry of trusted_proxies
          Forgeries,      \* X-Forwarded-For entries a client may send
          Burst,          \* burst_size
          IndexLimit,     \* INDEX_LIMIT
          ConfirmTtl, UnsubscribeTtl,
          Email,          \* the one address whose row is modelled
          SendIds,        \* the ids that callers give to POST /send, as they compare
          MaxNow, MaxLinks, MaxGen   \* bounds on the clock and on histories

ASSUME BoundsAssumption ==
    /\ {Burst, IndexLimit, ConfirmTtl, UnsubscribeTtl} \subseteq Nat
    /\ MaxNow \in Nat \ {0} /\ MaxGen \in Nat

\* A visitor has an address of their own, in the shape the proxy writes it in; the
\* proxy is in its range, and whoever connects directly isn't.
ASSUME VisitorsAssumption ==
    /\ \A v \in Visitors :
          /\ v.addr \in Addresses /\ ToCanonical(v.addr) = v.addr
          /\ v.proxied \in BOOLEAN
          /\ ~v.proxied => ~Covers(ProxyRange, v.addr)
    /\ \A v, w \in Visitors : v.addr = w.addr => v = w
    /\ Proxy \in Addresses /\ ToCanonical(Proxy) = Proxy
    /\ Covers(ProxyRange, Proxy)
ASSUME EmailAssumption == Email \in Seq(Nat)
ASSUME SendIdsAssumption == SendIds \subseteq Nat

VARIABLES now,        \* the clock; a tick refills one token of the limiter
          secret,     \* token_secret of the running process
          tokens,     \* the limiter: tokens left, by key
          row,        \* the subscribers row of Email
          links,      \* history: the links that have been mailed
          sends,      \* keys of the sends keyspace
          served,     \* history: requests of each visitor this process has let in
          denied      \* history: whom the last request was refused to, if it was

consent == <<row, links>>
limiter == <<tokens, served, denied>>
vars == <<now, secret, sends, consent, limiter>>

Link(t, key) == [raw |-> Sign(t, key), token |-> t, secret |-> key]

\* A link of an earlier release, which no handler may honour.
LegacyLink ==
    [raw |-> SignLegacy(WireToken("unsubscribe", Email, MaxNow, 0), 1),
     token |-> InvalidToken, secret |-> 1]

Init ==
    /\ now = 1
    /\ secret = 1
    /\ tokens = [k \in Addresses |-> Burst]
    /\ row \in [state : {"Absent", "Pending", "Active"}, gen : {0}]
    /\ links = {LegacyLink}
    /\ sends = {}
    /\ served = [v \in Visitors |-> 0]
    /\ denied = {}

Calm == denied' = {}
-----------------------------------------------------------------------------
(* The limiter                                                             *)

\* How a visitor's connection arrives: straight, or from the proxy, which
\* sets or extends X-Forwarded-For; an IPv4 peer may be reported as mapped.
Peers(v) == {peer \in Addresses : ToCanonical(peer) = IF v.proxied THEN Proxy ELSE v.addr}

Headers(v) ==
    {forged \o (IF v.proxied THEN <<v.addr>> ELSE <<>>) :
        forged \in {<<>>} \cup {<<f>> : f \in Forgeries}}

Keys(v) == {ExtractKey({ProxyRange}, peer, xff) : peer \in Peers(v), xff \in Headers(v)}

\* A request of v that finds a token under its key.
Admit(v) ==
    \E key \in Keys(v) :
        /\ tokens[key] > 0
        /\ tokens' = [tokens EXCEPT ![key] = @ - 1]
        /\ served' = [served EXCEPT ![v] = @ + 1]
        /\ Calm

Deny(v) ==
    /\ \E key \in Keys(v) : tokens[key] = 0
    /\ denied' = {v}
    /\ UNCHANGED <<now, secret, sends, consent, tokens, served>>

Tick_Overfills ==
    /\ now < MaxNow
    /\ now' = now + 1
    /\ tokens' = [k \in Addresses |-> tokens[k] + 1]
    /\ Calm
    /\ UNCHANGED <<secret, sends, consent, served>>

Tick ==
    /\ now < MaxNow
    /\ now' = now + 1
    /\ tokens' = [k \in Addresses |-> IF tokens[k] < Burst THEN tokens[k] + 1 ELSE Burst]
    /\ Calm
    /\ UNCHANGED <<secret, sends, consent, served>>
-----------------------------------------------------------------------------
(* Mailed links                                                            *)

Mail(t) ==
    /\ Cardinality(links) < MaxLinks
    /\ links' = links \cup {Link(t, secret)}

\* POST /subscribe
Subscribe(v) ==
    /\ Admit(v)
    /\ Mail(WireToken("confirm", Email, now + ConfirmTtl, row.gen))
    /\ UNCHANGED <<now, secret, sends, row>>

PreviewConfirm_AnyGeneration(t) == IF row.state = "Active" THEN "done" ELSE "button"

\* GET /confirm and GET /unsubscribe, of a token that verified.
PreviewConfirm(t) ==
    IF row.state = "Active" THEN "done"
    ELSE IF row.state # "Absent" /\ row.gen # t.gen THEN "invalid"
    ELSE "button"

PreviewUnsubscribe(t) ==
    IF row.state = "Unsubscribed" THEN "done"
    ELSE IF row.state # "Absent" /\ row.gen = t.gen THEN "button"
    ELSE "invalid"

Preview(l, kind) ==
    LET t == Verify(l.raw, secret, now)
    IN IF t.kind # kind THEN "invalid"
       ELSE IF kind = "confirm" THEN PreviewConfirm(t) ELSE PreviewUnsubscribe(t)

\* POST /confirm and POST /unsubscribe: the row they put, and their page.
Confirmed(t) ==
    IF row.state = "Absent" \/ (row.state # "Active" /\ row.gen = t.gen)
    THEN [state |-> "Active", gen |-> t.gen] ELSE row

Unsubscribed(t) ==
    IF row.state \in {"Pending", "Active"} /\ row.gen = t.gen
    THEN [state |-> "Unsubscribed", gen |-> row.gen + 1] ELSE row

Applied(l, kind) ==
    LET t == Verify(l.raw, secret, now)
    IN IF t.kind # kind THEN row
       ELSE IF kind = "confirm" THEN Confirmed(t) ELSE Unsubscribed(t)

Post(v) ==
    /\ Admit(v)
    /\ \E l \in links, kind \in DOMAIN KindText : row' = Applied(l, kind)
    /\ row'.gen <= MaxGen
    /\ UNCHANGED <<now, secret, sends, links>>
-----------------------------------------------------------------------------
(* Sends and the archive                                                   *)

\* resolve_send: the id is the caller's, who may use it again and in any order.
ResolveSend(id) == sends' = sends \cup {id}

\* deliver_to_recipient: an Active subscriber is mailed a way out, if no cap and no
\* earlier delivery stands against it (see FanOut).
MailWayOut ==
    /\ row.state = "Active"
    /\ Mail(WireToken("unsubscribe", Email, now + UnsubscribeTtl, row.gen))

Publish(id) ==
    /\ ResolveSend(id)
    /\ MailWayOut \/ UNCHANGED links
    /\ Calm
    /\ UNCHANGED <<now, secret, row, tokens, served>>

\* All ids, the greatest first.
NewestFirst(ids) ==
    CHOOSE s \in [1 .. Cardinality(ids) -> ids] :
        /\ \A i, j \in DOMAIN s : i < j => s[i] > s[j]
        /\ \A id \in ids : \E i \in DOMAIN s : s[i] = id

RecentSends(limit) ==
    LET found == NewestFirst(sends)
    IN SubSeq(found, 1, IF Len(found) < limit THEN Len(found) ELSE limit)

Index_AsksForOnePage ==
    [listed |-> RecentSends(IndexLimit), truncated |-> Len(RecentSends(IndexLimit)) > IndexLimit]

\* GET /archive, and GET /archive/{send_id}.
Index ==
    LET found == RecentSends(IndexLimit + 1)
        truncated == Len(found) > IndexLimit
    IN [listed |-> IF truncated THEN SubSeq(found, 1, IndexLimit) ELSE found,
        truncated |-> truncated]

Detail(id) == id \in sends

View(v) == Admit(v) /\ UNCHANGED <<now, secret, sends, consent>>
-----------------------------------------------------------------------------
\* A new process: the limiter starts over; the operator may have rotated the secret.
Restart ==
    /\ secret' \in {secret, 2}
    /\ tokens' = [k \in Addresses |-> Burst]
    /\ served' = [v \in Visitors |-> 0]
    /\ Calm
    /\ UNCHANGED <<now, consent, sends>>

Next ==
    \/ Tick \/ Restart
    \/ \E id \in SendIds : Publish(id)
    \/ \E v \in Visitors : Deny(v) \/ View(v) \/ Subscribe(v) \/ Post(v)

Spec == Init /\ [][Next]_vars
-----------------------------------------------------------------------------
PagesTypeOK ==
    /\ now \in 1 .. MaxNow /\ secret \in {1, 2}
    /\ tokens \in [Addresses -> 0 .. Burst]
    /\ row \in [state : {"Absent", "Pending", "Active", "Unsubscribed"}, gen : 0 .. MaxGen]
    /\ sends \subseteq SendIds
    /\ served \in [Visitors -> Nat] /\ denied \subseteq Visitors

(***************************************************************************)
(* Nobody gets more requests through than a burst and a token for every    *)
(* tick: not by forging X-Forwarded-For, which counts only as the proxy    *)
(* wrote it, and not by being reported in two shapes.                      *)
(***************************************************************************)
BudgetKept == \A v \in Visitors : served[v] <= Burst + now - 1

(***************************************************************************)
(* Nobody pays for somebody else's requests: who is turned away has had a  *)
(* burst of requests let in, though all of them may share the proxy.       *)
(***************************************************************************)
OwnBucket == \A v \in denied : served[v] >= Burst

(***************************************************************************)
(* A mailed link reads back as what it was minted for, whatever is in the  *)
(* address, up to and including its last second, under the secret it was   *)
(* signed with and no other; a link of an earlier release never does.      *)
(***************************************************************************)
LinksReadBack ==
    \A l \in links :
        Verify(l.raw, secret, now) =
            IF l.secret = secret /\ now <= l.token.exp THEN l.token ELSE InvalidToken

(***************************************************************************)
(* The page a GET shows is the page a POST of the same link would act on:  *)
(* a button when it would change the row, the final page when the row is   *)
(* there already, the invalid-link page when the POST would show it too.   *)
(***************************************************************************)
PreviewIsHonest ==
    \A l \in links, kind \in DOMAIN KindText :
        LET reached == IF kind = "confirm" THEN "Active" ELSE "Unsubscribed"
            valid == Verify(l.raw, secret, now).kind = kind
        IN Preview(l, kind) =
              IF Applied(l, kind) # row THEN "button"
              ELSE IF valid /\ row.state = reached THEN "done" ELSE "invalid"

(***************************************************************************)
(* The index says that there is more exactly when some send's own page     *)
(* cannot be reached from it, and shows no more than a page.               *)
(***************************************************************************)
TruncationTold ==
    /\ Len(Index.listed) <= IndexLimit
    /\ Index.truncated <=>
          \E id \in sends : Detail(id) /\ \A p \in DOMAIN Index.listed : Index.listed[p] # id
=============================================================================
