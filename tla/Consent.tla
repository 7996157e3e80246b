------------------------------- MODULE Consent -------------------------------
(***************************************************************************)
(* The consent state of one address: its row in the subscribers keyspace,  *)
(* the tokens that have been mailed about it, and the handlers that read   *)
(* the row, decide, and put it back.                                       *)
(*                                                                         *)
(* A handler takes no lock between its get and its put, and handlers run   *)
(* on several threads, so each is two or three steps here.  Writers are    *)
(* the handlers that may put the row (POST /confirm, POST /unsubscribe and *)
(* its one-click form, the delivery-event webhook); minters only read it   *)
(* and mail a token (POST /subscribe, and /send for one recipient).        *)
(*                                                                         *)
(* As in RateLimit, `recoverable` holds every state of the row that a      *)
(* power cut may leave: one per prefix of the unsynced part of the journal.*)
(***************************************************************************)
EXTENDS Naturals

CONSTANTS Writers, Minters,
          MaxWrites,      \* bound: puts in the history of the row
          MaxPowerCuts    \* bound: power cuts in a behaviour

ASSUME WorkersAssumption == Writers \cap Minters = {}
ASSUME MaxWritesAssumption == MaxWrites \in Nat
ASSUME PowerAssumption == MaxPowerCuts \in Nat

VARIABLES phase,        \* main: "booting", "purged" or "serving"
          poisoned,     \* a journal sync failed: the database refuses writes
          row,          \* the subscribers row, as readers see it
          recoverable,  \* the rows a power cut may leave
          cuts,         \* power cuts so far
          aged,         \* the Pending row was created more than a day ago
          tokens,       \* tokens that have been mailed; they may be used any number of times
          pc,           \* where each handler is
          job,          \* the token, or the event, each handler works on
          seen,         \* the row as a writer's subscriber_get returned it, later as it put it
          acked,        \* history: the latest write a handler has reported done
          honoured,     \* history: generations at which a confirm token was honoured
          leftBy        \* history: how the last opt-in ended

served == <<pc, job, seen>>
history == <<acked, honoured, leftBy>>
vars == <<phase, poisoned, row, recoverable, cuts, aged, tokens, served, history>>

Workers == Writers \cup Minters

\* SubscriberState, and "Absent" for no row.
States == {"Absent", "Pending", "Active", "Unsubscribed"}

\* ver numbers the writes in the history of the row; the code has no such field.
Rows == [state : States, gen : Nat, ver : Nat]
NoRow == [state |-> "Absent", gen |-> 0, ver |-> 0]

Kinds == {"confirm", "unsubscribe"}
TokenSet == [kind : Kinds, gen : Nat]
Token(k, g) == [kind |-> k, gen |-> g]

\* A worker's job is a token, a delivery event, or none.
Jobs == [kind : Kinds \cup {"event", "none"}, gen : Nat]
NoJob == Token("none", 0)
Event == Token("event", 0)

Goto(w, from, to) == pc[w] = from /\ pc' = [pc EXCEPT ![w] = to]

Init ==
    /\ phase = "booting"
    /\ poisoned = FALSE
    /\ row \in {NoRow, [NoRow EXCEPT !.state = "Pending"]}
    /\ recoverable = {row}
    /\ cuts = 0
    /\ aged \in IF row.state = "Pending" THEN BOOLEAN ELSE {FALSE}
    /\ tokens = {}
    /\ pc = [w \in Workers |-> "idle"]
    /\ job = [w \in Workers |-> NoJob]
    /\ seen = [w \in Writers |-> NoRow]
    /\ acked = 0
    /\ honoured = {}
    /\ leftBy = "nothing"
-----------------------------------------------------------------------------
(* The store                                                               *)

\* Keyspace::insert or remove: visible at once, recoverable, not yet synced.
Write(r) ==
    /\ row' = [r EXCEPT !.ver = row.ver + 1]
    /\ recoverable' = recoverable \cup {row'}

\* persist_acknowledged: everything written so far survives a power cut.
Sync == recoverable' = {row}

Serving(w) == phase = "serving" /\ pc[w] = "idle"

\* A put that returned an error, or one that isn't needed: the handler is done.
Done(w, from) ==
    /\ Goto(w, from, "idle")
    /\ job' = [job EXCEPT ![w] = NoJob]

ForgetRow(w) == seen' = [seen EXCEPT ![w] = NoRow]

\* subscriber_put up to its insert.
Put(w, r) ==
    /\ Goto(w, "decide", "inserted")
    /\ ~poisoned
    /\ row.ver < MaxWrites
    /\ Write(r)
    /\ seen' = [seen EXCEPT ![w] = row']
    /\ UNCHANGED <<phase, poisoned, cuts, aged, tokens, job, acked>>

\* The rest of subscriber_put, and the page that reports the transition.
Acknowledge_Buffered(w) ==
    /\ Done(w, "inserted")
    /\ ForgetRow(w)
    /\ acked' = IF seen[w].ver > acked THEN seen[w].ver ELSE acked
    /\ UNCHANGED <<phase, poisoned, row, recoverable, cuts, aged, tokens, honoured, leftBy>>

Acknowledge(w) ==
    /\ ~poisoned
    /\ Done(w, "inserted")
    /\ ForgetRow(w)
    /\ Sync
    /\ acked' = IF seen[w].ver > acked THEN seen[w].ver ELSE acked
    /\ UNCHANGED <<phase, poisoned, row, cuts, aged, tokens, honoured, leftBy>>

\* The sync fails: a 500, but readers go on seeing the row that was put.
SyncFails(w) ==
    /\ Done(w, "inserted")
    /\ ForgetRow(w)
    /\ poisoned' = TRUE
    /\ UNCHANGED <<phase, row, recoverable, cuts, aged, tokens, history>>
-----------------------------------------------------------------------------
(* POST /confirm                                                           *)

\* The handler verified a confirm or unsubscribe token, then read the row.
Submit(w, t) ==
    /\ Serving(w)
    /\ Goto(w, "idle", "decide")
    /\ job' = [job EXCEPT ![w] = t]
    /\ seen' = [seen EXCEPT ![w] = row]
    /\ UNCHANGED <<phase, poisoned, row, recoverable, cuts, aged, tokens, history>>

ConfirmPuts_AnyGeneration(r, g) == r.state # "Active"

ConfirmPuts(r, g) ==
    \/ r.state = "Absent"
    \/ r.state \in {"Pending", "Unsubscribed"} /\ r.gen = g

Confirm(w) ==
    /\ job[w].kind = "confirm"
    /\ ConfirmPuts(seen[w], job[w].gen)
    /\ Put(w, [seen[w] EXCEPT !.state = "Active", !.gen = job[w].gen])
    /\ honoured' = honoured \cup {job[w].gen}
    /\ UNCHANGED leftBy
-----------------------------------------------------------------------------
(* POST /unsubscribe and /unsubscribe/one-click; the delivery-event webhook *)

OptedOut_KeepsGeneration(r) == [r EXCEPT !.state = "Unsubscribed"]

OptedOut(r) == [r EXCEPT !.state = "Unsubscribed", !.gen = @ + 1]

UnsubscribePuts_AnyGeneration(r, g) == r.state \in {"Pending", "Active"}

UnsubscribePuts(r, g) == r.state \in {"Pending", "Active"} /\ r.gen = g

Unsubscribe(w) ==
    /\ job[w].kind = "unsubscribe"
    /\ UnsubscribePuts(seen[w], job[w].gen)
    /\ Put(w, OptedOut(seen[w]))
    /\ leftBy' = "link"
    /\ UNCHANGED honoured

\* A complaint, or a hard bounce, of a newsletter that went out: an event that
\* names no delivery is a 404 and gets nowhere near the row.
ReportEvent(w) ==
    /\ \E t \in tokens : t.kind = "unsubscribe"
    /\ Submit(w, Event)

SuppressPuts_EveryRow(r) == r.state # "Absent"

SuppressPuts(r) == r.state = "Active"

Suppress(w) ==
    /\ job[w].kind = "event"
    /\ SuppressPuts(seen[w])
    /\ Put(w, OptedOut(seen[w]))
    /\ leftBy' = "relay"
    /\ UNCHANGED honoured

WouldPut(w) ==
    \/ job[w].kind = "confirm" /\ ConfirmPuts(seen[w], job[w].gen)
    \/ job[w].kind = "unsubscribe" /\ UnsubscribePuts(seen[w], job[w].gen)
    \/ job[w].kind = "event" /\ SuppressPuts(seen[w])

\* The row is already where the token leads, or the token is stale.
NothingToDo(w) ==
    /\ ~WouldPut(w)
    /\ Done(w, "decide")
    /\ ForgetRow(w)
    /\ UNCHANGED <<phase, poisoned, row, recoverable, cuts, aged, tokens, history>>

\* The insert fails: a 500, and nothing is written.
InsertFails(w) ==
    /\ WouldPut(w)
    /\ Done(w, "decide")
    /\ ForgetRow(w)
    /\ UNCHANGED <<phase, poisoned, row, recoverable, cuts, aged, tokens, history>>
-----------------------------------------------------------------------------
(* The two handlers that mail tokens                                       *)

Mint(m, t) ==
    /\ Serving(m)
    /\ Goto(m, "idle", "mailing")
    /\ job' = [job EXCEPT ![m] = t]
    /\ UNCHANGED <<phase, poisoned, row, recoverable, cuts, aged, tokens, seen, history>>

\* POST /subscribe: mint_confirm_token at the generation of the row, 0 if none.
Subscribe(m) == Mint(m, Token("confirm", row.gen))

MailedTo_Everybody(r) == r.state # "Absent"

\* active_subscribers: who is in the snapshot a fan-out works through.
MailedTo(r) == r.state = "Active"

\* /send: the unsubscribe token is minted at the generation in the snapshot.
Snapshot(m) == MailedTo(row) /\ Mint(m, Token("unsubscribe", row.gen))

\* The relay takes the mail: from now on anybody who reads it holds the token.
Mail(m) ==
    /\ Done(m, "mailing")
    /\ tokens' = tokens \cup {job[m]}
    /\ UNCHANGED <<phase, poisoned, row, recoverable, cuts, aged, seen, history>>

\* The relay rejects the mail, the request is cancelled, or /send skips the recipient.
NotMailed(m) ==
    /\ Done(m, "mailing")
    /\ UNCHANGED <<phase, poisoned, row, recoverable, cuts, aged, tokens, seen, history>>
-----------------------------------------------------------------------------
(* main: boot, and what ends a process                                     *)

\* purge_expired_pending removes a legacy Pending row a day old...
PurgePending ==
    /\ phase = "booting"
    /\ row.state = "Pending" /\ aged
    /\ Write(NoRow)
    /\ phase' = "purged"
    /\ UNCHANGED <<poisoned, cuts, aged, tokens, served, history>>

\* ...and syncs once, if it removed anything.
SyncPurge ==
    /\ phase = "purged"
    /\ Sync
    /\ phase' = "serving"
    /\ UNCHANGED <<poisoned, row, cuts, aged, tokens, served, history>>

NothingToPurge ==
    /\ phase = "booting"
    /\ ~(row.state = "Pending" /\ aged)
    /\ phase' = "serving"
    /\ UNCHANGED <<poisoned, row, recoverable, cuts, aged, tokens, served, history>>

Age ==
    /\ row.state = "Pending" /\ ~aged
    /\ aged' = TRUE
    /\ UNCHANGED <<phase, poisoned, row, recoverable, cuts, tokens, served, history>>

\* A handler working on another address makes the shared journal durable.
SyncElsewhere ==
    /\ phase = "serving" /\ ~poisoned
    /\ Sync
    /\ UNCHANGED <<phase, poisoned, row, cuts, aged, tokens, served, history>>

Restart ==
    /\ phase' = "booting"
    /\ poisoned' = FALSE
    /\ pc' = [w \in Workers |-> "idle"]
    /\ job' = [w \in Workers |-> NoJob]
    /\ seen' = [w \in Writers |-> NoRow]
    /\ UNCHANGED <<aged, tokens, history>>

\* The process dies, or refuses to start: its writes are in the page cache.
Crash == Restart /\ UNCHANGED <<row, recoverable, cuts>>

PowerCut ==
    /\ cuts < MaxPowerCuts
    /\ Restart
    /\ row' \in recoverable
    /\ recoverable' = {row'}
    /\ cuts' = cuts + 1
-----------------------------------------------------------------------------
Writer(w) ==
    \/ \E t \in tokens : Submit(w, t)
    \/ ReportEvent(w)
    \/ Confirm(w)
    \/ Unsubscribe(w)
    \/ Suppress(w)
    \/ NothingToDo(w)
    \/ InsertFails(w)
    \/ Acknowledge(w)
    \/ SyncFails(w)

Minter(m) ==
    \/ Subscribe(m)
    \/ Snapshot(m)
    \/ Mail(m)
    \/ NotMailed(m)

Main ==
    \/ PurgePending
    \/ SyncPurge
    \/ NothingToPurge

Next ==
    \/ \E w \in Writers : Writer(w)
    \/ \E m \in Minters : Minter(m)
    \/ Main
    \/ Age
    \/ SyncElsewhere
    \/ Crash
    \/ PowerCut

Spec == Init /\ [][Next]_vars
-----------------------------------------------------------------------------
TypeOK ==
    /\ phase \in {"booting", "purged", "serving"}
    /\ poisoned \in BOOLEAN
    /\ row \in Rows
    /\ recoverable \subseteq Rows
    /\ cuts \in 0 .. MaxPowerCuts
    /\ aged \in BOOLEAN
    /\ tokens \subseteq TokenSet
    /\ pc \in [Workers -> {"idle", "decide", "inserted", "mailing"}]
    /\ job \in [Workers -> Jobs]
    /\ seen \in [Writers -> Rows]
    /\ acked \in Nat
    /\ honoured \subseteq Nat
    /\ leftBy \in {"nothing", "link", "relay"}

\* Every write that a handler has reported as done survives a power cut, with
\* everything written before it (the durability boundary of store.rs).
AckedIsDurable == \A s \in recoverable : s.ver >= acked

\* With opt-ins at the generations H: every generation before g was ended by an
\* opt-out that an opt-in preceded.
ConsentsBefore(H, g) == \A k \in 0 .. g - 1 : k \in H
ConsentedRow(H, r) == ConsentsBefore(H, r.gen) /\ (r.state = "Active" => r.gen \in H)
ConsentedToken(H, t) == ConsentsBefore(H, t.gen) /\ (t.kind = "unsubscribe" => t.gen \in H)

\* The row is Active only at a generation at which a mailed confirm token was
\* honoured, and each opt-out, by a link or by the relay, has ended an opt-in of
\* its own: double submits, one-click retries and events reported twice in
\* parallel don't push the generation past it.
GenerationsAreConsents == \A s \in recoverable : ConsentedRow(honoured, s)

\* Newsletters go only to somebody who confirmed: an unsubscribe link carries a
\* generation at which a confirm token was honoured, and no link or confirm
\* token is ever ahead of the opt-ins.
MailFollowsConsent == \A t \in tokens : ConsentedToken(honoured, t)

\* The consent generation is a "monotonic counter on a subscriber row"
\* (_llm/glossary.toml): no handler ever puts a lower one.
GenerationMonotonic == [][row'.gen >= row.gen]_vars

Contract == INSTANCE ConsentContract
              WITH optedIn <- row.state = "Active",
                   epoch <- row.gen,
                   consents <- honoured,
                   invited <- {t.gen : t \in {u \in tokens : u.kind = "confirm"}},
                   linked <- {t.gen : t \in {u \in tokens : u.kind = "unsubscribe"}}
ImplementsContract == Contract!ContractSpec
-----------------------------------------------------------------------------
(* The inductive invariants                                                *)

\* The row readers see is the last write that a power cut may leave, and what
\* a handler has inserted but not synced is no later.
JournalInv ==
    /\ row \in recoverable
    /\ \A s \in recoverable : s.ver \in acked .. row.ver
    /\ \A w \in Writers : pc[w] = "inserted" => seen[w].ver <= row.ver

\* Whatever a handler holds, read or minted, is backed by opt-ins too.
ConsentInv ==
    /\ GenerationsAreConsents
    /\ MailFollowsConsent
    /\ \A w \in Writers : ConsentedRow(honoured, seen[w])
    /\ \A w \in Workers : ConsentedToken(honoured, job[w])
    /\ \A w \in Workers : pc[w] = "mailing" => job[w] \in TokenSet

IInv == TypeOK /\ JournalInv /\ ConsentInv

\* One writer at a time, and no power cut.
Serial == (\A v, w \in Writers : v = w) /\ MaxPowerCuts = 0

\* Then the row a writer decides on is the row in the store, and nobody holds a
\* token of a generation to come.
SerialInv ==
    /\ phase # "serving" => \A w \in Workers : pc[w] = "idle"
    /\ row.state \in {"Absent", "Pending"} => row.gen = 0 /\ honoured = {}
    /\ \A t \in tokens : t.gen <= row.gen
    /\ \A w \in Workers : job[w].gen <= row.gen
    /\ \A w \in Workers : pc[w] = "mailing" => w \in Minters
    /\ \A w \in Writers : pc[w] = "decide" =>
           seen[w] = row /\ (job[w].kind \in Kinds => job[w] \in tokens)
=============================================================================
