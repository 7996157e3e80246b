# A verification project for epistole

epistole is a self-hosted newsletter service: an axum HTTP server over one fjall
(log-structured) database and an SMTP relay. A visitor subscribes with a double
opt-in, the operator posts a newsletter to `/send`, every copy carries an
unsubscribe link, and the relay reports bounces and complaints to a webhook.

This directory holds TLA+ modules that model the parts of it with state and
concurrency, TLC configurations that check them on small instances, and theorems
that TLAPS proves for every value of the constants.

    tlc -workers 2 -config consent_parallel.cfg MCConsent.tla
    tlapm Consent_proofs.tla

`PROJECT.json` maps every definition to the lines it models and lists runs,
mutants, hazards, findings and theorems.

## 1. Inventory

What makes this program hard: handlers are async functions on a multi-threaded
runtime, and **only one thing is locked** (the send counters). Every other
handler reads a row, decides, and puts the row back, so two handlers interleave
at every store operation. A 10 s request timeout, or a client that disconnects,
drops a handler at an await. And a write is *visible* before it is *durable*.

| Component | State | Operations | Hard behaviour | What makes it correct |
|---|---|---|---|---|
| store, `store.rs` | one fjall database, one journal for all keyspaces | `open`, insert/remove (buffered), `persist_acknowledged` (sync) | visible is not durable; a power cut keeps a prefix of the unsynced writes; a failed sync stops all writes until a restart | what a handler wrote and answered with 200 survives; no recovered state that the writes didn't pass through |
| send caps, `store/rate_limit.rs` | a counter per hour and per day, `rate_limit_lock` | `rate_get`, `try_reserve_send_slot` | two inserts under one lock, never synced on their own; errors and crashes between them; callers dropped while waiting, or charging an hour that is over | no window admits more than its cap; charges of recorded deliveries aren't forgotten; every caller is answered |
| subscribers, `store/subscriber.rs` | a row per address: state and consent generation | `subscriber_get`, `subscriber_put`, `purge_expired_pending`, `active_subscribers` | unlocked get-then-put by three handlers; purge at boot | generations are consents: see below |
| `/subscribe`, `/confirm`, `/unsubscribe` and one-click | none of their own; tokens are in mailboxes for ever, and may be replayed | mint, verify, decide by state and generation, put | stale, replayed, fresh tokens in any order; double submits; a token outlives the row it was minted for | a token has an effect only in the generation it was minted in; newsletters go only to those who opted in |
| `/send`, `handlers/send.rs` | a sends row per send_id, a deliveries row per recipient | `resolve_send`, snapshot, `deliver_to_recipient` in a loop | check, await the lock, await the relay, record: every gap is open to other calls, timeouts, crashes; retries are the recovery | bounded duplicates, one content per send_id, a ledger that tells the truth, everybody reached in the end |
| webhook, `handlers/webhooks.rs` | the deliveries row, then the subscribers row | update status, `suppress_subscriber` | events repeated, early, late; a crash between the two puts; a row that another handler hasn't synced | a suppression ends one opt-in, and is not lost |
| boot, `main.rs` | the file tree (external) | load, open, purge, build the mailer, serve | crashes at each point, restarts on what the last attempt left | bad setups never serve, good ones do, a store opened once is found again |
| router, `lib.rs` | governor's per-IP buckets (external) | timeout, body limits, key extraction | when a request may be dropped; whose forwarding header is believed | a budget per visitor: not two, not shared |
| mailer, `mailer.rs` | the relay (external) | `send` | the relay may have the mail when the caller is gone, or when the connection fails before its answer | an error doesn't mean that there is no mail: see the ledger |
| tokens, `token.rs` | - | sign, verify | expiry boundary; separator in a local part; a rotated secret; links of an earlier release | verify is the inverse of sign, and of nothing else |
| configuration, `config.rs` | - | load, secrets and their references, CIDR match, bind policy | misspelt references, placeholders, prefix lengths 0/32/128, mapped addresses | secrets are real, a range trusts what it spells out |
| path guard, `store/path.rs` | file system (external) | resolve links that may lead nowhere yet | chains as long as the hop bound, links into a store | passes a directory just when it is outside every other keyspace (it doesn't: section 6) |
| send ids, `send_id.rs` | the previous id (process-wide) | `generate` (called by tests only), `parse` | - | - |
| archive, `handlers/archive.rs` | - | index, detail | one send more than a page holds | truncation is told |
| errors, templates, shared helpers | - | pure | - | - |

How they interact. Handlers call the store directly and share nothing else
but the lock. They interact with each other through rows: `/subscribe` and
`/send` read a subscriber's generation and mail it out in a token, `/confirm` and
`/unsubscribe` compare a token's generation with the row, `/send` reads who is
Active once, the webhook reads and overwrites the deliveries row that `/send`
writes, the archive lists the sends rows. All
keyspaces share one journal, so *a sync by any handler makes every handler's
earlier writes durable*: the send caps rely on that, and so does the order of a
sends row and its deliveries rows.

## 2. Plan

Done, the most important behaviour first:

1. `SendBudget`, `RateLimit`: the caps, with the abstract budget they implement.
2. `ConsentContract`, `Consent`: one address, from tokens to the journal, with the
   contract the pages and mails promise.
3. `FanOut`: one send_id, with parallel calls and retries.
4. `RateLimit_proofs`, `Consent_proofs`, `FanOut_proofs`.
5. `Newsletter`: composes `FanOut` with the webhook and the consent rows.
6. `TrustedProxy`, `Config`, `PathGuard` (pure), composed by `Boot`: from the
   configuration file to a listening server, with restarts.
7. `TokenWire` (pure) and `TrustedProxy`, composed by `PublicPages`: limiter, mailed
   links, previews, archive.

8. `FanOut` with everything around it that touches its rows (`Report`,
   `FaultElsewhere`), and `Newsletter` shown to implement it.
9. `Newsletter_proofs`, `TrustedProxy_proofs`, `PublicPages_proofs` (with the theorems
   about `TokenWire`), `Boot_proofs`.
10. `PathGuard_proofs`: the guard's walk against the kernel's, for every file tree,
    and in `Boot_proofs` what that gives across attempts, crashes and restarts.

To come:

11. `Waves`: `FanOut` over `SendBudget` (its `Admit` is the reservation), which
    `RateLimit` is proved to implement: a list longer than the cap is reached over
    several windows. Discharges the `SF` on `Admit` below.
12. `SendBudget`'s own bounds, for whatever implements it.

## 3. Conventions

**The journal.** fjall applies an insert in memory at once and appends it to the
journal; `persist_acknowledged` syncs the journal. A crash of the process loses
nothing (the appended bytes are in the page cache), a power cut keeps some prefix
of what was not synced. Each module has, beside the state readers see (`count`,
`row`, `db`), the set `recoverable` of the states a power cut may leave: an insert
adds the new state to it, a sync leaves only the current one, `PowerCut` picks
one. `SyncElsewhere` is another handler's sync of the same journal.

**Poisoning.** fjall refuses all writes after a failed sync until the database is
opened again (external, taken from how fjall 3 behaves). `poisoned` says so in
`Consent`, `FanOut` and `Newsletter`: the row that was inserted stays visible, the handler
answers 500, and later writes fail. `RateLimit` doesn't have it: a refused write
there is `StoreFails`, which may happen anyway.

**Steps.** Code between two store operations or awaits is one step. A put is two:
the insert, which others see, and the sync with what follows it. A read that
opens a handler and the checks before it (bearer, body, token signature) are one
step, since a request refused there changes nothing.

**Left out everywhere:** JSON, HTML, logs, and timestamps of rows (only the age of a
Pending row is kept, as one bit). In the modules with a journal a token is what it
says, and a page only whether it reports success; token texts are `TokenWire`'s,
pages `PublicPages`'s.

**Mutants.** Each module holds, beside a definition such as `Acquire`, variants
with a suffix (`Acquire_NoMutex`): the way a plausible bug would change it. No
behaviour of the model uses them; each is there to show that a property notices.

## 4. Modules

### SendBudget, RateLimit, MCRateLimit

`RateLimit` is `try_reserve_send_slot` with the part of the `/send` loop around
it. A call (`StartCall`) fixes its hour and day once; for each recipient it waits
for the lock (`Request`, `Acquire`), reads the two counters (`ReadHour`,
`ReadDay`), refuses (`Refuse`) or inserts the two increments (`ChargeHour`,
`ChargeDay`), and later writes the delivery row (`Record`), whose sync is the
first to cover the charges. `Abandon` is the timeout, a disconnect, or an error
after the reservation; `StoreFails` an error at one of the four store operations,
after which an hour already charged stays charged. `Refuse` goes back to the
loop: the code goes on to ask for the next recipients of the call.

`SendBudget` is the promise: a slot is charged to both windows in one step. It
admits two blemishes, because the code has them: an interrupted reservation wastes
an hour slot (`Waste`), and a power cut forgets unsynced charges (`Forget`).
`spent` is the counters without the half-finished reservation; `admitted` ties an
admission to both charges.

`MCRateLimit` adds a history variable, `delivered`: the delivery rows written in each
hour *of the clock*, which need not be the hour they were charged to.

### ConsentContract, Consent, MCConsent

`Consent` is one address (addresses share nothing but the journal). Writers are
the handlers that put the row. `Submit` is a verified token and the read of the
row; `Confirm`, `Unsubscribe`, `Suppress` decide on what was *read* and insert;
`Acknowledge` syncs and answers; `NothingToDo` answers without a write (already
there, or stale), `InsertFails` and `SyncFails` answer 500. Minters only read:
`Subscribe` mints a confirm token at the row's generation (0 if there is no row),
`Snapshot` is `/send` minting an unsubscribe token for an Active row; `Mail` puts
the token into the world, where it stays and may be used any number of times.
`PurgePending` and `SyncPurge` are boot. `Init` has no row, or a legacy Pending one.

`ver` numbers the writes of the row and exists only to state durability; `acked`,
`honoured`, `leftBy` are history. `ConsentContract` is the promise: an opt-out
starts a new epoch, and a token has an effect only in its own.

A token may expire: that is the same as a token nobody uses. The webhook's own
gates are `ReportEvent`'s guard: an event is about a newsletter that was mailed.

### FanOut, MCFanOut

`FanOut` is one send_id. `Begin`/`Resume` are `resolve_send`'s read (a call with
other content than the row's is refused with 400 and changes nothing), `Create`
and `SyncCreate` its put; `Snapshot` is `active_subscribers`; then per recipient,
in any order: `Skip` (there is a row, of any status), or `Ask` (none), `Defer` or
`Admit` (the reservation, answered either way here), `RelayAccepts`, `RelayRejects`
or `AnswerLost`, `Record`, `SyncRecord`. `AnswerLost` is `mailer.send`'s other error: the
relay took the mail and the connection failed before its answer. The call can't tell
the two errors apart, and writes "failed" for both (`RowFor`). `Finish` is the reply; a call that is
`idle` again is the operator's next retry. `Timeout`, `StoreFails`, `SyncFails`,
`WriteRefused`, `Crash` and `PowerCut` end calls early. What other handlers do to
the rows is here in a form that is free in everything but what it touches:
`ConsentChanges` is whatever changes who is Active, `Report` the webhook's put of a
status from `ReportStatuses` over the row of a mail that was taken,
`FaultElsewhere` an error of the store in another handler.

`mails` counts what the relay took, `mailed` the contents it took, `unheard` whose mail
it took without the call hearing of it, and `cut` the attempts that ended between
the relay's taking the mail and the sync of the row: the only attempts that no row
tells of.

### Newsletter, MCNewsletter

`Newsletter` extends `FanOut`; its `db` has two fields more, the subscribers rows and
(history) how many opt-outs each event has caused, so that the same journal, crash
and power cut act on all of them. `FanOut`'s `active` is derived from the rows.
`Happens` is the relay deciding to report a soft or hard bounce or a complaint of a
mail it took; `Receive` is `post` up to the row it finds (the 404 of a row that isn't
there changes nothing: no step); `LogStatus`, `SyncStatus` are `delivery_put`;
`Suppress`, `SyncSuppression`, `NothingToSuppress` are `suppress_subscriber`; `Reply`
the 200. An event stays pending until then, and the relay may deliver it again.
One webhook handler
runs at a time, and its get and put of the subscribers row are one step: their
interleavings are `Consent`'s. `OptIn` and `OptOut` are visitors: they put the row
(`Visit`), and the sync of it is a step of its own, `SyncElsewhere` or `VisitSyncFails`,
so that the webhook may act on a row that a power cut takes back. `optIns` numbers a
recipient's opt-ins, those included that were lost; `due` is the number that an event
is about, and `ahead` (history) holds the events whose handler found the recipient
gone by an unsubscribe that wasn't synced yet.

`Fan` is `FanOut` with `db` and `recoverable` replaced by what it knows of them
(`Known`: no subscribers rows, no history), and `ImplementsFanOut` says that the whole
of `Newsletter` is a behaviour of it: `LogStatus` is a `Report`, `Suppress` and the
visitors are `ConsentChanges`, the webhook's syncs are `SyncElsewhere`, its errors
`FaultElsewhere`, and the rest stutters. So what is proved of `FanOut` holds here.

### Config, PathGuard, TrustedProxy, Boot, MCBoot

`Config` is `load` after TOML parsing. Its texts are sequences of the seven
characters that the checks tell apart; the braces are called "open" and "close".
`EnvAssumption` and `SetupsAssumption` say that environment and setup hold texts,
addresses (or garbage), lengths and file trees, not that any of them is well formed.

`PathGuard` is about trees of directories and links; a path is a sequence of
`Component`s (any strings, in TLC; a CONSTANT, since the provers know nothing of
`STRING`). It holds two walks. The guard's is `CanonicalizeWithNonexistent`, hop bound
included: `TakenOff` counts the names that the walk up to an existing entry takes
off, `TailNames` puts them back, all but each `..`. The kernel's (external) is
`Walk`: a resolution is where it is, the names it has left and the links it has
followed, `Advance` takes the next name, and `Obstacle` is what stops it. A name that
doesn't exist it treats in one of three ways: it fails there (`Canonicalize`); it
takes the name as if it had been made a directory (`Locate`, which is where data
really ends up, and what the guard's answer is compared with); or that too, but
stops at a `..` that leads back out of such a name (`BackFromMissing`). The rest is
`create_dir_all`: `Missing` are the directories it makes, in turn (`ComesTo`), each with
the ones before it there (`MkDirWorks`); `Makeable` is how far it comes, and
`Creatable` that it comes to the end.

`TrustedProxy` has ranges, their masks, and the limiter's key on addresses of `W4`
and `W6` bits: an address is the set of the positions of its one bits, 0 the least
significant, so `&` is an intersection and a left shift adds to each position
and drops what leaves the word. TLC has 2 and 4 bits instead of 32 and 128, the
proofs any widths below 256 (`prefix_len` is a `u8`).

`Boot` is `main`, a stage per thing that may fail: `Load`, `ParseBind`,
`GuardRefuses`/`Open`/`OpenFails`, `Purge`, `BuildMailer`, `Listen`. `OpenFails` may
leave any prefix of the directories made; `Restart` starts over on that. `strayed`
(history) says that some opening went by a `..` out of a missing directory. `MCBoot`
has one sound setup and every single variation of it: 5 secrets by 21 texts, caps
from 0 to 2, ranges of every length for addresses of both families and both
shapes, and trees with up to three links that lead to directories, into a store,
out of one, to each other, in a circle, or nowhere; and, in `BackOutSetups`, paths that
go back by `..` out of a name that doesn't exist.

### TokenWire, PublicPages, MCPublicPages

`TokenWire` is `sign` and `verify`; `SplitOnce` is one step of `splitn`/`rsplitn` at
a separator, base64 maps each character to one above `Base`, the keyed hash is
ideal. `PublicPages` puts the
limiter in front of the public handlers: `Admit` takes a token under a key that
`TrustedProxy` derives from the peer and the header, `Deny` is the 429, `Tick`
refills. `Subscribe` and `Publish` mail links, `Post` applies any of them to either
page, `Preview` is what a GET shows. `Publish` is `/send` with an id of the caller's
choice: `ResolveSend` is the sends row, `MailWayOut` the mail with the unsubscribe link,
which a retry of the same id need not send. `Index` and `Detail` are the archive;
`NewestFirst` is the listing, sorted by id, the greatest first. `Restart` starts the
limiter over, maybe with another secret. Handlers are one step each.

## 5. What is checked

Passing runs:

| Run | Question | Bounds |
|---|---|---|
| `ratelimit` | Do parallel fan-outs with timeouts, errors between the inserts, crashes, power cuts keep within the caps, keep the charges of recorded deliveries, send no more by the end of an hour than the caps until then allow, implement `SendBudget`, and answer every caller? | 2 calls, 2 hours of a day, caps 2 and 3 |
| `consent_parallel` | With handlers that overwrite each other, crashes and a power cut: is what was reported done durable, and does mail follow consent? | 2 writers, 1 minter, 3 writes, 1 power cut |
| `consent_serial` | One writer at a time: is the generation monotonic, do the handlers implement the contract? | 1 writer, 2 minters, 5 writes |
| `fanout_retries` | One call after another: does the ledger tell the truth, is the content settled, is everybody reached? | 1 call, 2 recipients, 2 contents, 2 faults |
| `fanout_parallel` | Parallel calls of one send_id: are duplicates bounded, is a settled recipient settled for good? | 2 calls, 2 recipients, 1 fault |
| `newsletter` | A send, its retries and the webhook: is it all a behaviour of `FanOut`, does an answered complaint end its opt-in, is the reason on record, does it stay there, is every event dealt with? | 1 call, 1 recipient, 1 event with its repetitions, 1 opt-in again, 2 faults |
| `boot` | Which setups serve, which are refused, is a store ever opened inside another, and does a restart come to the same answer? | every single variation of a sound setup (`..` out of a missing directory included), 1 fault, 2 links, 2 hops |
| `pages` | Does the limiter count per visitor, do links read back, do previews promise what a POST does, does the index tell when it leaves a send out? | 2 visitors, 2 ticks, burst 1, 3 send ids in any order, 2 mailed links, 2 generations |

Why the bounds are enough. *Calls and writers*: interference is between a read and
the write that relies on it, which takes two; symmetric third parties add lengths,
and the theorems below cover every number. *Caps 2 and 3 over two hours*: the daily
cap bites in the second hour with room left in the hour, and a lost update takes two
slots. *3 writes* in parallel let an opt-in and an opt-out overlap after an earlier
write; *5 writes* in series are opt-in, opt-out, opt-in, opt-out, opt-in, so that
tokens of three generations are about. *Recipients*: two, so that a call can end
between them. *Faults* (`MaxFaults`) count lost answers of the relay, timeouts,
store failures, crashes and power cuts: two allow a fault in the call and another in
its retry, or a power cut over the first; the second call of `fanout_parallel` makes
one enough to cut it off at every point. In `newsletter` the second fault is a power
cut over the webhook's, the visitor's, or the retry's. `MaxWrites` bounds `ver`,
`MaxPowerCuts` the cuts; a power cut resets `recoverable`, so a second starts over.
*`MaxOptIns`* 1 lets the address opt in again between an event and its repetition,
durably or not. *`MaxReports`* is 1: the handlers run one at a time, a second event
finds what a repetition of the first finds (an Active row, an opt-out of the
relay's, or one of the visitor's own, durable or not), and the theorems cover any
number. *Widths* of 2 and 4 bits have every prefix length from none to all, networks
with host bits set, and an IPv6 address outside the mapped prefix. *`MaxLinks` and
`MaxHops`* are 2 (40 and 40): a tree of three links has chains below, at and above
the bound. *Setups* vary one thing at a time because `load`'s checks are
independent; the trees are varied in full, without links that nothing leads to.
*`IndexLimit`* 2 with 3 ids is a full page and one more; *ttl* 0 and 1 put a link's
last second, and the one after, within the clock.

`ReportStatuses` is one status in the runs of `FanOut` by itself, since it treats
them alike, and the two real ones in `newsletter`. `MappedPrefix` is one of the two
bits that an IPv4 address leaves of four.

Deadlock is checked in every run. `newsletter` takes a minute and a half, the others
less. `NewsInv`, `StatusInv`, `PagesInv`, `BootInv` and `PlaceInv`, inductive
invariants of section 7 that no cfg lists, are defined in the `_proofs` modules, and
`SerialLedgerInv` in `FanOut`. They were checked on these same instances before
they were proved; the proofs have replaced those runs.

What the properties say that isn't obvious:

- `RecordedStaysCharged`: reservations are never synced by themselves, yet a power
  cut can't be used to send more *recorded* deliveries than a cap allows, because
  the row that follows each is synced through the same journal. `AdmittedWithinCap`
  in contrast counts from the last power cut.
- `DeliveriesKeepPace` is what is left of the caps when a fan-out goes on charging an hour
  that is over. An hour of the clock may see more delivery rows than its cap
  (section 6), but only those the hours before have left: by its end there are no more
  than the caps until then add up to. It counts rows, so power cuts don't reset it.
- `GenerationsAreConsents`: whatever interleaves, an opt-out ends one opt-in. It
  holds *in spite of* the lost updates below: a racing writer may take the
  generation back, never ahead of the opt-ins.
- `MailFollowsConsent` doesn't say that a recipient hasn't left since: the snapshot
  of a fan-out is taken once.
- `LedgerIsTrue` is the truth as far as a call could know it. "failed" means that
  `mailer.send` reported an error, which isn't that there is no mail: where the
  connection failed after the relay took it, there is one behind the row, and the
  recipient, who is skipped from then on, has been reached.
- `MailsBounded`: at most one mail per parallel call, plus one per attempt that
  was cut short after the relay's answer. Both terms are needed.
- `ContentSettled` needs the sends row to be *durable*. Before that there is a gap
  (section 6).
- `EverybodyReached` counts a failed attempt as reached, as the code does: the row
  it leaves is skipped for ever. It excuses recipients who leave, and a failed
  sync, after which nothing can be written without a restart.
- `AnsweredIsOut` says that the opt-in *the event is about* has ended, not that the
  address is out: it may opt in again. It excuses one case, which the code doesn't
  prevent: the webhook finds the subscriber gone by an unsubscribe of their own whose
  sync is still to come, answers 200 without a write, and a power cut brings the opt-in
  back. An opt-out by the webhook itself is never gone by like that, since its
  handlers run one after another here: two at a time would have the same gap.
  `SuppressionExplained` holds in every state a power cut may
  leave, since `post` puts and syncs the reason first.
- `ReportsStay` needs the report to be durable, and one call after another. With
  two parallel calls a late put of `/send` overwrites it (its put doesn't look).
- `ReportsAnswered` covers the 404 race: an event that comes before its row stays
  pending, and the operator's retry writes the row. It excuses recipients who have
  left, since no retry writes a row for them: the relay gets 404 for ever.
- `GuardIsExact` is both ways: nothing inside another store passes, nothing outside
  is turned away. It is about directories that the kernel can resolve, and not
  about a `..` after a name that doesn't exist (section 6).
- `OpenedIsOutside` asks the kernel, after the fact: where the path leads now that
  the directories on it have been made, and goes on leading after a restart.
- `ReopensWhatItOpened`: the first boot makes `partitions` in its own directory,
  and the guard runs again on a tree that has it. This and `OpenedIsOutside` hold of
  every setup of the run, those with such a `..` included, until an opening has gone
  by one (`strayed`). After that both are false of the code: section 6.
- `BudgetKept` is an upper bound and `OwnBucket` a lower one: a limiter keyed on the
  peer alone keeps the first and breaks the second. Both are per process, since the
  limiter starts over with it.
- `TruncationTold` is about which sends the index leaves out, not about their order:
  the index goes by ids, `/send` takes its id from the caller, and nothing makes a
  later send's id the greater one.

**Fairness.** `RateLimit`: a lock holder keeps running (`WF` on its steps: nothing
is awaited under the lock), and a waiter isn't passed over for ever (`SF` on
`Acquire`: tokio's mutex is FIFO). Clock ticks, new calls and `/send`'s other
steps have none. `FanOut`: `WF` on a call's own steps (its code runs on; the relay
answers or the SMTP client gives up) and on `Submit` (the operator retries, as the
reply's `deferred_by_cap` asks them to); `SF` on `Admit`, because caps are at least
1 and windows roll, so that one who asks again and again finds room. No fairness
on faults, and those are bounded, so eventually they stop. `Newsletter` adds `WF` on
the webhook's handler (its code runs on) and on `Receive` (the relay calls again
until it is answered with 200; the comment at `webhooks.rs` 129-131 counts on
that). `Boot`: `WF` on `Main` (it runs until it serves or exits) and on `Restart`
(`deploy/epistole.service`, line 20: `Restart=always`). `Consent` and `PublicPages`
have no liveness property: nothing there must happen without a visitor.

## 6. Findings

Runs that TLC finds violated, each by a statement of the repository about itself:

- `consent_lost_update`: the generation is said to be monotonic; two writers that
  read the same row take it back, and undo an opt-out that was reported done.
- `fanout_double_submit`: a duplicated POST is said not to fan out twice; two at the
  same time do, with no fault at all.
- `newsletter_replay`: replaying an event is said never to bump the generation twice;
  it does when the address has opted in again before the relay's retry.
- `boot_back_out`: the guard is said to refuse a path that resolves inside another
  store's `partitions` (`path.rs` 8-9). A `..` after a component that doesn't exist is
  dropped from the path it judges (113-115). For `/n/../a`, with no `/n` yet and `/a` a
  link into another store, it judges `/n/a`, which passes; the database makes `/n` and
  opens `/a`. The next boot, with `/n` there, resolves the same path to the other store
  and refuses it: what was opened is not found again either.

### Also seen, without a run

In the send and consent handlers:

- `send_cap_per_hour` is the "Maximum recipient deliveries `/send` will attempt within a
  rolling UTC hour, across every send" (`config.rs` 46-47). `post` computes the hour
  and the day once (`send.rs` 134-135) and charges every recipient of the call to them.
  A call that still runs when the hour rolls charges the old hour while others fill
  the new one: with a cap of 2, one delivery left over from the first hour and two of
  the second, all three attempted in the second. `DeliveriesKeepPace` bounds it.
- A 200 is said to survive a power loss (`store.rs` 27-29); the second of a double
  submit reads the first's unsynced row and answers 200 from it (`confirm.rs`
  163-170). `AckedIsDurable` is about the request that wrote. The webhook does the
  same with a visitor's unsynced unsubscribe (`webhooks.rs` 140); see `AnsweredIsOut`.
- A delivery row says "failed", and the recipient is skipped from then on, also where
  the relay took the mail and the connection failed before its answer (`mailer.rs` 38,
  `send.rs` 298).
- Two first calls of one send_id with different content both find no sends row, and
  both fan out (`send.rs` 364; the comment at 350-351 rules it out). `ContentSettled`
  holds for one call after another.
- The record is said to be durable before the fan-out (`send.rs` 382-383); a second
  call resumes on an unsynced one. One call at a time has the same gap: a crash
  between insert and sync, a retry that resumes and mails, a power cut before its
  first delivery row is synced, and the send_id is free for other content.
  `ContentSettled` speaks of a durable row for that reason.
- The archive's detail page is served as `immutable`, maybe from such an unsynced
  row.

In the configuration and the limiter:

- An IPv4-mapped range of length 104 (`::ffff:10.0.0.0/104`, meaning `/8`) is
  refused: the length is compared after the address was made an IPv4 one.
- A value that comes from the environment is not looked through for `${` again.
- The key taken from `X-Forwarded-For` is not canonicalised as the peer is, and only
  the first header line of that name is read. The model has one line, and a proxy
  that writes addresses in one shape.
- The archive is said to be newest first. `SendId::generate` has no caller outside
  tests: ids in production are the caller's (`send.rs` 58-60, 131), and the index is
  newest first only if those grow.

In comments: one in `subscribe.rs` (76-78) says that no newly
minted confirm token reactivates an opted-out row; `confirm.rs` (171-178) means it
to, and does. The comment on `try_reserve_send_slot` says that it "durably
increments" (34) and, two paragraphs on, that it doesn't (40-45); and that the
caller stops attempting further recipients at a refusal (37-38), where `/send` goes
on and asks for each of them.

## 7. What is proved

Each `_proofs` module of a state machine proves an inductive invariant (`IInv`, or
the name given below) with one step per action, and derives the rest from it. The
assumptions are the `ASSUME`s of the component's module, which TLC evaluates on every
run: finitely many calls, caps at least 1 (`config.rs` refuses 0), secrets with a
least length of at least 1, sentinels outside their sets, and types.

- **RateLimit.** `AdmissionsSafe`, `RecordedSafe`, `ChargesSafe`, `CountsOnlyGrow`,
  `BudgetRefinement`, for any calls, windows and caps. The caps alone aren't
  inductive: that an increment stays within its cap needs `ReadInv`, what the
  holder read is still what the store holds, which needs `LockInv`. That a power
  cut forgets no recorded delivery needs `SlotInv`: recorded plus not yet recorded
  admissions are covered by the counters, so a sync at the record covers them.
- **Consent, any number of writers, power cuts.** `AcksSafe` from `JournalInv`
  (recoverable rows lie between the last acknowledged write and the visible one).
  `ConsentSafe` and `MailSafe` from `ConsentInv`: the same statement must hold of
  everything *in flight*, since a handler puts what it read and mails what it
  minted: that is the strengthening.
- **Consent, one writer and no power cut** (`Serial`, an assumption of these
  theorems). `SerialInvariance`, `GenerationsGrow`, `ContractRefinement`: what a
  writer decides on is what it overwrites, and no token is ahead of the row. The
  lost-update run shows that the assumption is needed.
- **FanOut, any calls, recipients, faults, reports.** `MailsSafe` from `MailInv`: a
  call that found no row is counted against the bound before it mails, and a
  recipient without a row in some recoverable database has had only mails that were
  cut short or that a live call is about to record. `Idempotency` from `WorkInv` and
  `MailInv`, `RowsSafe` from `LedgerInv`: a call past `resolve_send` finds a
  sends row in what it writes after.
- **FanOut, one call at a time** (`SerialCalls`, an assumption of these theorems;
  any recipients, reports and faults, power cuts included). `SerialInvariance`,
  `LedgerSafe`, `ContentSafe` from `SerialLedgerInv`. Its first half is an
  accounting: whoever has a row in some recoverable database has one that readers
  see (`RowsAreSeen`; not the same one, since a report may overwrite it), the call
  works only on somebody who has none (`WorkOnNone`), and mails to a recipient
  without a row are those cut short plus the one under way, to one with "failed" the
  same, or one more that the call didn't hear of (`MailsAccounted`). A second call
  would break the middle one, and with it the count. Its second half, `OneContent`,
  is what `ContentSettled` needs: recoverable databases disagree on whether there is
  a sends row, never on its content, and a call that is past `resolve_send` has that
  content. A second call that creates would break it.
- **Newsletter implements FanOut** (`FanOutImplemented`), for any calls, recipients,
  events, opt-ins and faults, in the instance of `FanOut` with `Known` databases:
  initial states map to initial states and each step of `NewsNext` to a step or a
  stutter. `LogStatus` is a `Report` only because of `HookInv`: the webhook works on
  an event about a mail that was taken, and the row it found is still there, since
  rows are never removed and a power cut ends the handler too. By this theorem the
  results about `FanOut` carry over: `MailsSafeHere`, `IdempotencyHere`, and
  `LedgerHere` with one call at a time.
- **Newsletter, suppression.** `AnsweredSafe` from `NewsInv`. That an answered event
  has ended its opt-in isn't inductive: the handler goes by what it has *read*, and
  `DecisionInv` says what of that is certain. An opt-out of the relay's that it finds when
  it decides is in *every* recoverable database, because the status's sync comes before
  the subscribers row is read; when it is about to reply, the opt-in that the event is
  about is over in all of them, or it went by the subscriber's own opt-out while that
  was not synced (`ahead`). `DueInv` ties events to opt-ins that have been, so that a
  later opt-in, which has a greater number, is never mistaken for the one the event is
  about.
- **Newsletter, one call at a time.** `SuppressionSafe` and `ReportsSafe` from
  `StatusInv` and, through the refinement, `FanOut`'s `WorkOnNone`: a call that is
  about to write a delivery row has seen none in any recoverable database, so it
  doesn't overwrite a report, and the status is still there when the webhook opts out.
- **TokenWire** (in `PublicPages_proofs`). `VerifyUndoesSign`: for every address,
  expiry, generation and secret, whatever separators the local part holds, `verify`
  gives back what `sign` was given, until it expires and under no other secret (with
  an ideal hash). `LegacyNeverVerifies`: a payload with one field less verifies
  under no secret. Both rest on `SplitsAtSeparator`: a split from the side where the
  other part has no separator undoes the join. Addresses are sequences of any
  length.
- **TrustedProxy.** `RangesCoverPrefixes`: a range that `from_str` accepts covers
  exactly the peers that share its prefix, for any widths and lengths, 0 and the full
  width included, in either shape of entry and peer. `StrangersCannotChoose`: a
  peer in no trusted range is limited under its own canonical address.
- **PublicPages.** `PagesInvariance` (`PagesInv`) and from it every safety property of
  the run, for any visitors, bursts, page lengths and lifetimes. `BudgetSafe` and
  `OwnBucketSafe` from `LimiterInv`, one equation for both bounds: what a visitor
  was let in for plus what is left in the bucket of their own address lies between
  a burst and a burst with a token per tick. It needs `KeyIsOwn` (whoever forges
  what, the key of a request is its visitor's address), which is where
  `VisitorsAssumption` enters: visitors have addresses of their own, the proxy is in
  the range, who connects directly isn't. `LinksSafe`, `PreviewSafe` use
  `VerifyUndoesSign`. `TruncationSafe` uses `NewestFirstLists`, that
  for any finite set of ids there is a sorted listing without repetition, which is a
  theorem about cardinalities.
- **Boot, the configuration.** `SecretsSafe`, `RangesSafe` from `BootInv`: what a
  process got past still holds of its setup, across crashes and restarts, since the
  setup is the operator's and no step changes it. `ChecksAreExact` is the lemma
  underneath: for texts of any length, a secret is accepted exactly when what the
  operator meant, the literal or the variable the whole text names, is long
  enough and free of placeholders.
- **PathGuard**, for every file tree, path, and bounds on links and hops.
  `GuardFollowsTheKernel`: where `Locate` finds a place and no `..` leads out of a
  missing name, the guard's own walk comes to the same place. The hop bound has to be
  at least the kernel's (`HopsAssumption`; the comment on `MAX_SYMLINK_HOPS` says that
  they match), since each hop of the guard is a link that the kernel follows too
  (`OneHop`): the guard gives up on nothing the kernel resolves. `MadeWhereJudged`: when
  `create_dir_all` has run, the path resolves to just that place; and after any part
  of it has run, the tree is a tree and the path still one that can be judged. `TreeKept`
  leaves the condition on `..` out: whatever the path, and however far the making comes,
  what is left is a tree that has only grown by directories.
  Both walks are recursions, and induction over them is out of reach. Two things
  stand in for it. What a resolution comes to is told by the *least set* of
  resolutions that contains the start and that a step doesn't leave (`Leads`): it is
  finite as links run out and names get used up, so it has exactly one member that
  is stuck (`OneEnd`, `WalksEnd`), and to show something of the end it is enough that
  it holds at the start and is kept by a step (`LeadsLeast`). And where an induction
  would go over lengths or links, `Least` takes the smallest number for which the
  claim fails. `WalkIs` and `JudgementIs` show that the recursive functions are
  functions at all and satisfy their equations.
- **Boot, the directory.** `BootTyped`, `GuardExact`, `OpensOutside`, `ReopensSafe` from
  `PlaceInv` (with `BootInv`), for any setups. That what was opened is found again isn't
  inductive: the next boot judges another tree than the first, with the directories of
  every attempt in between. `PlaceInv` says that the tree is one, that a refusal stays
  one, and that what was opened, other than by a `..` out of a missing directory,
  resolves, outside of every `partitions`. It is kept since a tree that has only grown
  by directories (`Grown`) resolves what it resolved before to the same place
  (`CanonicalStays`), and since every attempt leaves such a tree (`TreeKept`), also from
  the setups with a `..`. That exception is in the statements, `~strayed`; without it
  they are false (`boot_back_out`).

`TypeCorrect` (`PagesTypeCorrect`, `NewsTypeCorrect`, `BootTyped`) is the type invariant by itself.

What a 200 of a duplicate promises, and the order of two parallel first calls, are
not proved because they are false (section 6).

Only model-checked:

- `RequestsAnswered`, `EverybodyReached`, `ReportsAnswered`, `GoodSetupsServe`:
  liveness under fairness, and `ENABLED`, are out of the prover's reach.
- `DeliveriesKeepPace`, which is about the history variable of `MCRateLimit`, and sums
  over hours.

Every other safety property of every passing run is a theorem.

## 8. Not modelled

Per component in `PROJECT.json`. In short:

- No state, nothing to interleave: HTML and templates, the error mapping, the health
  check and bearer comparison, argument parsing, logging, body limits, mail
  composition, `iter_sends` (no handler calls it).
- External, and modelled only as far as the code relies on it: the relay, the
  governor's buckets, fjall's journal, the kernel's path resolution, TOML, base64,
  the keyed hash, the service manager. TLS and axum's routing not at all.
- `PathGuard` has directories and links: a regular file in the way is one more
  failure to open. It takes the folder name `partitions` from the guard; whether the
  database's present version still uses that name can't be told from the
  repository, which doesn't hold it.
- `Newsletter` has one webhook handler at a time, and visitors whose read and put are
  one step; two parallel handlers on a subscribers row are `Consent`'s.
- `SendId::generate`, which only tests call.
- Two syncs have no property that would notice them gone: the sends row's before the
  fan-out (`send.rs` 384; section 6 says what it leaves open as it is) and the purge's
  (`subscriber.rs` 166; a row that comes back is purged again).

Different addresses and different send_ids share only the journal and the counters,
which `SyncElsewhere` and the free answer of a reservation stand for.
