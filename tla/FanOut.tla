------------------------------- MODULE FanOut -------------------------------
(***************************************************************************)
(* POST /send for one send_id: the calls that name it, at the same time    *)
(* (a double submit) and one after another (retries), the sends row they   *)
(* agree on, the deliveries rows that make a retry skip a recipient, and   *)
(* the mails that the relay takes.                                         *)
(*                                                                         *)
(* The handler is an async function on several threads: the steps of two   *)
(* calls interleave at every store operation, and the request timeout may  *)
(* drop a call at an await.  Which recipient a window still has room for   *)
(* is RateLimit's business: here a reservation is answered either way.     *)
(***************************************************************************)
EXTENDS Naturals, FiniteSets

CONSTANTS Calls,        \* POST /send requests that name the send_id
          Recipients,   \* subscribers that are, or may become, Active
          Contents,     \* subjects and bodies that callers use the send_id for
          NoContent,    \* no sends row
          NoRecipient,
          ReportStatuses, \* the statuses that the webhook overwrites a row's with
          MaxFaults     \* bound: lost answers, timeouts, failures and restarts in a behaviour

ASSUME CallsAssumption == IsFiniteSet(Calls)
ASSUME ContentsAssumption == NoContent \notin Contents
ASSUME RecipientsAssumption == NoRecipient \notin Recipients
ASSUME StatusesAssumption == ReportStatuses \cap {"none", "sent", "failed"} = {}
ASSUME FaultsAssumption == MaxFaults \in Nat

VARIABLES db,           \* the sends row and the deliveries rows, as readers see them
          recoverable,  \* the databases a power cut may leave
          poisoned,     \* a journal sync failed: the database refuses writes
          active,       \* the recipients whose subscribers row is Active
          faults,       \* faults so far
          pc,           \* where each call is
          content,      \* the subject and body of each call
          todo,         \* the recipients in a call's snapshot that it hasn't come to
          current,      \* the recipient a call is working on
          outcome,      \* what became of its mail; a call takes "lost" for "failed"
          mails,        \* history: mails the relay took, per recipient
          mailed,       \* history: the contents it took
          unheard,      \* history: recipients with a mail whose acceptance got lost
          cut           \* history: mails whose delivery row their call didn't live to sync

stored == <<db, recoverable>>
local == <<content, todo, current, outcome>>
history == <<mails, mailed, unheard, cut>>
vars == <<stored, poisoned, active, faults, pc, local, history>>

\* DeliveryStatus: as /send writes it, with "none" for no row, and as the webhook
\* overwrites it.
Answers == {"none", "sent", "failed"}
Statuses == Answers \cup ReportStatuses
Outcomes == Answers \cup {"lost"}
Databases == [send : Contents \cup {NoContent}, ledger : [Recipients -> Statuses]]

Points == {"idle", "creating", "created", "resolved", "looping", "reserving",
           "mailing", "answered", "inserted"}

Goto(c, from, to) == pc[c] = from /\ pc' = [pc EXCEPT ![c] = to]

\* No call, and no mail yet.
Fresh ==
    /\ poisoned = FALSE
    /\ faults = 0
    /\ pc = [c \in Calls |-> "idle"]
    /\ content = [c \in Calls |-> NoContent]
    /\ todo = [c \in Calls |-> {}]
    /\ current = [c \in Calls |-> NoRecipient]
    /\ outcome = [c \in Calls |-> "none"]
    /\ mails = [r \in Recipients |-> 0]
    /\ mailed = {}
    /\ unheard = {}
    /\ cut = [r \in Recipients |-> 0]

Init ==
    /\ db = [send |-> NoContent, ledger |-> [r \in Recipients |-> "none"]]
    /\ recoverable = {db}
    /\ active \in SUBSET Recipients
    /\ Fresh
-----------------------------------------------------------------------------
(* The store                                                               *)

Write(d) ==
    /\ db' = d
    /\ recoverable' = recoverable \cup {d}

\* persist_acknowledged
Sync == recoverable' = {db}
-----------------------------------------------------------------------------
(* resolve_send.  A call whose content isn't that of the row is refused,   *)
(* and changes nothing.                                                    *)

Enter(c, x, to) ==
    /\ Goto(c, "idle", to)
    /\ content' = [content EXCEPT ![c] = x]
    /\ UNCHANGED <<stored, poisoned, active, faults, todo, current, outcome, history>>

\* The send_id is known, with the same content.
Resume_AnyContent(c) == db.send # NoContent /\ \E x \in Contents : Enter(c, x, "resolved")

Resume(c) == db.send # NoContent /\ Enter(c, db.send, "resolved")

\* The send_id is new.
Begin_FanOutFirst(c) == db.send = NoContent /\ \E x \in Contents : Enter(c, x, "resolved")

Begin(c) == db.send = NoContent /\ \E x \in Contents : Enter(c, x, "creating")

\* send_put up to its insert.
Create(c) ==
    /\ Goto(c, "creating", "created")
    /\ ~poisoned
    /\ Write([db EXCEPT !.send = content[c]])
    /\ UNCHANGED <<poisoned, active, faults, local, history>>

\* send_put's sync: the record is durable before the fan-out starts.
SyncCreate(c) ==
    /\ Goto(c, "created", "resolved")
    /\ ~poisoned
    /\ Sync
    /\ UNCHANGED <<db, poisoned, active, faults, local, history>>
-----------------------------------------------------------------------------
(* The loop over active_subscribers                                        *)

Snapshot(c) ==
    /\ Goto(c, "resolved", "looping")
    /\ todo' = [todo EXCEPT ![c] = active]
    /\ UNCHANGED <<stored, poisoned, active, faults, content, current, outcome, history>>

\* AlreadyDelivered: a row of any status.
Skip_Anybody(c) ==
    /\ pc[c] = "looping"
    /\ \E r \in todo[c] : todo' = [todo EXCEPT ![c] = @ \ {r}]
    /\ UNCHANGED <<stored, poisoned, active, faults, pc, content, current, outcome, history>>

Skip(c) ==
    /\ pc[c] = "looping"
    /\ \E r \in todo[c] :
          /\ db.ledger[r] # "none"
          /\ todo' = [todo EXCEPT ![c] = @ \ {r}]
    /\ UNCHANGED <<stored, poisoned, active, faults, pc, content, current, outcome, history>>

\* No row: try_reserve_send_slot is next.
Ask_Unchecked(c) ==
    /\ Goto(c, "looping", "reserving")
    /\ \E r \in todo[c] :
          /\ current' = [current EXCEPT ![c] = r]
          /\ todo' = [todo EXCEPT ![c] = @ \ {r}]
    /\ UNCHANGED <<stored, poisoned, active, faults, content, outcome, history>>

Ask(c) ==
    /\ Goto(c, "looping", "reserving")
    /\ \E r \in todo[c] :
          /\ db.ledger[r] = "none"
          /\ current' = [current EXCEPT ![c] = r]
          /\ todo' = [todo EXCEPT ![c] = @ \ {r}]
    /\ UNCHANGED <<stored, poisoned, active, faults, content, outcome, history>>

\* DeferredByCap.
Defer(c) ==
    /\ Goto(c, "reserving", "looping")
    /\ current' = [current EXCEPT ![c] = NoRecipient]
    /\ UNCHANGED <<stored, poisoned, active, faults, content, todo, outcome, history>>

Admit(c) ==
    /\ Goto(c, "reserving", "mailing")
    /\ ~poisoned
    /\ UNCHANGED <<stored, poisoned, active, faults, local, history>>

\* mailer.send: the relay has the mail, whether or not the call will know.
RelayTakes(c, result) ==
    /\ Goto(c, "mailing", "answered")
    /\ outcome' = [outcome EXCEPT ![c] = result]
    /\ mails' = [mails EXCEPT ![current[c]] = @ + 1]
    /\ mailed' = mailed \cup {content[c]}
    /\ UNCHANGED <<stored, poisoned, active, content, todo, current, cut>>

RelayAccepts(c) == RelayTakes(c, "sent") /\ UNCHANGED <<faults, unheard>>

\* The relay rejects the mail or can't be reached, or the message isn't composed.
RelayRejects(c) ==
    /\ Goto(c, "mailing", "answered")
    /\ outcome' = [outcome EXCEPT ![c] = "failed"]
    /\ UNCHANGED <<stored, poisoned, active, faults, content, todo, current, history>>

\* Any error of mailer.send makes the row a "failed" one.
RowFor(result) == IF result = "lost" THEN "failed" ELSE result

\* delivery_put up to its insert.
Record_SentOnly(c) ==
    /\ Goto(c, "answered", "inserted")
    /\ ~poisoned
    /\ Write([db EXCEPT !.ledger[current[c]] = "sent"])
    /\ UNCHANGED <<poisoned, active, faults, local, history>>

Record(c) ==
    /\ Goto(c, "answered", "inserted")
    /\ ~poisoned
    /\ Write([db EXCEPT !.ledger[current[c]] = RowFor(outcome[c])])
    /\ UNCHANGED <<poisoned, active, faults, local, history>>

\* The recipient is done with.
Settle(c) ==
    /\ current' = [current EXCEPT ![c] = NoRecipient]
    /\ outcome' = [outcome EXCEPT ![c] = "none"]

\* delivery_put's sync.
SyncRecord_Buffered(c) ==
    /\ Goto(c, "inserted", "looping")
    /\ Settle(c)
    /\ UNCHANGED <<stored, poisoned, active, faults, content, todo, history>>

SyncRecord(c) ==
    /\ Goto(c, "inserted", "looping")
    /\ ~poisoned
    /\ Sync
    /\ Settle(c)
    /\ UNCHANGED <<db, poisoned, active, faults, content, todo, history>>

\* The reply.
Finish(c) ==
    /\ Goto(c, "looping", "idle")
    /\ todo[c] = {}
    /\ content' = [content EXCEPT ![c] = NoContent]
    /\ UNCHANGED <<stored, poisoned, active, faults, todo, current, outcome, history>>
-----------------------------------------------------------------------------
(* What goes wrong with a call                                             *)

\* Mails to r that the relay took and no synced row tells of yet.
Unsynced(r) == {c \in Calls : current[c] = r /\ outcome[c] \in {"sent", "lost"}}

Drop(c) ==
    /\ pc' = [pc EXCEPT ![c] = "idle"]
    /\ content' = [content EXCEPT ![c] = NoContent]
    /\ todo' = [todo EXCEPT ![c] = {}]
    /\ Settle(c)
    /\ cut' = [r \in Recipients |-> IF c \in Unsynced(r) THEN cut[r] + 1 ELSE cut[r]]
    /\ UNCHANGED <<mails, mailed, unheard>>

Fault == faults < MaxFaults /\ faults' = faults + 1

\* The relay takes the mail, and the connection fails before the call hears of it:
\* to the call an error like any other.
AnswerLost(c) ==
    /\ Fault
    /\ RelayTakes(c, "lost")
    /\ unheard' = unheard \cup {current[c]}

\* The request timeout, or the client's disconnect, at one of the two awaits:
\* the lock, and the relay, which may have answered already.
Timeout(c) ==
    /\ pc[c] \in {"reserving", "mailing", "answered"}
    /\ Fault
    /\ Drop(c)
    /\ UNCHANGED <<stored, poisoned, active>>

\* A read or an insert fails; nothing was written.
StoreFails(c) ==
    /\ pc[c] \in {"creating", "resolved", "looping", "reserving", "answered"}
    /\ Fault
    /\ Drop(c)
    /\ UNCHANGED <<stored, poisoned, active>>

\* A sync fails: a 500, but the row that was inserted is there to be read.
SyncFails(c) ==
    /\ pc[c] \in {"created", "inserted"}
    /\ Fault
    /\ Drop(c)
    /\ poisoned' = TRUE
    /\ UNCHANGED <<stored, active>>

\* After that every write is refused.
WriteRefused(c) ==
    /\ poisoned
    /\ pc[c] \in {"creating", "created", "reserving", "answered", "inserted"}
    /\ Drop(c)
    /\ UNCHANGED <<stored, poisoned, active, faults>>

Restart ==
    /\ Fault
    /\ poisoned' = FALSE
    /\ pc' = [c \in Calls |-> "idle"]
    /\ content' = [c \in Calls |-> NoContent]
    /\ todo' = [c \in Calls |-> {}]
    /\ current' = [c \in Calls |-> NoRecipient]
    /\ outcome' = [c \in Calls |-> "none"]
    /\ cut' = [r \in Recipients |-> cut[r] + Cardinality(Unsynced(r))]
    /\ UNCHANGED <<mails, mailed, unheard>>

Crash == Restart /\ UNCHANGED <<stored, active>>

\* It may take back a change of consent, too.
PowerCut ==
    /\ Restart
    /\ db' \in recoverable
    /\ recoverable' = {db'}
    /\ active' \in SUBSET Recipients
-----------------------------------------------------------------------------
(* Around the call                                                         *)

\* /confirm, /unsubscribe and the webhook change who is Active (see Consent), and
\* may have synced the change when others see it.
ConsentChanges ==
    /\ active' \in SUBSET Recipients
    /\ UNCHANGED recoverable \/ (~poisoned /\ Sync)
    /\ UNCHANGED <<db, poisoned, faults, pc, local, history>>

\* The webhook overwrites the delivery row of a mail that the relay took (see
\* Newsletter), up to its insert.
Report(r, status) ==
    /\ mails[r] > 0
    /\ db.ledger[r] # "none"
    /\ ~poisoned
    /\ Write([db EXCEPT !.ledger[r] = status])
    /\ UNCHANGED <<poisoned, active, faults, pc, local, history>>

\* Another handler meets a store that fails, or a sync that does.
FaultElsewhere ==
    /\ Fault
    /\ poisoned' \in {poisoned, TRUE}
    /\ UNCHANGED <<stored, active, pc, local, history>>

SyncElsewhere ==
    /\ ~poisoned
    /\ Sync
    /\ UNCHANGED <<db, poisoned, active, faults, pc, local, history>>

Submit(c) == Begin(c) \/ Resume(c)

Step(c) ==
    \/ Create(c)
    \/ SyncCreate(c)
    \/ Snapshot(c)
    \/ Skip(c)
    \/ Ask(c)
    \/ Defer(c)
    \/ Admit(c)
    \/ RelayAccepts(c)
    \/ RelayRejects(c)
    \/ Record(c)
    \/ SyncRecord(c)
    \/ Finish(c)
    \/ WriteRefused(c)

Ails(c) == AnswerLost(c) \/ Timeout(c) \/ StoreFails(c) \/ SyncFails(c)

Next ==
    \/ \E c \in Calls : Submit(c) \/ Step(c) \/ Ails(c)
    \/ Crash
    \/ PowerCut
    \/ ConsentChanges
    \/ \E r \in Recipients, status \in ReportStatuses : Report(r, status)
    \/ FaultElsewhere
    \/ SyncElsewhere

Spec == Init /\ [][Next]_vars

\* A call runs on, and the relay answers it or lettre gives up; the operator
\* submits the send_id again and again; and a recipient that is asked for again
\* and again meets a window with room, as caps are at least 1, windows roll
\* over, and other sends leave something over.
Fairness == \A c \in Calls : WF_vars(Step(c)) /\ WF_vars(Submit(c)) /\ SF_vars(Admit(c))

FairSpec == Spec /\ Fairness
-----------------------------------------------------------------------------
TypeOK ==
    /\ db \in Databases
    /\ recoverable \subseteq Databases
    /\ poisoned \in BOOLEAN
    /\ active \subseteq Recipients
    /\ faults \in 0 .. MaxFaults
    /\ pc \in [Calls -> Points]
    /\ content \in [Calls -> Contents \cup {NoContent}]
    /\ todo \in [Calls -> SUBSET Recipients]
    /\ current \in [Calls -> Recipients \cup {NoRecipient}]
    /\ outcome \in [Calls -> Outcomes]
    /\ mails \in [Recipients -> Nat]
    /\ mailed \subseteq Contents
    /\ unheard \subseteq Recipients
    /\ cut \in [Recipients -> Nat]

\* A recipient gets at most one mail per parallel call, and one for every
\* attempt that was cut short between the relay's answer and the sync of the
\* delivery row, however often the send is retried: the row makes every later
\* call skip the recipient, also after a power cut.
MailsBounded == \A r \in Recipients : mails[r] <= Cardinality(Calls) + cut[r]

\* Once the delivery row of r is durable and nobody is working on r, that's it.
Settled(r) ==
    /\ \A d \in recoverable : d.ledger[r] # "none"
    /\ \A c \in Calls : current[c] # r

\* No retry, double submit, crash or power cut gets a settled recipient mailed
\* again, or loses the row (store/send.rs, delivery_put: a row that is merely
\* buffered would silently reopen the recipient to a duplicate send).
SettledForGood ==
    [][\A r \in Recipients : Settled(r) => mails'[r] = mails[r] /\ Settled(r)']_vars

\* No power cut leaves a delivery row without the sends row it belongs to
\* (Delivery::send_id, "foreign key to Send::id"), also when the two were
\* written by different calls.
NoOrphanRows ==
    \A d \in recoverable, r \in Recipients : d.ledger[r] # "none" => d.send # NoContent

\* What the ledger says happened, happened: a "sent" row has a mail behind it,
\* and behind a "failed" one there are no mails but those of attempts that were
\* cut short, and one more only where the relay's acceptance got lost on its way.
LedgerIsTrue ==
    \A d \in recoverable, r \in Recipients :
        /\ d.ledger[r] = "sent" => mails[r] > 0
        /\ d.ledger[r] = "failed" =>
              mails[r] = cut[r] \/ (r \in unheard /\ mails[r] = cut[r] + 1)

\* Resubmitting the send_id reaches everybody in the end: a recipient who is
\* Active gets a delivery row, unless they leave before or a sync fails.
EverybodyReached ==
    \A r \in Recipients :
        r \in active ~> db.ledger[r] # "none" \/ r \notin active \/ poisoned

\* The sends row is durable.
OnRecord == \A d \in recoverable : d.send # NoContent

\* A retry with other content is refused, so with one call after another the
\* content of a send is settled when its row is durable: whatever fails after
\* that, the row keeps it, and it is all that is mailed (resolve_send).
ContentSettled ==
    [][OnRecord => db'.send = db.send /\ mailed' \subseteq mailed \cup {db.send}]_vars

\* "A retried or duplicated POST /send (client timeout, connection reset, an
\* operator's own double-submit) must not fan out to every subscriber a second
\* time" (_llm/decisions.toml, D-caller-supplied-send-id).
NoSecondFanOut == \E r \in Recipients : mails[r] <= 1

-----------------------------------------------------------------------------
(* The inductive invariant behind MailsBounded                             *)

\* Calls that found no row of r and haven't mailed.
About(r) == {c \in Calls : current[c] = r /\ outcome[c] = "none"}

WorkInv ==
    \A c \in Calls :
        /\ pc[c] \in {"reserving", "mailing", "answered", "inserted"} <=> current[c] # NoRecipient
        /\ pc[c] \in {"answered", "inserted"} <=> outcome[c] # "none"
        /\ pc[c] = "inserted" => db.ledger[current[c]] # "none"
        /\ outcome[c] = "lost" => current[c] \in unheard
        /\ pc[c] # "idle" => content[c] # NoContent

MailInv ==
    \A r \in Recipients :
        /\ mails[r] + Cardinality(About(r)) <= Cardinality(Calls) + cut[r]
        /\ \A d \in recoverable :
              d.ledger[r] = "none" => mails[r] <= cut[r] + Cardinality(Unsynced(r))

\* What the readers see is one of the databases that a power cut may leave, and
\* a call past its send_put finds the sends row in it.
LedgerInv ==
    /\ db \in recoverable
    /\ NoOrphanRows
    /\ \A c \in Calls : pc[c] \notin {"idle", "creating"} => db.send # NoContent

IInv == TypeOK /\ WorkInv /\ MailInv /\ LedgerInv
-----------------------------------------------------------------------------
(* The inductive invariant behind LedgerIsTrue and ContentSettled, with one *)
(* call at a time                                                          *)

SerialCalls == \A c, e \in Calls : c = e

\* A row that a power cut may leave is one that readers see, though its status may
\* have been overwritten since.
RowsAreSeen ==
    \A d \in recoverable, r \in Recipients : db.ledger[r] = "none" => d.ledger[r] = "none"

\* A call works on a recipient who has no row, up to its own delivery_put.
WorkOnNone ==
    \A c \in Calls, d \in recoverable :
        /\ pc[c] \in {"reserving", "mailing", "answered"} => d.ledger[current[c]] = "none"
        /\ pc[c] = "inserted" =>
              d.ledger[current[c]] \in {"none", RowFor(outcome[c])} \cup ReportStatuses

\* The mails of r are those that were cut short, and the one under way.
AllTold(r) == mails[r] = cut[r] + Cardinality(Unsynced(r))

\* Where there is no row, that's all; where the row says "failed", there may be the
\* one that its call didn't hear of.
MailsAccounted ==
    \A d \in recoverable, r \in Recipients :
        /\ d.ledger[r] = "none" => AllTold(r)
        /\ d.ledger[r] = "failed" =>
              AllTold(r) \/ (Unsynced(r) = {} /\ r \in unheard /\ mails[r] = cut[r] + 1)
        /\ d.ledger[r] \notin {"none", "failed"} => mails[r] > 0

\* A call under way has the content of the sends row, or is about to write the
\* first one; a power cut may take the row away, but brings no other content.
OneContent ==
    /\ \A d \in recoverable : d.send \in {NoContent, db.send}
    /\ \A c \in Calls :
          /\ pc[c] = "creating" => db.send = NoContent
          /\ pc[c] \notin {"idle", "creating"} => content[c] = db.send

SerialLedgerInv == RowsAreSeen /\ WorkOnNone /\ MailsAccounted /\ OneContent
=============================================================================
