----------------------------- MODULE Newsletter -----------------------------
(***************************************************************************)
(* FanOut together with POST /webhooks/delivery-events.  The relay reports *)
(* bounces and complaints of the mails it took; the webhook overwrites the *)
(* status of the delivery row that /send wrote, and opts the subscriber    *)
(* out.  The two rows lie in different keyspaces and are put one after the *)
(* other, and /send may not have written the first one yet.                *)
(*                                                                         *)
(* `db` is FanOut's database with one more field, the subscribers rows, and *)
(* one that is history: the opt-outs each event has caused.                *)
(* The pages that change consent read and put in one step here (see Consent *)
(* for their interleavings), and so does the webhook; the sync of what they *)
(* put is a step of its own.  The relay's calls come one after another.    *)
(***************************************************************************)
EXTENDS FanOut

CONSTANTS NoReport,
          MaxOptIns,  \* bound: opt-ins of a recipient, after the first
          MaxReports  \* bound: events that the relay reports

ASSUME NewsStatusesAssumption == ReportStatuses = {"bounced", "complained"}
ASSUME NewsBoundsAssumption == MaxOptIns \in Nat /\ MaxReports \in Nat

VARIABLES hook,         \* where the webhook's handler is
          report,       \* the event it works on
          reports,      \* how far the relay is with each event
          optIns,       \* history: opt-ins so far, those included that were lost again
          due,          \* history: opt-ins of the recipient when the event happened
          ahead         \* history: events whose handler went by an unsynced opt-out

hookVars == <<hook, report, reports, optIns, due, ahead>>
newsVars == <<vars, hookVars>>

\* EventKind, and the flag that comes with a bounce.
Kinds == {"soft bounce", "hard bounce", "complaint"}
Reports == [to : Recipients, kind : Kinds]

OptedIn(d) == {r \in Recipients : d.consent[r].optedIn}

NewsInit ==
    /\ Fresh
    /\ \E who \in SUBSET Recipients :
          db = [send |-> NoContent,
                ledger |-> [r \in Recipients |-> "none"],
                consent |-> [r \in Recipients |-> [optedIn |-> r \in who, nr |-> 0, gen |-> 0, by |-> "self"]],
                bumps |-> [e \in Reports |-> 0]]
    /\ recoverable = {db}
    /\ active = OptedIn(db)
    /\ hook = "idle"
    /\ report = NoReport
    /\ reports = [e \in Reports |-> "none"]
    /\ optIns = [r \in Recipients |-> 0]
    /\ due = [e \in Reports |-> 0]
    /\ ahead = {}
-----------------------------------------------------------------------------
(* The visitors: POST /confirm and POST /unsubscribe, subscriber_put up to *)
(* its insert.  Everybody reads the row from then on; its sync is one of   *)
(* SyncElsewhere and VisitSyncFails.                                       *)

Visit(r, row) ==
    /\ ~poisoned
    /\ Write([db EXCEPT !.consent[r] = row])
    /\ active' = OptedIn(db')
    /\ UNCHANGED <<poisoned, faults, pc, local, history, hook, report, reports, due, ahead>>

\* A row keeps the number of its opt-in, which is history.
OptedOut(row, who) == [optedIn |-> FALSE, nr |-> row.nr, gen |-> row.gen + 1, by |-> who]

OptIn(r) ==
    /\ r \notin active
    /\ optIns[r] < MaxOptIns
    /\ optIns' = [optIns EXCEPT ![r] = @ + 1]
    /\ Visit(r, [optedIn |-> TRUE, nr |-> optIns'[r], gen |-> db.consent[r].gen, by |-> "self"])

OptOut(r) ==
    /\ r \in active
    /\ Visit(r, OptedOut(db.consent[r], "self"))
    /\ UNCHANGED optIns

VisitSyncFails ==
    /\ Fault
    /\ poisoned' = TRUE
    /\ UNCHANGED <<stored, active, pc, local, history, hookVars>>
-----------------------------------------------------------------------------
(* The relay has something to report about a mail it took.                 *)

Happens(e) ==
    /\ reports[e] = "none"
    /\ Cardinality({f \in Reports : reports[f] # "none"}) < MaxReports
    /\ mails[e.to] > 0
    /\ reports' = [reports EXCEPT ![e] = "pending"]
    /\ due' = [due EXCEPT ![e] = optIns[e.to]]
    /\ UNCHANGED <<vars, hook, report, optIns, ahead>>
-----------------------------------------------------------------------------
(* webhooks.rs: post.  The relay calls again until it is answered with 200. *)

Proceed(from, to) == hook = from /\ hook' = to

Receive_Unrecorded(e) ==
    /\ reports[e] = "pending"
    /\ Proceed("idle", "found")
    /\ report' = e
    /\ ahead' = ahead \ {e}
    /\ UNCHANGED <<vars, reports, optIns, due>>

\* delivery_get; without a row the answer is 404, and nothing happens.
Receive(e) ==
    /\ reports[e] = "pending"
    /\ db.ledger[e.to] # "none"
    /\ Proceed("idle", "found")
    /\ report' = e
    /\ ahead' = ahead \ {e}
    /\ UNCHANGED <<vars, reports, optIns, due>>

StatusOf_Failed(e) == IF e.kind = "complaint" THEN "complained" ELSE "failed"

StatusOf(e) == IF e.kind = "complaint" THEN "complained" ELSE "bounced"

\* delivery_put, up to its insert.
LogStatus ==
    /\ Proceed("found", "logged")
    /\ ~poisoned
    /\ Write([db EXCEPT !.ledger[report.to] = StatusOf(report)])
    /\ UNCHANGED <<poisoned, active, faults, pc, local, history, report, reports, optIns, due, ahead>>

Suppresses(e) == e.kind \in {"hard bounce", "complaint"}

SyncStatus ==
    /\ Proceed("logged", IF Suppresses(report) THEN "deciding" ELSE "replying")
    /\ ~poisoned
    /\ Sync
    /\ UNCHANGED <<db, poisoned, active, faults, pc, local, history, report, reports, optIns, due, ahead>>

\* suppress_subscriber: an Active row is opted out, like by its own link...
Suppress ==
    /\ Proceed("deciding", "suppressed")
    /\ report.to \in active
    /\ ~poisoned
    /\ Write([db EXCEPT
              !.consent[report.to] = OptedOut(db.consent[report.to], "relay"),
              !.bumps[report] = @ + 1])
    /\ active' = OptedIn(db')
    /\ UNCHANGED <<poisoned, faults, pc, local, history, report, reports, optIns, due, ahead>>

SyncSuppression_Buffered ==
    /\ Proceed("suppressed", "replying")
    /\ UNCHANGED <<vars, report, reports, optIns, due, ahead>>

SyncSuppression ==
    /\ Proceed("suppressed", "replying")
    /\ ~poisoned
    /\ Sync
    /\ UNCHANGED <<db, poisoned, active, faults, pc, local, history, report, reports, optIns, due, ahead>>

\* ...and any other row is left as it is.
NothingToSuppress_Refused == FALSE

\* The opt-out that r's own handler has put isn't there after every power cut.
OptOutUnsynced(r) ==
    db.consent[r].by = "self" /\ \E d \in recoverable : d.consent[r].optedIn

NothingToSuppress ==
    /\ Proceed("deciding", "replying")
    /\ report.to \notin active
    /\ ahead' = IF OptOutUnsynced(report.to) THEN ahead \cup {report} ELSE ahead
    /\ UNCHANGED <<vars, report, reports, optIns, due>>

HookEnds == hook' = "idle" /\ report' = NoReport

\* 200.
Reply ==
    /\ hook = "replying"
    /\ HookEnds
    /\ reports' = [reports EXCEPT ![report] = "answered"]
    /\ UNCHANGED <<vars, optIns, due, ahead>>

\* A store operation fails and is answered with 500, or the 200 is lost: the
\* relay will call again.
HookFails ==
    /\ hook \in {"found", "deciding", "replying"}
    /\ Fault
    /\ HookEnds
    /\ UNCHANGED <<stored, poisoned, active, pc, local, history, reports, optIns, due, ahead>>

HookSyncFails ==
    /\ hook \in {"logged", "suppressed"}
    /\ Fault
    /\ HookEnds
    /\ poisoned' = TRUE
    /\ UNCHANGED <<stored, active, pc, local, history, reports, optIns, due, ahead>>

HookRefused ==
    /\ poisoned
    /\ hook \in {"found", "logged", "deciding", "suppressed"}
    /\ HookEnds
    /\ UNCHANGED <<vars, reports, optIns, due, ahead>>

Webhook ==
    \/ LogStatus
    \/ SyncStatus
    \/ Suppress
    \/ SyncSuppression
    \/ NothingToSuppress
    \/ Reply
    \/ HookRefused
-----------------------------------------------------------------------------
Send(c) ==
    /\ Submit(c) \/ Step(c) \/ Ails(c)
    /\ UNCHANGED hookVars

ProcessDies ==
    /\ Crash \/ PowerCut
    /\ active' = OptedIn(db')
    /\ HookEnds
    /\ UNCHANGED <<reports, optIns, due, ahead>>

NewsNext ==
    \/ \E c \in Calls : Send(c)
    \/ \E r \in Recipients : OptIn(r) \/ OptOut(r)
    \/ \E e \in Reports : Happens(e) \/ Receive(e)
    \/ Webhook
    \/ HookFails
    \/ HookSyncFails
    \/ SyncElsewhere /\ UNCHANGED hookVars
    \/ VisitSyncFails
    \/ ProcessDies

NewsSpec == NewsInit /\ [][NewsNext]_newsVars

\* The handler runs on, and the relay calls again as long as it gets no 200.
HookFairness ==
    /\ WF_newsVars(Webhook)
    /\ \A e \in Reports : WF_newsVars(Receive(e))

FairNewsSpec == NewsSpec /\ Fairness /\ HookFairness
-----------------------------------------------------------------------------
NewsDatabases ==
    [send : Contents \cup {NoContent},
     ledger : [Recipients -> Statuses],
     consent : [Recipients -> [optedIn : BOOLEAN, nr : Nat, gen : Nat, by : {"self", "relay"}]],
     bumps : [Reports -> Nat]]

NewsTypeOK ==
    /\ db \in NewsDatabases
    /\ recoverable \subseteq NewsDatabases
    /\ active = OptedIn(db)
    /\ hook \in {"idle", "found", "logged", "deciding", "suppressed", "replying"}
    /\ report \in Reports \cup {NoReport}
    /\ reports \in [Reports -> {"none", "pending", "answered"}]
    /\ optIns \in [Recipients -> 0 .. MaxOptIns]
    /\ due \in [Reports -> 0 .. MaxOptIns]
    /\ ahead \subseteq Reports

\* /send can't tell that the webhook and the pages are there but by a row whose
\* status was overwritten, by who is Active, and by a sync or a fault: with the
\* two fields it knows of each database, what happens is a behaviour of FanOut.
Known(d) == [send |-> d.send, ledger |-> d.ledger]
Fan == INSTANCE FanOut WITH db <- Known(db), recoverable <- {Known(d) : d \in recoverable}
ImplementsFanOut == Fan!Spec

\* The opt-in that the event is about has ended, and so have those before it.
Over(d, e) == d.consent[e.to].optedIn => d.consent[e.to].nr > due[e]

\* A complaint or hard bounce that was answered with 200 has ended the opt-in it is
\* about, and no crash, lost answer or power cut brings that opt-in back; unless
\* the handler found the subscriber gone by an unsubscribe of their own whose sync
\* was still to come, which a power cut may take back (subscriber_put inserts, then
\* syncs).  An opt-out of the relay's is never gone by before it is durable.
AnsweredIsOut ==
    \A e \in Reports \ ahead, d \in recoverable :
        Suppresses(e) /\ reports[e] = "answered" => Over(d, e)

\* Nobody is opted out by the relay without a trace: whatever a power cut leaves,
\* the delivery row that says why is there (post puts it first).
SuppressionExplained ==
    \A d \in recoverable, r \in Recipients :
        d.consent[r].by = "relay" => d.ledger[r] \in ReportStatuses

\* A bounce or complaint on record stays on record: no retry of the send, and no
\* call that is under way while the relay reports, puts "sent" or "failed" back.
Reported(d, r) == d.ledger[r] \in ReportStatuses
ReportsStay ==
    [][\A r \in Recipients :
           (\A d \in recoverable : Reported(d, r)) => Reported(db', r)]_newsVars

\* What the relay reports is dealt with in the end, even when the report comes
\* before the delivery row, and is answered with 404 until a call or its retry
\* has written the row; unless the recipient left before that.
ReportsAnswered ==
    \A e \in Reports :
        reports[e] = "pending" ~>
            \/ reports[e] = "answered"
            \/ poisoned
            \/ db.ledger[e.to] = "none" /\ e.to \notin active

\* "Replaying the same webhook event (a relay retry after a timeout) never
\* double-bumps the generation" (webhooks.rs, suppress_subscriber).
BumpsOnce == \A e \in Reports : db.bumps[e] <= 1
=============================================================================
