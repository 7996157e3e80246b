-------------------------- MODULE Newsletter_proofs --------------------------
(***************************************************************************)
(* POST /send together with the delivery-event webhook and the pages that  *)
(* change consent: all of it is a behaviour of FanOut, so the theorems of  *)
(* FanOut_proofs hold of it too; and what an answered complaint is worth.  *)
(***************************************************************************)
EXTENDS Newsletter, TLAPS

P == INSTANCE FanOut_proofs WITH db <- Known(db), recoverable <- {Known(d) : d \in recoverable}

HookPoints == {"idle", "found", "logged", "deciding", "suppressed", "replying"}
Rows == [optedIn : BOOLEAN, nr : Nat, gen : Nat, by : {"self", "relay"}]

-----------------------------------------------------------------------------
(* The inductive invariant behind ImplementsFanOut and AnsweredIsOut       *)

CallInv ==
    /\ pc \in [Calls -> Points]
    /\ content \in [Calls -> Contents \cup {NoContent}]
    /\ outcome \in [Calls -> Outcomes]
    /\ mails \in [Recipients -> Nat]
    /\ \A c \in Calls : pc[c] = "answered" => outcome[c] # "none"

\* An event is about a mail that the relay took, and the webhook goes on with it
\* when it has found a delivery row.
HookInv ==
    /\ db \in recoverable
    /\ \A e \in Reports : reports[e] = "pending" => mails[e.to] > 0
    /\ hook # "idle" =>
          report \in Reports /\ reports[report] = "pending" /\ db.ledger[report.to] # "none"

\* An event is about an opt-in that has been.
DueInv == \A e \in Reports : due[e] <= optIns[e.to]

\* The webhook has synced before it reads the subscribers row, so that an opt-out of
\* the relay's which it finds there is durable; and its own opt-out is before it
\* replies.
DecisionInv ==
    /\ hook = "deciding" /\ db.consent[report.to].by = "relay" =>
          \A d \in recoverable : d.consent[report.to] = db.consent[report.to]
    /\ hook = "suppressed" => Over(db, report)
    /\ hook = "replying" /\ Suppresses(report) /\ report \notin ahead =>
          \A d \in recoverable : Over(d, report)

NewsInv ==
    /\ NewsTypeOK
    /\ CallInv
    /\ HookInv
    /\ DueInv
    /\ DecisionInv
    /\ AnsweredIsOut

\* And the one behind SuppressionExplained and ReportsStay, with one call at a
\* time: the status that the webhook has put is still there when it opts out.
StatusInv ==
    /\ hook \in {"logged", "deciding", "suppressed", "replying"} => Reported(db, report.to)
    /\ SuppressionExplained

-----------------------------------------------------------------------------
(* Steps, by what they touch                                               *)

\* What the store does under everybody but the visitors, the webhook's opt-out and
\* a restart: rows are written and synced, and consent stays as it is.
StoreQuiet ==
    /\ db' \in NewsDatabases
    /\ db'.consent = db.consent
    /\ db' \in recoverable'
    /\ recoverable' \subseteq recoverable \cup {db'}
    /\ active' = active
    /\ \A r \in Recipients : db.ledger[r] # "none" => db'.ledger[r] # "none"

\* What a step of a call may do beside that.
CallsMove ==
    /\ CallInv'
    /\ \A r \in Recipients : mails[r] > 0 => mails'[r] > 0

CallStep(c) == Submit(c) \/ Step(c) \/ Ails(c)

\* A step of a call leaves the store alone, syncs, or writes a row.
LEMMA CallIsQuiet ==
    ASSUME NewsInv, NEW c \in Calls, CallStep(c)
    PROVE  StoreQuiet
<1> USE DEF Goto, stored, local, history, NewsInv
<1>1. /\ db \in NewsDatabases /\ db \in recoverable /\ CallInv
  BY DEF NewsTypeOK, HookInv
<1>2. CASE \/ Snapshot(c) \/ Skip(c) \/ Ask(c) \/ Defer(c) \/ Admit(c) \/ Timeout(c)
           \/ StoreFails(c) \/ SyncFails(c) \/ WriteRefused(c) \/ RelayRejects(c) \/ Finish(c)
           \/ SyncCreate(c) \/ SyncRecord(c) \/ Begin(c) \/ Resume(c) \/ RelayAccepts(c)
           \/ AnswerLost(c)
  <2>1. db' = db /\ active' = active /\ recoverable' \in {recoverable, {db}}
    BY <1>2 DEF Snapshot, Skip, Ask, Defer, Admit, Timeout, StoreFails, SyncFails, WriteRefused,
                RelayRejects, Finish, SyncCreate, SyncRecord, Sync, Begin, Resume, Enter,
                RelayAccepts, RelayTakes, AnswerLost
  <2> QED
    BY <1>1, <2>1 DEF StoreQuiet
<1>3. CASE Create(c)
  <2>1. /\ db' = [db EXCEPT !.send = content[c]] /\ recoverable' = recoverable \cup {db'}
        /\ active' = active /\ content[c] \in Contents \cup {NoContent}
    BY <1>1, <1>3 DEF Create, Write, CallInv
  <2> QED
    BY <1>1, <2>1 DEF StoreQuiet, NewsDatabases
<1>4. CASE Record(c)
  <2>1. /\ db' = [db EXCEPT !.ledger[current[c]] = RowFor(outcome[c])]
        /\ recoverable' = recoverable \cup {db'} /\ active' = active
        /\ RowFor(outcome[c]) \in Statuses /\ RowFor(outcome[c]) # "none"
    BY <1>1, <1>4 DEF Record, Write, CallInv, Statuses, Outcomes, Answers, RowFor
  <2> QED
    BY <1>1, <2>1 DEF StoreQuiet, NewsDatabases
<1> QED
  BY <1>2, <1>3, <1>4 DEF CallStep, Submit, Step, Ails

\* Contents, answers and mails stay what they are supposed to be.
LEMMA CallMoves ==
    ASSUME NewsInv, NEW c \in Calls, CallStep(c)
    PROVE  CallsMove
<1> USE DEF Goto, stored, local, history, CallsMove, CallInv, Points, Outcomes, Answers
<1>1. /\ db.send \in Contents \cup {NoContent}
      /\ CallInv
  BY DEF NewsTypeOK, NewsDatabases, NewsInv
<1>2. CASE \/ Snapshot(c) \/ Skip(c) \/ Ask(c) \/ Defer(c) \/ Admit(c) \/ Finish(c)
           \/ SyncCreate(c) \/ Create(c) \/ Record(c) \/ Begin(c) \/ Resume(c)
  <2>1. mails' = mails /\ outcome' = outcome
    BY <1>2 DEF Snapshot, Skip, Ask, Defer, Admit, Finish, SyncCreate, Create, Record,
                Begin, Resume, Enter
  <2>2. content' \in [Calls -> Contents \cup {NoContent}]
    BY <1>1, <1>2 DEF Snapshot, Skip, Ask, Defer, Admit, Finish, SyncCreate, Create, Record,
                Begin, Resume, Enter
  <2>3. pc' \in [Calls -> Points] /\ \A e \in Calls : pc'[e] = "answered" => pc[e] = "answered"
    BY <1>1, <1>2 DEF Snapshot, Skip, Ask, Defer, Admit, Finish, SyncCreate, Create, Record,
                Begin, Resume, Enter
  <2> QED
    BY <1>1, <2>1, <2>2, <2>3
<1>3. CASE WriteRefused(c) \/ Timeout(c) \/ StoreFails(c) \/ SyncFails(c)
  BY <1>1, <1>3 DEF WriteRefused, Timeout, StoreFails, SyncFails, Drop, Settle
<1>4. CASE SyncRecord(c)
  BY <1>1, <1>4 DEF SyncRecord, Settle
<1>5. CASE RelayAccepts(c) \/ AnswerLost(c)
  <2>1. /\ mails' = [mails EXCEPT ![current[c]] = @ + 1] /\ content' = content
        /\ \E result \in {"sent", "lost"} : outcome' = [outcome EXCEPT ![c] = result]
        /\ pc' = [pc EXCEPT ![c] = "answered"]
    BY <1>5 DEF RelayAccepts, AnswerLost, RelayTakes
  <2>2. mails' = [r \in Recipients |-> IF r = current[c] THEN mails[r] + 1 ELSE mails[r]]
    BY <1>1, <2>1
  <2>3. mails' \in [Recipients -> Nat]
    <3>1. \A r \in Recipients : mails[r] \in Nat
      BY <1>1
    <3> HIDE DEF CallInv
    <3> QED
      BY <2>2, <3>1
  <2> QED
    BY <1>1, <2>1, <2>2, <2>3
<1>6. CASE RelayRejects(c)
  BY <1>1, <1>6 DEF RelayRejects
<1> QED
  BY <1>2, <1>3, <1>4, <1>5, <1>6 DEF CallStep, Submit, Step, Ails

\* The parts of the invariant that only the store has a say in.
StoreOK ==
    /\ db \in NewsDatabases
    /\ recoverable \subseteq NewsDatabases
    /\ active = OptedIn(db)

HookTypes ==
    /\ hook \in HookPoints
    /\ report \in Reports \cup {NoReport}
    /\ reports \in [Reports -> {"none", "pending", "answered"}]
    /\ optIns \in [Recipients -> 0 .. MaxOptIns]
    /\ due \in [Reports -> 0 .. MaxOptIns]
    /\ ahead \subseteq Reports

\* The two make up the type invariant.
LEMMA Parts == NewsTypeOK <=> StoreOK /\ HookTypes
BY DEF NewsTypeOK, StoreOK, HookTypes, HookPoints

\* A quiet step leaves the store in order.
LEMMA QuietStore ==
    ASSUME NewsInv, StoreQuiet
    PROVE  StoreOK'
BY Parts DEF NewsInv, StoreQuiet, HookInv, StoreOK, OptedIn

\* An event that was answered stays dealt with.
LEMMA QuietAnswered ==
    ASSUME NewsInv, StoreQuiet, UNCHANGED <<reports, due>>,
           \A e \in Reports : reports[e] = "answered" /\ e \notin ahead' => e \notin ahead
    PROVE  AnsweredIsOut'
<1>1. AnsweredIsOut /\ db \in recoverable
  BY DEF NewsInv, HookInv
<1>2. \A e \in Reports, d \in recoverable' : \E b \in recoverable : d.consent = b.consent
  BY <1>1 DEF StoreQuiet
<1> QED
  BY <1>1, <1>2 DEF AnsweredIsOut, Over

\* What the webhook goes by is as it was...
LEMMA QuietDecision ==
    ASSUME NewsInv, StoreQuiet, UNCHANGED <<hook, report, due, ahead>>
    PROVE  DecisionInv'
<1>1. DecisionInv /\ db \in recoverable
  BY DEF NewsInv, HookInv
<1> QED
  BY <1>1 DEF StoreQuiet, DecisionInv, Over

\* ...and so is the event it works on.
LEMMA QuietHook ==
    ASSUME NewsInv, StoreQuiet, CallsMove, UNCHANGED <<hook, report, reports>>
    PROVE  HookInv'
<1>1. HookInv
  BY DEF NewsInv
<1> QED
  BY <1>1 DEF StoreQuiet, CallsMove, HookInv, Reports

\* So the invariant holds whatever a call of /send does...
LEMMA CallKeeps ==
    ASSUME NewsInv, NEW c \in Calls, Send(c)
    PROVE  NewsInv'
<1>1. StoreQuiet /\ CallsMove /\ UNCHANGED hookVars
  BY CallIsQuiet, CallMoves DEF Send, CallStep
<1>2. HookTypes'
  BY <1>1, Parts DEF NewsInv, HookTypes, hookVars
<1>3. StoreOK' /\ AnsweredIsOut' /\ DecisionInv' /\ HookInv' /\ CallInv'
  BY <1>1, QuietStore, QuietAnswered, QuietDecision, QuietHook DEF hookVars, CallsMove
<1>4. DueInv'
  BY <1>1 DEF NewsInv, DueInv, hookVars
<1> QED
  BY <1>2, <1>3, <1>4 DEF NewsInv, NewsTypeOK, StoreOK, HookTypes, HookPoints

\* ...and whatever the webhook does, but for the opt-out itself.
LEMMA NobodyMoves ==
    ASSUME NewsInv, UNCHANGED <<pc, content, outcome, mails>>
    PROVE  CallsMove
BY DEF NewsInv, CallInv, CallsMove

LEMMA HookIsQuiet ==
    ASSUME NewsInv,
           \/ UNCHANGED vars
           \/ UNCHANGED <<stored, active, pc, local, history>>
           \/ Sync /\ UNCHANGED <<db, active, pc, local, history>>
    PROVE  StoreQuiet /\ CallsMove
<1>1. /\ UNCHANGED <<db, active, pc, content, outcome, mails>>
      /\ recoverable' \in {recoverable, {db}}
  BY DEF vars, stored, local, history, Sync
<1>2. db \in NewsDatabases /\ db \in recoverable
  BY DEF NewsInv, NewsTypeOK, HookInv
<1> QED
  BY <1>1, <1>2, NobodyMoves DEF StoreQuiet

\* The status that the webhook puts is one more row of the ledger.
LEMMA LogIsQuiet ==
    ASSUME NewsInv, LogStatus
    PROVE  StoreQuiet /\ CallsMove
<1>1. /\ db' = [db EXCEPT !.ledger[report.to] = StatusOf(report)]
      /\ recoverable' = recoverable \cup {db'}
      /\ UNCHANGED <<active, pc, content, outcome, mails>>
  BY DEF LogStatus, Write, local, history
<1>2. db \in NewsDatabases
  BY DEF NewsInv, NewsTypeOK
<1>3. StatusOf(report) \in Statuses /\ StatusOf(report) # "none"
  BY NewsStatusesAssumption DEF StatusOf, Statuses
<1>4. db' \in NewsDatabases /\ db'.consent = db.consent
      /\ \A r \in Recipients : db.ledger[r] # "none" => db'.ledger[r] # "none"
  BY <1>1, <1>2, <1>3 DEF NewsDatabases
<1> QED
  BY <1>1, <1>4, NobodyMoves DEF StoreQuiet

\* The webhook goes on to its next step, with the event it has.
LEMMA ProceedKeeps ==
    ASSUME NewsInv, StoreQuiet, CallsMove, UNCHANGED <<reports, optIns, due>>,
           hook' \in HookPoints, report' \in Reports \cup {NoReport},
           ahead' \subseteq Reports,
           \A e \in Reports : reports[e] = "answered" /\ e \notin ahead' => e \notin ahead,
           HookInv', DecisionInv'
    PROVE  NewsInv'
<1>1. StoreOK' /\ AnsweredIsOut'
  BY QuietStore, QuietAnswered
<1>2. DueInv'
  BY DEF NewsInv, DueInv
<1> QED
  BY <1>1, <1>2 DEF NewsInv, NewsTypeOK, StoreOK, HookPoints, CallsMove

\* It has nothing to do with an event, or has done with it.
LEMMA IdleKeeps ==
    ASSUME NewsInv, StoreQuiet, CallsMove, UNCHANGED <<reports, optIns, due, ahead>>, HookEnds
    PROVE  NewsInv'
<1>1. HookInv'
  BY DEF NewsInv, HookInv, HookEnds, StoreQuiet, CallsMove, Reports
<1>2. DecisionInv'
  BY DEF DecisionInv, HookEnds
<1> QED
  BY <1>1, <1>2, ProceedKeeps DEF HookEnds, HookPoints, NewsInv, NewsTypeOK

\* It takes up an event whose delivery row it has found...
LEMMA ReceiveKeeps ==
    ASSUME NewsInv, NEW e \in Reports, Receive(e)
    PROVE  NewsInv'
<1> USE DEF Receive, Proceed
<1>1. StoreQuiet /\ CallsMove
  BY HookIsQuiet
<1>2. UNCHANGED <<db, recoverable, mails>>
  BY DEF vars, stored, history
<1>3. HookInv'
  BY <1>2 DEF NewsInv, HookInv
<1>4. DecisionInv'
  BY DEF DecisionInv
<1>5. ahead' \subseteq Reports /\ (reports[e] # "answered")
  BY DEF NewsInv, NewsTypeOK
<1> QED
  BY <1>1, <1>3, <1>4, <1>5, ProceedKeeps DEF HookPoints

\* ...puts the status...
LEMMA LogKeeps ==
    ASSUME NewsInv, LogStatus
    PROVE  NewsInv'
<1>1. hook' = "logged" /\ hook = "found" /\ UNCHANGED <<report, reports, optIns, due, ahead>>
  BY DEF LogStatus, Proceed
<1>2. HookInv'
  BY <1>1, LogIsQuiet DEF NewsInv, HookInv, StoreQuiet, CallsMove, Reports
<1>3. DecisionInv'
  BY <1>1 DEF DecisionInv
<1> QED
  BY <1>1, <1>2, <1>3, LogIsQuiet, ProceedKeeps DEF HookPoints, NewsInv, NewsTypeOK

\* ...and syncs: before it reads the subscribers row, and before it replies.
LEMMA SyncKeeps ==
    ASSUME NewsInv, SyncStatus \/ SyncSuppression
    PROVE  NewsInv'
<1>1. /\ UNCHANGED <<report, reports, optIns, due, ahead, db, active>> /\ recoverable' = {db}
      /\ StoreQuiet /\ CallsMove /\ hook # "idle"
  BY HookIsQuiet DEF SyncStatus, SyncSuppression, Proceed, Sync
<1>2. HookInv'
  BY <1>1 DEF NewsInv, HookInv, StoreQuiet, CallsMove, Reports
<1>3. DecisionInv'
  <2>1. CASE SyncStatus
    <3>1. /\ hook' \in {"deciding", "replying"} /\ (hook' = "replying" => ~Suppresses(report))
      BY <2>1 DEF SyncStatus, Proceed
    <3> QED
      BY <1>1, <3>1 DEF DecisionInv, Suppresses
  <2>2. CASE SyncSuppression
    <3>1. hook = "suppressed" /\ hook' = "replying"
      BY <2>2 DEF SyncSuppression, Proceed
    <3> QED
      BY <1>1, <3>1 DEF NewsInv, DecisionInv, Over
  <2> QED
    BY <2>1, <2>2
<1>4. hook' \in HookPoints
  BY DEF SyncStatus, SyncSuppression, Proceed, HookPoints
<1> QED
  BY <1>1, <1>2, <1>3, <1>4, ProceedKeeps DEF NewsInv, NewsTypeOK

\* Nobody was opted in whom the event could be about: that opt-in has ended, as far
\* as it isn't the visitor's own opt-out that a power cut may take back.
LEMMA NothingKeeps ==
    ASSUME NewsInv, NothingToSuppress
    PROVE  NewsInv'
<1> USE DEF NothingToSuppress, Proceed
<1>1. StoreQuiet /\ CallsMove /\ UNCHANGED <<db, recoverable, mails>>
  BY HookIsQuiet DEF vars, stored, history
<1>2. HookInv'
  BY <1>1 DEF NewsInv, HookInv
<1>3. report \in Reports /\ report.to \in Recipients /\ db \in NewsDatabases
      /\ reports[report] = "pending"
  BY DEF NewsInv, NewsTypeOK, HookInv, Reports
<1>4. DecisionInv'
  <2>1. ASSUME NEW d \in recoverable, report \notin ahead'
        PROVE  Over(d, report)
    <3>1. ~OptOutUnsynced(report.to)
      BY <2>1
    <3>2. ~db.consent[report.to].optedIn /\ db.consent[report.to] \in Rows
      BY <1>3 DEF NewsInv, NewsTypeOK, OptedIn, NewsDatabases, Rows
    <3>3. CASE db.consent[report.to].by = "relay"
      BY <3>2, <3>3 DEF NewsInv, DecisionInv, Over
    <3>4. CASE db.consent[report.to].by = "self"
      BY <3>1, <3>4 DEF OptOutUnsynced, Over
    <3> QED
      BY <3>2, <3>3, <3>4 DEF Rows
  <2> QED
    BY <1>1, <2>1 DEF DecisionInv, Over
<1>5. ahead \subseteq ahead' /\ ahead' \subseteq Reports
  BY <1>3 DEF NewsInv, NewsTypeOK
<1>6. \A e \in Reports : reports[e] = "answered" /\ e \notin ahead' => e \notin ahead
  BY <1>5
<1> QED
  BY <1>1, <1>2, <1>3, <1>4, <1>5, <1>6, ProceedKeeps DEF HookPoints

\* The 200 comes when the opt-out is durable.
LEMMA ReplyKeeps ==
    ASSUME NewsInv, Reply
    PROVE  NewsInv'
<1> USE DEF Reply, HookEnds
<1>1. StoreQuiet /\ CallsMove /\ UNCHANGED <<db, recoverable, mails>>
  BY HookIsQuiet DEF vars, stored, history
<1>2. /\ reports' = [reports EXCEPT ![report] = "answered"]
      /\ reports \in [Reports -> {"none", "pending", "answered"}]
      /\ report \in Reports /\ reports[report] = "pending"
  BY DEF NewsInv, NewsTypeOK, HookInv
<1>3. HookInv' /\ DecisionInv'
  BY <1>1, <1>2 DEF NewsInv, HookInv, DecisionInv
<1>4. DueInv'
  BY DEF NewsInv, DueInv
<1>5. AnsweredIsOut'
  BY <1>1, <1>2 DEF NewsInv, AnsweredIsOut, DecisionInv, Over
<1> QED
  BY <1>1, <1>2, <1>3, <1>4, <1>5, QuietStore
     DEF NewsInv, NewsTypeOK, StoreOK, CallsMove

\* Without a 200 the event is as pending as before.
LEMMA HookFailsKeeps ==
    ASSUME NewsInv, HookFails \/ HookSyncFails \/ HookRefused
    PROVE  NewsInv'
<1>1. StoreQuiet /\ CallsMove
  BY HookIsQuiet DEF HookFails, HookSyncFails, HookRefused
<1> QED
  BY <1>1, IdleKeeps DEF HookFails, HookSyncFails, HookRefused

\* The databases, with the subscribers rows under one name.
LEMMA Shape ==
    NewsDatabases = [send : Contents \cup {NoContent}, ledger : [Recipients -> Statuses],
                     consent : [Recipients -> Rows], bumps : [Reports -> Nat]]
BY DEF NewsDatabases, Rows

\* An opt-out leaves a row.
LEMMA OptOutRow ==
    ASSUME NEW old \in Rows, NEW who \in {"self", "relay"}
    PROVE  /\ OptedOut(old, who) \in Rows
           /\ ~OptedOut(old, who).optedIn
           /\ OptedOut(old, who).by = who
BY DEF Rows, OptedOut

\* What a write of the subscribers row of `q` does.
RowIsPut(q, row) ==
    /\ db' \in NewsDatabases /\ db'.send = db.send /\ db'.ledger = db.ledger
    /\ db'.consent[q] = row
    /\ \A r \in Recipients : r # q => db'.consent[r] = db.consent[r]
    /\ recoverable' = recoverable \cup {db'}

\* An event that it is right for stays dealt with, or gets to be.
LEMMA PutKeeps ==
    ASSUME NewsInv, NEW q \in Recipients, NEW row, RowIsPut(q, row),
           active' = OptedIn(db'), UNCHANGED <<pc, content, outcome, mails>>,
           UNCHANGED <<report, reports, due, ahead>>, hook' \in HookPoints,
           hook # "idle" \/ hook' = "idle",
           optIns' \in [Recipients -> 0 .. MaxOptIns], DueInv', DecisionInv',
           \A e \in Reports : e.to = q => Over(db', e)
    PROVE  NewsInv'
<1> USE DEF RowIsPut
<1>1. CallInv'
  BY DEF NewsInv, CallInv
<1>2. HookInv'
  BY DEF NewsInv, HookInv, Reports
<1>3. db \in recoverable
  BY DEF NewsInv, HookInv
<1>4. \A e \in Reports : Over(db', e) \/ db'.consent[e.to] = db.consent[e.to]
  BY DEF Reports
<1>5. AnsweredIsOut'
  BY <1>3, <1>4 DEF NewsInv, AnsweredIsOut, Over
<1> QED
  BY <1>1, <1>2, <1>5 DEF NewsInv, NewsTypeOK, HookPoints

\* The opt-out by the relay ends the opt-in that is there.
LEMMA SuppressKeeps ==
    ASSUME NewsInv, Suppress
    PROVE  NewsInv'
<1> USE DEF Suppress, Proceed, Write
<1> DEFINE q == report.to
           row == OptedOut(db.consent[q], "relay")
<1>1. /\ report \in Reports /\ q \in Recipients /\ db \in NewsDatabases
      /\ db.consent[q] \in Rows
  BY DEF NewsInv, NewsTypeOK, NewsDatabases, HookInv, Reports, Rows
<1>2. row \in Rows /\ ~row.optedIn
  BY <1>1, OptOutRow
<1>3. db' = [db EXCEPT !.consent[q] = row, !.bumps[report] = @ + 1]
  OBVIOUS
<1>4. /\ recoverable' = recoverable \cup {db'}
      /\ UNCHANGED <<pc, content, outcome, mails, report, reports, optIns, due, ahead>>
      /\ hook = "deciding" /\ hook' = "suppressed" /\ active' = OptedIn(db')
  BY DEF local, history
<1> HIDE DEF row, q, Suppress, Proceed, Write
<1>5. RowIsPut(q, row)
  <2>1. /\ db.consent \in [Recipients -> Rows] /\ db.bumps \in [Reports -> Nat]
        /\ db.send \in Contents \cup {NoContent} /\ db.ledger \in [Recipients -> Statuses]
    BY <1>1, Shape
  <2>2. /\ [db.consent EXCEPT ![q] = row] \in [Recipients -> Rows]
        /\ [db.bumps EXCEPT ![report] = @ + 1] \in [Reports -> Nat]
    BY <1>1, <1>2, <2>1
  <2>3. db' = [send |-> db.send, ledger |-> db.ledger,
               consent |-> [db.consent EXCEPT ![q] = row],
               bumps |-> [db.bumps EXCEPT ![report] = @ + 1]]
    BY <1>1, <1>3, Shape
  <2>4. db' \in NewsDatabases
    BY <2>1, <2>2, <2>3, Shape
  <2> QED
    BY <1>1, <1>3, <1>4, <2>1, <2>3, <2>4 DEF RowIsPut
<1>6. \A e \in Reports : e.to = q => Over(db', e)
  BY <1>2, <1>5 DEF Over, RowIsPut
<1>7. DueInv'
  BY <1>4 DEF NewsInv, DueInv
<1>8. DecisionInv'
  <2>1. Over(db', report)
    BY <1>1, <1>6 DEF q
  <2> QED
    BY <1>4, <2>1 DEF DecisionInv, Over
<1> QED
  BY <1>1, <1>4, <1>5, <1>6, <1>7, <1>8, PutKeeps DEF NewsInv, NewsTypeOK, HookPoints

\* A visitor's own opt-in is a later one than any event is about, and their
\* opt-out ends the one that is there.
LEMMA VisitKeeps ==
    ASSUME NewsInv, NEW q \in Recipients, OptIn(q) \/ OptOut(q)
    PROVE  NewsInv'
<1>1. /\ db.consent[q] \in Rows /\ db \in NewsDatabases
      /\ optIns \in [Recipients -> 0 .. MaxOptIns] /\ MaxOptIns \in Nat
      /\ \A e \in Reports : due[e] \in Nat
  BY NewsBoundsAssumption DEF NewsInv, NewsTypeOK, NewsDatabases, Rows
<1>2. PICK row :
         /\ Visit(q, row) /\ row \in Rows /\ row.by = "self"
         /\ optIns' \in [Recipients -> 0 .. MaxOptIns]
         /\ \A r \in Recipients : optIns'[r] >= optIns[r]
         /\ row.optedIn => row.nr = optIns[q] + 1
  <2>1. CASE OptIn(q)
    <3> DEFINE row == [optedIn |-> TRUE, nr |-> optIns'[q], gen |-> db.consent[q].gen, by |-> "self"]
    <3>1. optIns' = [optIns EXCEPT ![q] = @ + 1] /\ optIns[q] < MaxOptIns /\ Visit(q, row)
      BY <2>1 DEF OptIn
    <3>2. /\ optIns' \in [Recipients -> 0 .. MaxOptIns] /\ optIns'[q] = optIns[q] + 1
          /\ \A r \in Recipients : optIns'[r] >= optIns[r]
      BY <1>1, <3>1
    <3>3. row \in Rows /\ row.by = "self" /\ row.nr = optIns[q] + 1
      BY <1>1, <3>2 DEF Rows
    <3> QED
      BY <3>1, <3>2, <3>3
  <2>2. CASE OptOut(q)
    <3> DEFINE row == OptedOut(db.consent[q], "self")
    <3>1. Visit(q, row) /\ optIns' = optIns
      BY <2>2 DEF OptOut
    <3>2. row \in Rows /\ row.by = "self" /\ ~row.optedIn
      BY <1>1, OptOutRow
    <3>3. /\ optIns' \in [Recipients -> 0 .. MaxOptIns]
          /\ \A r \in Recipients : optIns'[r] >= optIns[r]
      BY <1>1, <3>1
    <3> HIDE DEF row
    <3> QED
      BY <3>1, <3>2, <3>3
  <2> QED
    BY <2>1, <2>2
<1>3. /\ db' = [db EXCEPT !.consent[q] = row] /\ recoverable' = recoverable \cup {db'}
      /\ active' = OptedIn(db')
      /\ UNCHANGED <<pc, content, outcome, mails, hook, report, reports, due, ahead>>
  BY <1>2 DEF Visit, Write, local, history
<1>4. RowIsPut(q, row)
  BY <1>1, <1>2, <1>3, Shape DEF RowIsPut
<1>5. DueInv'
  BY <1>1, <1>2, <1>3 DEF NewsInv, DueInv, Reports
<1>6. ASSUME NEW e \in Reports, e.to = q
      PROVE  Over(db', e)
  <2>1. row.optedIn => row.nr > due[e]
    BY <1>1, <1>2, <1>6 DEF NewsInv, DueInv
  <2> QED
    BY <1>3, <1>4, <1>6, <2>1 DEF Over, RowIsPut
<1>7. \A e \in Reports : Over(db, e) => Over(db', e)
  BY <1>3, <1>4, <1>6 DEF Over, RowIsPut, Reports
<1>8. DecisionInv'
  <2>1. hook # "idle" => report \in Reports /\ report.to \in Recipients
    BY DEF NewsInv, HookInv, Reports
  <2>2. ASSUME hook = "deciding", db'.consent[report.to].by = "relay"
        PROVE  \A d \in recoverable' : d.consent[report.to] = db'.consent[report.to]
    <3>1. report.to # q /\ db'.consent[report.to] = db.consent[report.to]
      BY <1>2, <1>4, <2>1, <2>2 DEF RowIsPut
    <3> QED
      BY <1>3, <2>2, <3>1 DEF NewsInv, DecisionInv
  <2>3. hook = "suppressed" => Over(db', report)
    BY <1>7, <2>1 DEF NewsInv, DecisionInv
  <2>4. ASSUME hook = "replying", Suppresses(report), report \notin ahead
        PROVE  \A d \in recoverable' : Over(d, report)
    BY <1>3, <1>7, <2>1, <2>4 DEF NewsInv, DecisionInv, HookInv
  <2> QED
    BY <1>3, <2>2, <2>3, <2>4 DEF DecisionInv, Over
<1>9. hook' \in HookPoints /\ (hook # "idle" \/ hook' = "idle")
  BY <1>3 DEF NewsInv, NewsTypeOK, HookPoints
<1> QED
  BY <1>2, <1>3, <1>4, <1>5, <1>6, <1>8, <1>9, PutKeeps

\* The relay has something to report, about the last opt-in there was.
LEMMA HappensKeeps ==
    ASSUME NewsInv, NEW e \in Reports, Happens(e)
    PROVE  NewsInv'
<1> USE DEF Happens
<1>1. StoreQuiet /\ CallsMove
  BY HookIsQuiet
<1>2. UNCHANGED <<db, recoverable, active, mails, hook, report, optIns, ahead>>
  BY DEF vars, stored, history
<1>3. /\ reports' = [reports EXCEPT ![e] = "pending"]
      /\ due' = [due EXCEPT ![e] = optIns[e.to]]
      /\ reports[e] = "none" /\ mails[e.to] > 0
  OBVIOUS
<1> HIDE DEF Happens
<1>4. /\ e.to \in Recipients
      /\ reports \in [Reports -> {"none", "pending", "answered"}]
      /\ due \in [Reports -> 0 .. MaxOptIns] /\ optIns \in [Recipients -> 0 .. MaxOptIns]
  BY DEF NewsInv, NewsTypeOK, Reports
<1>5. /\ due' \in [Reports -> 0 .. MaxOptIns] /\ due'[e] = optIns[e.to]
      /\ \A f \in Reports : f # e => due'[f] = due[f] /\ reports'[f] = reports[f]
  BY <1>3, <1>4
<1>6. HookTypes'
  BY <1>2, <1>3, <1>4, <1>5 DEF HookTypes, NewsInv, NewsTypeOK, HookPoints
<1>7. HookInv'
  BY <1>2, <1>3, <1>4 DEF NewsInv, HookInv
<1>8. DueInv'
  BY <1>2, <1>4, <1>5, NewsBoundsAssumption DEF NewsInv, DueInv, Reports
<1>9. DecisionInv'
  <2>1. hook # "idle" => report \in Reports /\ report # e
    BY <1>3 DEF NewsInv, HookInv
  <2> QED
    BY <1>2, <1>5, <2>1 DEF NewsInv, DecisionInv, Over
<1>10. AnsweredIsOut'
  BY <1>2, <1>3, <1>4, <1>5 DEF NewsInv, AnsweredIsOut, Over
<1> QED
  BY <1>1, <1>6, <1>7, <1>8, <1>9, <1>10, QuietStore
     DEF NewsInv, NewsTypeOK, StoreOK, HookTypes, HookPoints, CallsMove

\* A new process, with what the old one left behind; the relay will call again.
LEMMA DeathKeeps ==
    ASSUME NewsInv, ProcessDies
    PROVE  NewsInv'
<1>1. /\ Restart /\ HookEnds /\ UNCHANGED <<reports, optIns, due, ahead, mails>>
      /\ active' = OptedIn(db')
      /\ db' \in recoverable' /\ recoverable' \subseteq recoverable
  BY DEF ProcessDies, Crash, PowerCut, Restart, stored, NewsInv, HookInv
<1>2. db' \in NewsDatabases /\ recoverable' \subseteq NewsDatabases
  BY <1>1 DEF NewsInv, NewsTypeOK
<1>3. CallInv'
  BY <1>1 DEF Restart, NewsInv, CallInv, Points, Outcomes, Answers
<1>4. HookInv'
  BY <1>1 DEF NewsInv, HookInv, HookEnds
<1>5. DueInv' /\ AnsweredIsOut'
  BY <1>1 DEF NewsInv, DueInv, AnsweredIsOut, Over
<1>6. DecisionInv'
  BY <1>1 DEF DecisionInv, HookEnds
<1> QED
  BY <1>1, <1>2, <1>3, <1>4, <1>5, <1>6 DEF NewsInv, NewsTypeOK, HookEnds

\* Nothing is sent or reported at first.
LEMMA InitNewsInv == NewsInit => NewsInv
<1> SUFFICES ASSUME NewsInit PROVE NewsInv
  OBVIOUS
<1> USE DEF NewsInit, Fresh
<1>1. PICK who \in SUBSET Recipients :
         db = [send |-> NoContent,
               ledger |-> [r \in Recipients |-> "none"],
               consent |-> [r \in Recipients |->
                              [optedIn |-> r \in who, nr |-> 0, gen |-> 0, by |-> "self"]],
               bumps |-> [e \in Reports |-> 0]]
  OBVIOUS
<1>2. db \in NewsDatabases
  BY <1>1, Shape DEF Statuses, Answers, Rows
<1>3. NewsTypeOK
  BY <1>2, NewsBoundsAssumption DEF NewsTypeOK
<1>4. CallInv
  BY DEF CallInv, Points, Outcomes, Answers
<1>5. DueInv
  BY DEF DueInv, Reports
<1>6. HookInv /\ DecisionInv /\ AnsweredIsOut
  BY DEF HookInv, DecisionInv, AnsweredIsOut
<1> QED
  BY <1>3, <1>4, <1>5, <1>6 DEF NewsInv

\* A sync by somebody else, or one that fails, and a step of nobody.
LEMMA OthersKeep ==
    ASSUME NewsInv, \/ SyncElsewhere /\ UNCHANGED hookVars
                    \/ VisitSyncFails
                    \/ UNCHANGED newsVars
    PROVE  NewsInv'
<1>1. StoreQuiet /\ CallsMove /\ UNCHANGED hookVars
  BY HookIsQuiet DEF SyncElsewhere, VisitSyncFails, newsVars, hookVars
<1>2. HookInv' /\ DecisionInv'
  BY <1>1, QuietHook, QuietDecision DEF hookVars
<1> QED
  BY <1>1, <1>2, ProceedKeeps DEF hookVars, NewsInv, NewsTypeOK, HookPoints

\* Any number of calls, events and faults, in any order.
THEOREM NewsInvariance == NewsSpec => []NewsInv
<1>1. NewsInv /\ [NewsNext]_newsVars => NewsInv'
  <2> SUFFICES ASSUME NewsInv, [NewsNext]_newsVars PROVE NewsInv'
    OBVIOUS
  <2>1. CASE \E c \in Calls : Send(c)
    BY <2>1, CallKeeps
  <2>2. CASE \E r \in Recipients : OptIn(r) \/ OptOut(r)
    BY <2>2, VisitKeeps
  <2>3. CASE \E e \in Reports : Happens(e) \/ Receive(e)
    BY <2>3, HappensKeeps, ReceiveKeeps
  <2>4. CASE Webhook \/ HookFails \/ HookSyncFails
    BY <2>4, LogKeeps, SyncKeeps, SuppressKeeps, NothingKeeps, ReplyKeeps, HookFailsKeeps
       DEF Webhook
  <2>5. CASE (SyncElsewhere /\ UNCHANGED hookVars) \/ VisitSyncFails \/ UNCHANGED newsVars
    BY <2>5, OthersKeep
  <2>6. CASE ProcessDies
    BY <2>6, DeathKeeps
  <2> QED
    BY <2>1, <2>2, <2>3, <2>4, <2>5, <2>6 DEF NewsNext
<1> QED
  BY <1>1, InitNewsInv, PTL DEF NewsSpec

\* The databases, and what the webhook goes through, keep their types.
THEOREM NewsTypeCorrect == NewsSpec => []NewsTypeOK
<1>1. NewsInv => NewsTypeOK
  BY DEF NewsInv
<1> QED
  BY <1>1, NewsInvariance, PTL

\* The opt-in that the relay was told 200 about stays over, whatever crashes or is
\* retried, unless the handler went by an unsubscribe that wasn't synced
\* (webhooks.rs, post: 200 only when its own opt-out is durable).
THEOREM AnsweredSafe == NewsSpec => []AnsweredIsOut
<1>1. NewsInv => AnsweredIsOut
  BY DEF NewsInv
<1> QED
  BY <1>1, NewsInvariance, PTL
------------------------------------------------------------------------------
(* What happens is a behaviour of FanOut                                   *)

\* The databases as /send knows them are kept, synced and written with the others.
LEMMA KnownKept == UNCHANGED stored => UNCHANGED Fan!stored
BY DEF stored, Fan!stored

LEMMA KnownSync == Sync => Fan!Sync
BY DEF Sync, Fan!Sync

LEMMA KnownWrite == \A d : Write(d) => Fan!Write(Known(d))
BY DEF Write, Fan!Write

LEMMA KnownFields ==
    ASSUME db \in NewsDatabases
    PROVE  /\ Known(db).send = db.send /\ Known(db).ledger = db.ledger
           /\ \A x : Known([db EXCEPT !.send = x]) = [Known(db) EXCEPT !.send = x]
           /\ \A r, x : Known([db EXCEPT !.ledger[r] = x]) = [Known(db) EXCEPT !.ledger[r] = x]
BY DEF Known, NewsDatabases

\* So every step of a call is one of FanOut.
LEMMA CallMaps ==
    ASSUME NewsInv, NEW c \in Calls, CallStep(c)
    PROVE  Fan!Submit(c) \/ Fan!Step(c) \/ Fan!Ails(c)
<1> USE DEF Goto, Fan!Goto, local, Fan!local, history, Fan!history
<1>0. db \in NewsDatabases
  BY DEF NewsInv, NewsTypeOK
<1>1. CASE Begin(c)
  <2>1. Fan!Begin(c)
    BY <1>0, <1>1, KnownKept, KnownFields DEF Begin, Fan!Begin, Enter, Fan!Enter
  <2> QED
    BY <2>1 DEF Fan!Submit
<1>2. CASE Resume(c)
  <2>1. Fan!Resume(c)
    BY <1>0, <1>2, KnownKept, KnownFields DEF Resume, Fan!Resume, Enter, Fan!Enter
  <2> QED
    BY <2>1 DEF Fan!Submit
<1>3. CASE Create(c)
  <2>1. Fan!Create(c)
    BY <1>0, <1>3, KnownWrite, KnownFields DEF Create, Fan!Create
  <2> QED
    BY <2>1 DEF Fan!Step
<1>4. CASE SyncCreate(c)
  <2>1. Fan!SyncCreate(c)
    BY <1>0, <1>4, KnownSync DEF SyncCreate, Fan!SyncCreate
  <2> QED
    BY <2>1 DEF Fan!Step
<1>5. CASE Snapshot(c)
  <2>1. Fan!Snapshot(c)
    BY <1>5, KnownKept DEF Snapshot, Fan!Snapshot
  <2> QED
    BY <2>1 DEF Fan!Step
<1>6. CASE Skip(c)
  <2>1. Fan!Skip(c)
    BY <1>0, <1>6, KnownKept, KnownFields DEF Skip, Fan!Skip
  <2> QED
    BY <2>1 DEF Fan!Step
<1>7. CASE Ask(c)
  <2>1. Fan!Ask(c)
    BY <1>0, <1>7, KnownKept, KnownFields DEF Ask, Fan!Ask
  <2> QED
    BY <2>1 DEF Fan!Step
<1>8. CASE Defer(c) \/ Admit(c)
  <2>1. Fan!Defer(c) \/ Fan!Admit(c)
    BY <1>8, KnownKept DEF Defer, Fan!Defer, Admit, Fan!Admit
  <2> QED
    BY <2>1 DEF Fan!Step
<1>9. CASE RelayAccepts(c) \/ RelayRejects(c)
  <2>1. Fan!RelayAccepts(c) \/ Fan!RelayRejects(c)
    BY <1>9, KnownKept DEF RelayAccepts, Fan!RelayAccepts, RelayTakes, Fan!RelayTakes,
                           RelayRejects, Fan!RelayRejects
  <2> QED
    BY <2>1 DEF Fan!Step
<1>10. CASE Record(c)
  <2>1. Fan!Write(Known([db EXCEPT !.ledger[current[c]] = RowFor(outcome[c])]))
    BY <1>10, KnownWrite DEF Record
  <2>2. Known([db EXCEPT !.ledger[current[c]] = RowFor(outcome[c])])
          = [Known(db) EXCEPT !.ledger[current[c]] = RowFor(outcome[c])]
    BY <1>0, KnownFields
  <2>3. Fan!Write([Known(db) EXCEPT !.ledger[current[c]] = RowFor(outcome[c])])
    BY <2>1, <2>2
  <2>4. Fan!Record(c)
    BY <1>10, <2>3 DEF Record, Fan!Record, RowFor, Fan!RowFor
  <2> QED
    BY <2>4 DEF Fan!Step
<1>11. CASE SyncRecord(c)
  <2>1. Fan!SyncRecord(c)
    BY <1>11, KnownSync DEF SyncRecord, Fan!SyncRecord, Settle, Fan!Settle
  <2> QED
    BY <2>1 DEF Fan!Step
<1>12. CASE Finish(c)
  <2>1. Fan!Finish(c)
    BY <1>12, KnownKept DEF Finish, Fan!Finish
  <2> QED
    BY <2>1 DEF Fan!Step
<1>13. Drop(c) => Fan!Drop(c)
  BY DEF Drop, Fan!Drop, Settle, Fan!Settle, Unsynced, Fan!Unsynced
<1>14. CASE WriteRefused(c)
  <2>1. Fan!WriteRefused(c)
    BY <1>13, <1>14, KnownKept DEF WriteRefused, Fan!WriteRefused
  <2> QED
    BY <2>1 DEF Fan!Step
<1>15. CASE Timeout(c)
  BY <1>13, <1>15, KnownKept DEF Timeout, Fan!Timeout, Fan!Ails, Fault, Fan!Fault
<1>16. CASE StoreFails(c)
  BY <1>13, <1>16, KnownKept DEF StoreFails, Fan!StoreFails, Fan!Ails, Fault, Fan!Fault
<1>17. CASE SyncFails(c)
  BY <1>13, <1>17, KnownKept DEF SyncFails, Fan!SyncFails, Fan!Ails, Fault, Fan!Fault
<1>18. CASE AnswerLost(c)
  BY <1>18, KnownKept DEF AnswerLost, Fan!AnswerLost, Fan!Ails, RelayTakes, Fan!RelayTakes,
                          Fault, Fan!Fault
<1> QED
  BY <1>1, <1>2, <1>3, <1>4, <1>5, <1>6, <1>7, <1>8, <1>9, <1>10, <1>11, <1>12,
     <1>14, <1>15, <1>16, <1>17, <1>18 DEF CallStep, Submit, Step, Ails

\* The process dies in FanOut, too.
LEMMA DeathMaps ==
    ASSUME ProcessDies
    PROVE  Fan!Crash \/ Fan!PowerCut
<1>1. Restart => Fan!Restart
  BY DEF Restart, Fan!Restart, Fault, Fan!Fault, Unsynced, Fan!Unsynced, Cardinality,
         Fan!Cardinality
<1>2. CASE Crash
  BY <1>1, <1>2, KnownKept DEF Crash, Fan!Crash
<1>3. CASE PowerCut
  BY <1>1, <1>3 DEF PowerCut, Fan!PowerCut
<1> QED
  BY <1>2, <1>3 DEF ProcessDies

\* A change of who is Active, in a row that /send doesn't know.
LEMMA PutMaps ==
    ASSUME NewsInv, db'.send = db.send, db'.ledger = db.ledger,
           recoverable' = recoverable \cup {db'}, active' = OptedIn(db'),
           UNCHANGED <<poisoned, faults, pc, local, history>>
    PROVE  Fan!ConsentChanges
<1>1. db \in recoverable
  BY DEF NewsInv, HookInv
<1>2. Known(db)' = Known(db)
  BY DEF Known
<1>3. {Known(d) : d \in recoverable}' = {Known(d) : d \in recoverable}
  BY <1>1, <1>2
<1>4. active' \in SUBSET Recipients
  BY DEF OptedIn
<1> QED
  BY <1>2, <1>3, <1>4 DEF Fan!ConsentChanges, local, Fan!local, history, Fan!history

\* A visitor makes one, up to its insert...
LEMMA VisitMaps ==
    ASSUME NewsInv, NEW r \in Recipients, OptIn(r) \/ OptOut(r)
    PROVE  Fan!ConsentChanges
<1>1. PICK row : Visit(r, row)
  BY DEF OptIn, OptOut
<1>2. db \in NewsDatabases
  BY DEF NewsInv, NewsTypeOK
<1>3. db'.send = db.send /\ db'.ledger = db.ledger
  BY <1>1, <1>2 DEF Visit, Write, NewsDatabases
<1>4. recoverable' = recoverable \cup {db'} /\ active' = OptedIn(db')
      /\ UNCHANGED <<poisoned, faults, pc, local, history>>
  BY <1>1 DEF Visit, Write
<1> QED
  BY <1>3, <1>4, PutMaps

\* ...and so does the webhook.
LEMMA SuppressMaps ==
    ASSUME NewsInv, Suppress
    PROVE  Fan!ConsentChanges
<1>1. db \in NewsDatabases
  BY DEF NewsInv, NewsTypeOK
<1>2. db'.send = db.send /\ db'.ledger = db.ledger
  BY <1>1 DEF Suppress, Write, NewsDatabases
<1>3. recoverable' = recoverable \cup {db'} /\ active' = OptedIn(db')
      /\ UNCHANGED <<poisoned, faults, pc, local, history>>
  BY DEF Suppress, Write
<1> QED
  BY <1>2, <1>3, PutMaps

\* The webhook overwrites a row that it has found, of a mail that was taken.
LEMMA LogMaps ==
    ASSUME NewsInv, LogStatus
    PROVE  \E r \in Recipients, status \in ReportStatuses : Fan!Report(r, status)
<1>1. /\ report.to \in Recipients /\ mails[report.to] > 0 /\ db.ledger[report.to] # "none"
      /\ db \in NewsDatabases
  BY DEF LogStatus, Proceed, NewsInv, NewsTypeOK, HookInv, Reports
<1>2. StatusOf(report) \in ReportStatuses
  BY NewsStatusesAssumption DEF StatusOf
<1>3. /\ ~poisoned /\ Write([db EXCEPT !.ledger[report.to] = StatusOf(report)])
      /\ UNCHANGED <<poisoned, active, faults, pc, local, history>>
  BY DEF LogStatus
<1>4. Fan!Write([Known(db) EXCEPT !.ledger[report.to] = StatusOf(report)])
  <2>1. Fan!Write(Known([db EXCEPT !.ledger[report.to] = StatusOf(report)]))
    BY <1>3, KnownWrite
  <2>2. Known([db EXCEPT !.ledger[report.to] = StatusOf(report)])
          = [Known(db) EXCEPT !.ledger[report.to] = StatusOf(report)]
    BY <1>1, KnownFields
  <2> QED
    BY <2>1, <2>2
<1>5. Fan!Report(report.to, StatusOf(report))
  BY <1>1, <1>3, <1>4, KnownFields DEF Fan!Report, local, Fan!local, history, Fan!history
<1> QED
  BY <1>1, <1>2, <1>5

\* The other steps of the webhook sync, fail, or leave /send alone.
LEMMA OthersMap ==
    ASSUME \/ SyncStatus \/ SyncSuppression \/ SyncElsewhere
           \/ HookFails \/ HookSyncFails \/ VisitSyncFails
           \/ UNCHANGED vars
    PROVE  [Fan!Next]_(Fan!vars)
<1> USE DEF local, Fan!local, history, Fan!history
<1>1. CASE SyncStatus \/ SyncSuppression \/ SyncElsewhere
  <2>1. Fan!SyncElsewhere
    BY <1>1, KnownSync DEF SyncStatus, SyncSuppression, SyncElsewhere, Fan!SyncElsewhere
  <2> QED
    BY <2>1 DEF Fan!Next
<1>2. CASE HookFails
  <2>1. Fan!FaultElsewhere
    BY <1>2, KnownKept DEF HookFails, Fan!FaultElsewhere, Fault, Fan!Fault
  <2> QED
    BY <2>1 DEF Fan!Next
<1>3. CASE HookSyncFails \/ VisitSyncFails
  <2>1. Fan!FaultElsewhere
    BY <1>3, KnownKept DEF HookSyncFails, VisitSyncFails, Fan!FaultElsewhere, Fault, Fan!Fault
  <2> QED
    BY <2>1 DEF Fan!Next
<1>4. CASE UNCHANGED vars
  BY <1>4, KnownKept DEF vars, Fan!vars
<1> QED
  BY <1>1, <1>2, <1>3, <1>4

\* Every step of the whole is a step of FanOut, or none.
LEMMA StepMaps ==
    ASSUME NewsInv, [NewsNext]_newsVars
    PROVE  [Fan!Next]_(Fan!vars)
<1>1. CASE \E c \in Calls : Send(c)
  BY <1>1, CallMaps DEF Send, CallStep, Fan!Next
<1>2. CASE \E r \in Recipients : OptIn(r) \/ OptOut(r)
  BY <1>2, VisitMaps DEF Fan!Next
<1>3. CASE \E e \in Reports : Happens(e) \/ Receive(e)
  <2>1. UNCHANGED vars
    BY <1>3 DEF Happens, Receive
  <2> QED
    BY <2>1, OthersMap
<1>4. CASE Webhook
  <2>1. CASE LogStatus
    BY <2>1, LogMaps DEF Fan!Next
  <2>2. CASE Suppress
    BY <2>2, SuppressMaps DEF Fan!Next
  <2>3. CASE SyncStatus \/ SyncSuppression
    BY <2>3, OthersMap
  <2>4. CASE NothingToSuppress \/ Reply \/ HookRefused
    <3>1. UNCHANGED vars
      BY <2>4 DEF NothingToSuppress, Reply, HookRefused
    <3> QED
      BY <3>1, OthersMap
  <2> QED
    BY <1>4, <2>1, <2>2, <2>3, <2>4 DEF Webhook
<1>5. CASE HookFails \/ HookSyncFails \/ VisitSyncFails \/ SyncElsewhere \/ UNCHANGED newsVars
  <2>1. HookFails \/ HookSyncFails \/ VisitSyncFails \/ SyncElsewhere \/ UNCHANGED vars
    BY <1>5 DEF newsVars
  <2> QED
    BY <2>1, OthersMap
<1>6. CASE ProcessDies
  BY <1>6, DeathMaps DEF Fan!Next
<1> QED
  BY <1>1, <1>2, <1>3, <1>4, <1>5, <1>6 DEF NewsNext

\* And it starts where FanOut does.
LEMMA InitMaps == NewsInit => Fan!Init
<1> SUFFICES ASSUME NewsInit PROVE Fan!Init
  OBVIOUS
<1>1. Known(db) = [send |-> NoContent, ledger |-> [r \in Recipients |-> "none"]]
      /\ recoverable = {db} /\ active = OptedIn(db)
  BY DEF NewsInit, Known
<1>2. {Known(d) : d \in recoverable} = {Known(db)} /\ active \in SUBSET Recipients
  BY <1>1 DEF OptedIn
<1>3. Fan!Fresh
  BY DEF NewsInit, Fresh, Fan!Fresh
<1> QED
  BY <1>1, <1>2, <1>3 DEF Fan!Init

\* POST /send, with the webhook, the visitors and a restart around it, does what
\* FanOut says.
THEOREM FanOutImplemented == NewsSpec => ImplementsFanOut
<1>1. NewsInv /\ [NewsNext]_newsVars => [Fan!Next]_(Fan!vars)
  BY StepMaps
<1> QED
  BY <1>1, InitMaps, NewsInvariance, PTL DEF NewsSpec, ImplementsFanOut, Fan!Spec

------------------------------------------------------------------------------
(* So the theorems of FanOut_proofs hold of it                             *)

\* FanOut_proofs speaks of FanOut's steps by its own names.
LEMMA SameSteps ==
    ASSUME NEW c
    PROVE  Fan!Submit(c) \/ Fan!Step(c) \/ Fan!Ails(c) => P!CallStep(c)
<1> USE DEF Fan!Goto, P!Goto, Fan!stored, P!stored, Fan!local, P!local, Fan!history,
            P!history
<1>1. Fan!Begin(c) => P!Begin(c)
  BY DEF Fan!Begin, P!Begin, Fan!Enter, P!Enter
<1>2. Fan!Resume(c) => P!Resume(c)
  BY DEF Fan!Resume, P!Resume, Fan!Enter, P!Enter
<1>3. Fan!Create(c) => P!Create(c)
  BY DEF Fan!Create, P!Create, Fan!Write, P!Write, Fan!Sync, P!Sync
<1>4. Fan!SyncCreate(c) => P!SyncCreate(c)
  BY DEF Fan!SyncCreate, P!SyncCreate, Fan!Write, P!Write, Fan!Sync, P!Sync
<1>5. Fan!Snapshot(c) => P!Snapshot(c)
  BY DEF Fan!Snapshot, P!Snapshot
<1>6. Fan!Skip(c) => P!Skip(c)
  BY DEF Fan!Skip, P!Skip
<1>7. Fan!Ask(c) => P!Ask(c)
  BY DEF Fan!Ask, P!Ask
<1>8. Fan!Defer(c) => P!Defer(c)
  BY DEF Fan!Defer, P!Defer
<1>9. Fan!Admit(c) => P!Admit(c)
  BY DEF Fan!Admit, P!Admit
<1>10. Fan!RelayAccepts(c) => P!RelayAccepts(c)
  BY DEF Fan!RelayAccepts, P!RelayAccepts, Fan!RelayTakes, P!RelayTakes
<1>11. Fan!RelayRejects(c) => P!RelayRejects(c)
  BY DEF Fan!RelayRejects, P!RelayRejects
<1>12. Fan!Record(c) => P!Record(c)
  BY DEF Fan!Record, P!Record, Fan!RowFor, P!RowFor, Fan!Write, P!Write, Fan!Sync, P!Sync, Fan!Settle,
         P!Settle
<1>13. Fan!SyncRecord(c) => P!SyncRecord(c)
  BY DEF Fan!SyncRecord, P!SyncRecord, Fan!Write, P!Write, Fan!Sync, P!Sync, Fan!Settle,
         P!Settle
<1>14. Fan!Finish(c) => P!Finish(c)
  BY DEF Fan!Finish, P!Finish, Fan!Write, P!Write, Fan!Sync, P!Sync, Fan!Settle,
         P!Settle
<1>15. Fan!WriteRefused(c) => P!WriteRefused(c)
  BY DEF Fan!WriteRefused, P!WriteRefused, Fan!Drop, P!Drop, Fan!Settle, P!Settle,
         Fan!Unsynced, P!Unsynced, Fan!Fault, P!Fault
<1>16. Fan!Timeout(c) => P!Timeout(c)
  BY DEF Fan!Timeout, P!Timeout, Fan!Drop, P!Drop, Fan!Settle, P!Settle, Fan!Unsynced,
         P!Unsynced, Fan!Fault, P!Fault
<1>17. Fan!StoreFails(c) => P!StoreFails(c)
  BY DEF Fan!StoreFails, P!StoreFails, Fan!Drop, P!Drop, Fan!Settle, P!Settle,
         Fan!Unsynced, P!Unsynced, Fan!Fault, P!Fault
<1>18. Fan!SyncFails(c) => P!SyncFails(c)
  BY DEF Fan!SyncFails, P!SyncFails, Fan!Drop, P!Drop, Fan!Settle, P!Settle,
         Fan!Unsynced, P!Unsynced, Fan!Fault, P!Fault
<1>19. Fan!AnswerLost(c) => P!AnswerLost(c)
  BY DEF Fan!AnswerLost, P!AnswerLost, Fan!RelayTakes, P!RelayTakes, Fan!Fault, P!Fault
<1> QED
  BY <1>1, <1>2, <1>3, <1>4, <1>5, <1>6, <1>7, <1>8, <1>9, <1>10, <1>11, <1>12, <1>13, <1>14,
     <1>15, <1>16, <1>17, <1>18, <1>19
     DEF P!CallStep, Fan!Submit, P!Submit, Fan!Step, P!Step, Fan!Ails, P!Ails

\* Of all steps...
LEMMA SameNext == Fan!Next => P!Next
<1> USE DEF Fan!Goto, P!Goto, Fan!stored, P!stored, Fan!local, P!local, Fan!history,
            P!history
<1>1. Fan!Crash => P!Crash
  BY DEF Fan!Crash, P!Crash, Fan!Restart, P!Restart, Fan!Fault, P!Fault, Fan!Unsynced,
         P!Unsynced, Fan!Cardinality, P!Cardinality, Fan!IsFiniteSet, P!IsFiniteSet
<1>2. Fan!PowerCut => P!PowerCut
  BY DEF Fan!PowerCut, P!PowerCut, Fan!Restart, P!Restart, Fan!Fault, P!Fault,
         Fan!Unsynced, P!Unsynced, Fan!Cardinality, P!Cardinality, Fan!IsFiniteSet,
         P!IsFiniteSet
<1>3. Fan!ConsentChanges => P!ConsentChanges
  BY DEF Fan!ConsentChanges, P!ConsentChanges, Fan!Sync, P!Sync
<1>4. Fan!FaultElsewhere => P!FaultElsewhere
  BY DEF Fan!FaultElsewhere, P!FaultElsewhere, Fan!Fault, P!Fault
<1>5. Fan!SyncElsewhere => P!SyncElsewhere
  BY DEF Fan!SyncElsewhere, P!SyncElsewhere, Fan!Sync, P!Sync
<1>6. ASSUME NEW r, NEW status PROVE Fan!Report(r, status) => P!Report(r, status)
  BY DEF Fan!Report, P!Report, Fan!Write, P!Write
<1> QED
  BY <1>1, <1>2, <1>3, <1>4, <1>5, <1>6, SameSteps DEF Fan!Next, P!Next, P!CallStep

\* ...and of its specification.
LEMMA SameSpec == Fan!Spec => P!Spec
<1>1. Fan!Init => P!Init
  BY DEF Fan!Init, P!Init, Fan!Fresh, P!Fresh
<1>2. [Fan!Next]_(Fan!vars) => [P!Next]_(P!vars)
  BY SameNext DEF Fan!vars, P!vars, Fan!stored, P!stored, Fan!local, P!local, Fan!history, P!history
<1> QED
  BY <1>1, <1>2, PTL DEF Fan!Spec, P!Spec

\* What FanOut assumes of its constants is assumed here.
LEMMA SameAssumptions ==
    /\ P!CallsAssumption /\ P!ContentsAssumption /\ P!RecipientsAssumption
    /\ P!StatusesAssumption /\ P!FaultsAssumption
BY CallsAssumption, ContentsAssumption, RecipientsAssumption, StatusesAssumption, FaultsAssumption
   DEF P!CallsAssumption, P!ContentsAssumption, P!RecipientsAssumption, P!StatusesAssumption,
       P!FaultsAssumption, IsFiniteSet, P!IsFiniteSet

\* Reports, opt-ins and opt-outs beside it cost nobody a second mail, and leave no
\* delivery row without its sends row (delivery_put, send_put).
THEOREM MailsSafeHere == NewsSpec => [](MailsBounded /\ NoOrphanRows)
<1>1. P!MailsBounded => MailsBounded
  BY DEF P!MailsBounded, MailsBounded, P!Cardinality, Cardinality
<1>2. ASSUME P!NoOrphanRows
      PROVE  NoOrphanRows
  <2> SUFFICES ASSUME NEW d \in recoverable, NEW r \in Recipients, d.ledger[r] # "none"
               PROVE  d.send # NoContent
    BY DEF NoOrphanRows
  <2>1. Known(d) \in {Known(b) : b \in recoverable}
    OBVIOUS
  <2> QED
    BY <1>2, <2>1 DEF P!NoOrphanRows, Known
<1> QED
  BY <1>1, <1>2, FanOutImplemented, SameSpec, P!MailsSafe, P!RowsSafe, SameAssumptions, PTL
     DEF ImplementsFanOut

\* What /send knows of some databases tells whether all of them have a row.
LEMMA SameRows ==
    ASSUME NEW D, NEW r
    PROVE  (\A d \in {Known(b) : b \in D} : d.ledger[r] # "none") <=>
              \A d \in D : d.ledger[r] # "none"
<1> DEFINE HasRow(d) == d.ledger[r] # "none"
<1>1. \A d : HasRow(Known(d)) <=> HasRow(d)
  BY DEF Known
<1> HIDE DEF HasRow
<1>2. (\A d \in {Known(b) : b \in D} : HasRow(d)) <=> \A d \in D : HasRow(d)
  BY <1>1
<1> QED
  BY <1>2 DEF HasRow

\* A report overwrites the row of a settled recipient, and gets them no other mail.
THEOREM IdempotencyHere == NewsSpec => SettledForGood
<1> DEFINE Kept == \A r \in Recipients : P!Settled(r) => mails'[r] = mails[r] /\ P!Settled(r)'
<1>1. [Kept]_(P!vars) => [\A r \in Recipients : Settled(r) => mails'[r] = mails[r] /\ Settled(r)']_vars
  <2> SUFFICES ASSUME [Kept]_(P!vars), NEW r \in Recipients, Settled(r)
               PROVE  mails'[r] = mails[r] /\ Settled(r)'
    OBVIOUS
  <2>1. /\ P!Settled(r) <=> Settled(r)
        /\ P!Settled(r)' <=> Settled(r)'
    BY SameRows DEF P!Settled, Settled
  <2>2. CASE Kept
    BY <2>1, <2>2
  <2>3. CASE UNCHANGED P!vars
    BY <2>1, <2>3 DEF P!vars, P!stored, P!local, P!history, P!Settled
  <2> QED
    BY <2>2, <2>3
<1> QED
  BY <1>1, FanOutImplemented, SameSpec, P!Idempotency, SameAssumptions, PTL
     DEF ImplementsFanOut, SettledForGood, P!SettledForGood

------------------------------------------------------------------------------
(* One call after another: what the relay reported stays on record         *)

\* No step of a call overwrites a row that tells of a bounce or complaint.
LEMMA CallKeepsReports ==
    ASSUME NewsInv, WorkOnNone, NEW c \in Calls, CallStep(c)
    PROVE  \A r \in Recipients : Reported(db, r) => Reported(db', r)
<1> USE DEF stored, Reported
<1>1. db \in NewsDatabases /\ db \in recoverable
  BY DEF NewsInv, NewsTypeOK, HookInv
<1>2. CASE Record(c)
  <2>1. /\ db' = [db EXCEPT !.ledger[current[c]] = RowFor(outcome[c])] /\ db.ledger[current[c]] = "none"
        /\ db.ledger \in [Recipients -> Statuses]
    BY <1>1, <1>2, Shape DEF Record, Write, Goto, WorkOnNone
  <2>2. \A r \in Recipients : r # current[c] => db'.ledger[r] = db.ledger[r]
    BY <1>1, <2>1, Shape
  <2> QED
    BY <2>1, <2>2, StatusesAssumption
<1>3. CASE Create(c)
  BY <1>1, <1>3 DEF Create, Write, NewsDatabases
<1>4. CASE ~Record(c) /\ ~Create(c)
  <2>1. db' = db
    BY <1>4 DEF CallStep, Submit, Begin, Resume, Enter, Step, SyncCreate, Snapshot, Skip, Ask,
                Defer, Admit, RelayAccepts, RelayRejects, SyncRecord, Finish, WriteRefused,
                Ails, AnswerLost, RelayTakes, Timeout, StoreFails, SyncFails
  <2> QED
    BY <2>1
<1> QED
  BY <1>2, <1>3, <1>4

\* Where the webhook has put the status of its report, and not replied yet.
Told == {"logged", "deciding", "suppressed", "replying"}

\* A step of anybody that leaves consent and what was reported alone.
LEMMA QuietStatus ==
    ASSUME NewsInv, StatusInv, StoreQuiet,
           \A r \in Recipients : Reported(db, r) => Reported(db', r),
           hook' \in Told => Reported(db', report'.to)
    PROVE  StatusInv'
<1>1. SuppressionExplained'
  <2> SUFFICES ASSUME NEW d \in recoverable', NEW r \in Recipients, d.consent[r].by = "relay"
               PROVE  Reported(d, r)
    BY DEF SuppressionExplained, Reported
  <2>1. \A b \in recoverable : b.consent[r].by = "relay" => Reported(b, r)
    BY DEF StatusInv, SuppressionExplained, Reported
  <2>2. CASE d = db'
    <3>1. db.consent[r].by = "relay" /\ db \in recoverable
      BY <2>2 DEF StoreQuiet, NewsInv, HookInv
    <3> QED
      BY <2>1, <2>2, <3>1
  <2> QED
    BY <2>1, <2>2 DEF StoreQuiet
<1> QED
  BY <1>1 DEF StatusInv, Told

\* The webhook's own steps before and after it puts the status.
LEMMA HookStatus ==
    ASSUME NewsInv, StatusInv,
           \/ \E e \in Reports : Happens(e) \/ Receive(e)
           \/ SyncStatus \/ SyncSuppression \/ NothingToSuppress \/ Reply \/ HookRefused
           \/ HookFails \/ HookSyncFails \/ VisitSyncFails
           \/ SyncElsewhere /\ UNCHANGED hookVars
           \/ UNCHANGED newsVars
    PROVE  StatusInv' /\ db' = db
<1> USE DEF Happens, Receive, SyncStatus, SyncSuppression, NothingToSuppress, Reply, HookRefused,
            HookFails, HookSyncFails, VisitSyncFails, SyncElsewhere, HookEnds, Proceed,
            newsVars, hookVars
<1>1. StoreQuiet
  BY HookIsQuiet
<1>2. db' = db
  BY DEF vars, stored
<1>3. hook' \in Told => hook \in Told /\ report' = report
  BY DEF Told
<1> QED
  BY <1>1, <1>2, <1>3, QuietStatus DEF StatusInv, Told, Reported

\* The row that the webhook overwrites tells of a bounce or complaint then.
LEMMA LogStatusKeeps ==
    ASSUME NewsInv, StatusInv, LogStatus
    PROVE  StatusInv' /\ \A r \in Recipients : Reported(db, r) => Reported(db', r)
<1>1. /\ db' = [db EXCEPT !.ledger[report.to] = StatusOf(report)] /\ report' = report
      /\ db \in NewsDatabases /\ report.to \in Recipients
  BY DEF LogStatus, Write, Proceed, NewsInv, NewsTypeOK, HookInv, Reports
<1>2. StatusOf(report) \in ReportStatuses
  BY NewsStatusesAssumption DEF StatusOf
<1>3. Reported(db', report.to)
  BY <1>1, <1>2, Shape DEF Reported
<1>4. \A r \in Recipients : r # report.to => db'.ledger[r] = db.ledger[r]
  BY <1>1, Shape
<1>5. \A r \in Recipients : Reported(db, r) => Reported(db', r)
  BY <1>3, <1>4 DEF Reported
<1> QED
  BY <1>1, <1>3, <1>5, LogIsQuiet, QuietStatus

\* The row says why when the relay opts somebody out.
LEMMA SuppressStatus ==
    ASSUME NewsInv, StatusInv, Suppress
    PROVE  StatusInv' /\ db'.ledger = db.ledger
<1> DEFINE q == report.to
<1>1. /\ db \in NewsDatabases /\ db \in recoverable /\ q \in Recipients /\ Reported(db, q)
      /\ recoverable' = recoverable \cup {db'} /\ report' = report
  BY DEF Suppress, Proceed, Write, NewsInv, NewsTypeOK, HookInv, Reports, StatusInv
<1>2. /\ db'.ledger = db.ledger
      /\ \A r \in Recipients : r # q => db'.consent[r] = db.consent[r]
  BY <1>1 DEF Suppress, Write, NewsDatabases
<1> HIDE DEF q
<1>3. SuppressionExplained'
  BY <1>1, <1>2 DEF StatusInv, SuppressionExplained, Reported
<1> QED
  BY <1>1, <1>2, <1>3 DEF StatusInv, Reported, q

\* A visitor's own row takes the place of the relay's.
LEMMA VisitStatus ==
    ASSUME NewsInv, StatusInv, NEW q \in Recipients, OptIn(q) \/ OptOut(q)
    PROVE  StatusInv' /\ db'.ledger = db.ledger
<1>1. PICK row : Visit(q, row) /\ row.by = "self"
  BY DEF OptIn, OptOut, OptedOut
<1>2. /\ db' = [db EXCEPT !.consent[q] = row] /\ recoverable' = recoverable \cup {db'}
      /\ hook' = hook /\ report' = report /\ db \in NewsDatabases /\ db \in recoverable
  BY <1>1 DEF Visit, Write, NewsInv, NewsTypeOK, HookInv
<1>3. /\ db'.ledger = db.ledger /\ db'.consent[q] = row
      /\ \A r \in Recipients : r # q => db'.consent[r] = db.consent[r]
  BY <1>2, Shape
<1>4. ASSUME NEW r \in Recipients, db'.consent[r].by = "relay"
      PROVE  db'.ledger[r] \in ReportStatuses
  <2>1. r # q
    BY <1>1, <1>3, <1>4
  <2> QED
    BY <1>2, <1>3, <1>4, <2>1 DEF StatusInv, SuppressionExplained
<1>5. SuppressionExplained'
  BY <1>2, <1>4 DEF StatusInv, SuppressionExplained
<1> QED
  BY <1>2, <1>3, <1>5 DEF StatusInv, Reported

\* What the old process left is as well explained as it was.
LEMMA DeathStatus ==
    ASSUME NewsInv, StatusInv, ProcessDies
    PROVE  StatusInv' /\ db' \in recoverable
<1>1. recoverable' \subseteq recoverable /\ db' \in recoverable /\ HookEnds
  BY DEF ProcessDies, Crash, PowerCut, stored, NewsInv, HookInv
<1> QED
  BY <1>1 DEF StatusInv, SuppressionExplained, HookEnds

\* So no step takes back what was reported, or leaves an opt-out unexplained.
LEMMA StatusStep ==
    ASSUME NewsInv, WorkOnNone, StatusInv, [NewsNext]_newsVars
    PROVE  /\ StatusInv'
           /\ \A r \in Recipients : (\A d \in recoverable : Reported(d, r)) => Reported(db', r)
<1>0. db \in recoverable
  BY DEF NewsInv, HookInv
<1>1. CASE \E c \in Calls : Send(c)
  <2>1. PICK c \in Calls : Send(c)
    BY <1>1
  <2>2. /\ StoreQuiet /\ \A r \in Recipients : Reported(db, r) => Reported(db', r)
        /\ hook' = hook /\ report' = report
    BY <2>1, CallIsQuiet, CallKeepsReports DEF Send, CallStep, hookVars
  <2>3. hook' \in Told => Reported(db', report'.to)
    BY <2>2 DEF StatusInv, Told, NewsInv, HookInv, Reports
  <2> QED
    BY <1>0, <2>2, <2>3, QuietStatus
<1>2. CASE \E r \in Recipients : OptIn(r) \/ OptOut(r)
  BY <1>0, <1>2, VisitStatus DEF Reported
<1>3. CASE LogStatus
  BY <1>0, <1>3, LogStatusKeeps
<1>4. CASE Suppress
  BY <1>0, <1>4, SuppressStatus DEF Reported
<1>5. CASE \/ \E e \in Reports : Happens(e) \/ Receive(e)
           \/ SyncStatus \/ SyncSuppression \/ NothingToSuppress \/ Reply \/ HookRefused
           \/ HookFails \/ HookSyncFails \/ VisitSyncFails
           \/ SyncElsewhere /\ UNCHANGED hookVars
           \/ UNCHANGED newsVars
  BY <1>0, <1>5, HookStatus
<1>6. CASE ProcessDies
  BY <1>6, DeathStatus
<1> QED
  BY <1>1, <1>2, <1>3, <1>4, <1>5, <1>6 DEF NewsNext, Webhook

\* In FanOut the only call works on a recipient who has no row anywhere.
LEMMA AloneHere ==
    ASSUME SerialCalls
    PROVE  NewsSpec => []WorkOnNone
<1>1. P!SerialLedgerInv => WorkOnNone
  <2>1. P!SerialLedgerInv => P!WorkOnNone
    BY DEF P!SerialLedgerInv
  <2>2. ASSUME P!WorkOnNone, NEW c \in Calls, NEW d \in recoverable
        PROVE  /\ pc[c] \in {"reserving", "mailing", "answered"} => d.ledger[current[c]] = "none"
               /\ pc[c] = "inserted" =>
                     d.ledger[current[c]] \in {"none", RowFor(outcome[c])} \cup ReportStatuses
    <3>1. Known(d) \in {Known(b) : b \in recoverable} /\ Known(d).ledger = d.ledger
      BY DEF Known
    <3> QED
      BY <2>2, <3>1 DEF P!WorkOnNone, P!RowFor, RowFor
  <2> QED
    BY <2>1, <2>2 DEF WorkOnNone
<1>2. P!SerialCalls
  BY DEF SerialCalls, P!SerialCalls
<1> QED
  BY <1>1, <1>2, FanOutImplemented, SameSpec, P!SerialInvariance, SameAssumptions, PTL
     DEF ImplementsFanOut

\* The accounts of one call after another, with the webhook beside it: a row tells
\* the truth until it is overwritten, and the content is settled (delivery_put).
THEOREM LedgerHere ==
    ASSUME SerialCalls
    PROVE  NewsSpec => []LedgerIsTrue /\ ContentSettled
<1>1. P!SerialCalls
  BY DEF SerialCalls, P!SerialCalls
<1>2. ASSUME P!LedgerIsTrue
      PROVE  LedgerIsTrue
  <2> SUFFICES ASSUME NEW d \in recoverable, NEW r \in Recipients
               PROVE  /\ d.ledger[r] = "sent" => mails[r] > 0
                      /\ d.ledger[r] = "failed" =>
                            mails[r] = cut[r] \/ (r \in unheard /\ mails[r] = cut[r] + 1)
    BY DEF LedgerIsTrue
  <2>1. Known(d) \in {Known(b) : b \in recoverable} /\ Known(d).ledger = d.ledger
    BY DEF Known
  <2> QED
    BY <1>2, <2>1 DEF P!LedgerIsTrue
<1> DEFINE Kept == P!OnRecord => /\ Known(db)'.send = Known(db).send
                                 /\ mailed' \subseteq mailed \cup {Known(db).send}
<1>3. [Kept]_(P!vars) =>
        [OnRecord => db'.send = db.send /\ mailed' \subseteq mailed \cup {db.send}]_vars
  <2> SUFFICES ASSUME [Kept]_(P!vars), OnRecord
               PROVE  db'.send = db.send /\ mailed' \subseteq mailed \cup {db.send}
    OBVIOUS
  <2>1. Known(db).send = db.send /\ Known(db)'.send = db'.send
    BY DEF Known
  <2>2. P!OnRecord
    BY DEF P!OnRecord, OnRecord, Known
  <2>3. CASE UNCHANGED P!vars
    BY <2>1, <2>3 DEF P!vars, P!stored, P!history
  <2> QED
    BY <2>1, <2>2, <2>3
<1> QED
  BY <1>1, <1>2, <1>3, FanOutImplemented, SameSpec, P!LedgerSafe, P!ContentSafe,
     SameAssumptions, PTL DEF ImplementsFanOut, ContentSettled, P!ContentSettled

\* One call after another: every opt-out by the relay is explained, and the status
\* that the webhook has put is not overwritten while it goes on.
THEOREM StatusInvariance ==
    ASSUME SerialCalls
    PROVE  NewsSpec => []StatusInv
<1>1. NewsInit => StatusInv
  BY DEF NewsInit, StatusInv, SuppressionExplained
<1>2. NewsInv /\ WorkOnNone /\ StatusInv /\ [NewsNext]_newsVars => StatusInv'
  BY StatusStep
<1> QED
  BY <1>1, <1>2, NewsInvariance, AloneHere, PTL DEF NewsSpec

\* A recipient whom the relay opted out has a delivery row that says why, whatever
\* a power cut takes back (webhooks.rs, post: delivery_put comes first).
THEOREM SuppressionSafe ==
    ASSUME SerialCalls
    PROVE  NewsSpec => []SuppressionExplained
<1>1. StatusInv => SuppressionExplained
  BY DEF StatusInv
<1> QED
  BY <1>1, StatusInvariance, PTL

\* What was reported stays reported: no retry of the send writes "sent" over it.
THEOREM ReportsSafe ==
    ASSUME SerialCalls
    PROVE  NewsSpec => ReportsStay
<1>1. NewsInv /\ WorkOnNone /\ StatusInv /\ [NewsNext]_newsVars =>
        [\A r \in Recipients :
            (\A d \in recoverable : Reported(d, r)) => Reported(db', r)]_newsVars
  BY StatusStep
<1> QED
  BY <1>1, NewsInvariance, AloneHere, StatusInvariance, PTL DEF NewsSpec, ReportsStay
=============================================================================
