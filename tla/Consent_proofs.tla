--------------------------- MODULE Consent_proofs ---------------------------
(***************************************************************************)
(* The consent of one address, for any number of parallel handlers, any    *)
(* number of writes and of power cuts: the invariant IInv of Consent and   *)
(* the safety properties it implies.  And, for handlers that write one at  *)
(* a time on a machine that keeps its power, the refinement of             *)
(* ConsentContract.                                                        *)
(***************************************************************************)
EXTENDS Consent, TLAPS

USE DEF Workers, States, Rows, NoRow, Kinds, TokenSet, Token, Jobs, NoJob, Event

\* Honouring one more generation takes nothing away from a row or a token.
LEMMA ConsentsGrow ==
    ASSUME NEW H, NEW G, H \subseteq G
    PROVE  /\ \A r : ConsentedRow(H, r) => ConsentedRow(G, r)
           /\ \A t : ConsentedToken(H, t) => ConsentedToken(G, t)
BY DEF ConsentedRow, ConsentedToken, ConsentsBefore

\* A row, or a token, of generation 0 needs no opt-in before it.
LEMMA FirstGeneration ==
    ASSUME NEW H
    PROVE  /\ \A r : r.gen = 0 /\ r.state # "Active" => ConsentedRow(H, r)
           /\ \A t : t.gen = 0 /\ t.kind # "unsubscribe" => ConsentedToken(H, t)
BY DEF ConsentedRow, ConsentedToken, ConsentsBefore

LEMMA InitIInv == Init => IInv
<1> SUFFICES ASSUME Init PROVE IInv
  OBVIOUS
<1> USE DEF Init
<1>1. row \in Rows /\ row.gen = 0 /\ row.ver = 0 /\ row.state \in {"Absent", "Pending"}
  BY DEF Init
<1>2. TypeOK
  <2>1. /\ phase \in {"booting", "purged", "serving"}
        /\ recoverable \subseteq Rows
        /\ cuts \in 0 .. MaxPowerCuts
        /\ tokens \subseteq TokenSet
        /\ acked \in Nat
        /\ honoured \subseteq Nat
        /\ leftBy \in {"nothing", "link", "relay"}
    BY <1>1, PowerAssumption
  <2>6. poisoned \in BOOLEAN
    OBVIOUS
  <2>2. aged \in BOOLEAN
    <3>1. CASE row.state = "Pending"
      BY <3>1
    <3>2. CASE row.state # "Pending"
      BY <3>2
    <3> QED
      BY <3>1, <3>2
  <2>3. pc \in [Workers -> {"idle", "decide", "inserted", "mailing"}]
    OBVIOUS
  <2>4. job \in [Workers -> Jobs]
    OBVIOUS
  <2>5. seen \in [Writers -> Rows]
    OBVIOUS
  <2> QED
    BY <1>1, <2>1, <2>2, <2>3, <2>4, <2>5, <2>6 DEF TypeOK
<1>3. JournalInv
  BY <1>1 DEF JournalInv
<1>4. ConsentInv
  <2>1. GenerationsAreConsents
    BY <1>1, FirstGeneration DEF GenerationsAreConsents
  <2>2. MailFollowsConsent
    BY DEF MailFollowsConsent
  <2>3. \A w \in Writers : ConsentedRow(honoured, seen[w])
    <3>1. \A w \in Writers : seen[w].gen = 0 /\ seen[w].state = "Absent"
      OBVIOUS
    <3> QED
      BY <3>1, FirstGeneration
  <2>4. \A w \in Workers : ConsentedToken(honoured, job[w])
    <3>1. \A w \in Workers : job[w].gen = 0 /\ job[w].kind = "none"
      OBVIOUS
    <3> QED
      BY <3>1, FirstGeneration
  <2> QED
    BY <2>1, <2>2, <2>3, <2>4 DEF ConsentInv
<1> QED
  BY <1>2, <1>3, <1>4 DEF IInv

\* A put: what the invariants need to know of the row that a writer inserts.
LEMMA PutKeeps ==
    ASSUME IInv, NEW w \in Writers, NEW r \in Rows, Put(w, r),
           honoured \subseteq honoured', honoured' \subseteq Nat,
           leftBy' \in {"nothing", "link", "relay"},
           ConsentedRow(honoured', r)
    PROVE  IInv'
<1> USE DEF Put, Goto
<1>1. /\ row' = [r EXCEPT !.ver = row.ver + 1] /\ row' \in Rows /\ row \in Rows
      /\ row'.ver = row.ver + 1
      /\ row'.gen = r.gen /\ row'.state = r.state
      /\ recoverable' = recoverable \cup {row'}
      /\ seen' = [seen EXCEPT ![w] = row']
      /\ acked' = acked /\ job' = job /\ tokens' = tokens
  BY DEF IInv, TypeOK, Write
<1>2. TypeOK'
  BY <1>1 DEF IInv, TypeOK
<1>3. JournalInv'
  <2>1. \A s \in recoverable' : s.ver \in acked' .. row'.ver
    BY <1>1 DEF IInv, TypeOK, JournalInv
  <2>2. \A v \in Writers : pc'[v] = "inserted" => seen'[v].ver <= row'.ver
    BY <1>1 DEF IInv, TypeOK, JournalInv
  <2> QED
    BY <1>1, <2>1, <2>2 DEF JournalInv
<1>4. ConsentInv'
  <2>1. ConsentedRow(honoured', row')
    BY <1>1 DEF ConsentedRow
  <2>2. GenerationsAreConsents'
    BY <1>1, <2>1, ConsentsGrow DEF IInv, ConsentInv, GenerationsAreConsents
  <2>3. MailFollowsConsent'
    BY <1>1, ConsentsGrow DEF IInv, ConsentInv, MailFollowsConsent
  <2>4. \A v \in Writers : ConsentedRow(honoured', seen'[v])
    BY <1>1, <2>1, ConsentsGrow DEF IInv, TypeOK, ConsentInv
  <2>5. \A v \in Workers : ConsentedToken(honoured', job'[v])
    BY <1>1, ConsentsGrow DEF IInv, TypeOK, ConsentInv
  <2>6. \A v \in Workers : pc'[v] = "mailing" => job'[v] \in TokenSet
    BY <1>1 DEF IInv, TypeOK, ConsentInv
  <2> QED
    BY <2>2, <2>3, <2>4, <2>5, <2>6 DEF ConsentInv
<1> QED
  BY <1>2, <1>3, <1>4 DEF IInv

\* A step that changes neither the row nor what was ever honoured: what the
\* invariants need to know of its tokens, jobs and rows read.
LEMMA QuietKeeps ==
    ASSUME IInv, TypeOK',
           row' = row, recoverable' \subseteq recoverable, row \in recoverable',
           acked' \in Nat, \A s \in recoverable' : acked' <= s.ver,
           honoured' = honoured,
           \A t \in tokens' : ConsentedToken(honoured, t),
           \A w \in Writers : seen'[w] \in recoverable \/ seen'[w] = seen[w] \/ seen'[w] = NoRow,
           \A w \in Writers : pc'[w] = "inserted" => pc[w] = "inserted" /\ seen'[w] = seen[w],
           \A w \in Workers : ConsentedToken(honoured, job'[w]),
           \A w \in Workers : pc'[w] = "mailing" => job'[w] \in TokenSet
    PROVE  IInv'
<1>1. JournalInv'
  BY DEF IInv, TypeOK, JournalInv
<1>2. ConsentInv'
  <2>1. \A w \in Writers : ConsentedRow(honoured, seen'[w])
    <3> SUFFICES ASSUME NEW w \in Writers PROVE ConsentedRow(honoured, seen'[w])
      OBVIOUS
    <3>1. CASE seen'[w] \in recoverable
      BY <3>1 DEF IInv, ConsentInv, GenerationsAreConsents
    <3>2. CASE seen'[w] = seen[w]
      BY <3>2 DEF IInv, ConsentInv
    <3>3. CASE seen'[w] = NoRow
      <4>1. seen'[w].gen = 0 /\ seen'[w].state # "Active"
        BY <3>3
      <4> QED
        BY <4>1, FirstGeneration
    <3> QED
      BY <3>1, <3>2, <3>3
  <2>2. GenerationsAreConsents'
    BY DEF IInv, ConsentInv, GenerationsAreConsents
  <2>3. MailFollowsConsent'
    BY DEF MailFollowsConsent
  <2> QED
    BY <2>1, <2>2, <2>3 DEF ConsentInv
<1> QED
  BY <1>1, <1>2 DEF IInv

\* A job that is over leaves nothing to account for.
LEMMA NoJobIsConsented == ConsentedToken(honoured, NoJob)
<1>1. NoJob.gen = 0 /\ NoJob.kind = "none"
  OBVIOUS
<1> QED
  BY <1>1, FirstGeneration

\* Starting on a token that was mailed, or on an event.
LEMMA SubmitKeeps ==
    ASSUME IInv, NEW w \in Writers, NEW t \in Jobs, Submit(w, t), ConsentedToken(honoured, t)
    PROVE  IInv'
<1> USE DEF Submit, Goto, Serving, history
<1>1. TypeOK'
  BY DEF IInv, TypeOK
<1>2. \A v \in Writers : seen'[v] \in recoverable \/ seen'[v] = seen[v]
  BY DEF IInv, TypeOK, JournalInv
<1>3. \A v \in Writers : pc'[v] = "inserted" => pc[v] = "inserted" /\ seen'[v] = seen[v]
  BY DEF IInv, TypeOK
<1>4. \A v \in Workers : ConsentedToken(honoured, job'[v])
  BY DEF IInv, TypeOK, ConsentInv
<1>5. \A v \in Workers : pc'[v] = "mailing" => job'[v] \in TokenSet
  BY DEF IInv, TypeOK, ConsentInv
<1>6. /\ \A s \in recoverable' : acked' <= s.ver
      /\ acked' \in Nat
      /\ row \in recoverable'
      /\ \A u \in tokens' : ConsentedToken(honoured, u)
  BY DEF IInv, TypeOK, JournalInv, ConsentInv, MailFollowsConsent
<1> QED
  BY <1>1, <1>2, <1>3, <1>4, <1>5, <1>6, QuietKeeps

\* A handler is done, without having written or with its write synced.
LEMMA DoneKeeps ==
    ASSUME IInv, NEW w \in Writers, NEW from, Done(w, from), ForgetRow(w),
           UNCHANGED <<phase, row, cuts, aged, tokens, honoured, leftBy>>,
           poisoned' \in BOOLEAN, acked' \in Nat,
           recoverable' \subseteq recoverable, row \in recoverable',
           \A s \in recoverable' : acked' <= s.ver
    PROVE  IInv'
<1> USE DEF Done, Goto, ForgetRow
<1>1. TypeOK'
  BY DEF IInv, TypeOK
<1>2. \A v \in Writers : seen'[v] = seen[v] \/ seen'[v] = NoRow
  BY DEF IInv, TypeOK
<1>3. \A v \in Writers : pc'[v] = "inserted" => pc[v] = "inserted" /\ seen'[v] = seen[v]
  BY DEF IInv, TypeOK
<1>4. \A v \in Workers : ConsentedToken(honoured, job'[v])
  BY NoJobIsConsented DEF IInv, TypeOK, ConsentInv
<1>5. \A v \in Workers : pc'[v] = "mailing" => job'[v] \in TokenSet
  BY DEF IInv, TypeOK, ConsentInv
<1>6. \A u \in tokens' : ConsentedToken(honoured, u)
  BY DEF IInv, ConsentInv, MailFollowsConsent
<1> QED
  BY <1>1, <1>2, <1>3, <1>4, <1>5, <1>6, QuietKeeps

\* What an opt-out makes of a row.
LEMMA OptedOutRow ==
    ASSUME NEW r \in Rows
    PROVE  /\ OptedOut(r) \in Rows
           /\ OptedOut(r).gen = r.gen + 1 /\ OptedOut(r).state = "Unsubscribed"
           /\ r.gen \in Nat
<1> DEFINE x == [r EXCEPT !.gen = r.gen + 1]
<1>1. r.gen + 1 \in Nat
  OBVIOUS
<1>2. x \in Rows /\ x.gen = r.gen + 1
  BY <1>1
<1>3. OptedOut(r) = [x EXCEPT !.state = "Unsubscribed"]
  BY DEF OptedOut
<1> HIDE DEF x
<1> QED
  BY <1>1, <1>2, <1>3

\* A writer's handler, step by step.
LEMMA WriterKeeps ==
    ASSUME IInv, NEW w \in Writers, Writer(w)
    PROVE  IInv'
<1>1. ASSUME NEW t \in tokens, Submit(w, t) PROVE IInv'
  <2>1. t \in Jobs /\ ConsentedToken(honoured, t)
    BY DEF IInv, TypeOK, ConsentInv, MailFollowsConsent
  <2> QED
    BY <1>1, <2>1, SubmitKeeps
<1>2. CASE ReportEvent(w)
  <2>1. Event \in Jobs
    OBVIOUS
  <2>2. Event.gen = 0 /\ Event.kind = "event"
    OBVIOUS
  <2>3. ConsentedToken(honoured, Event)
    BY <2>2, FirstGeneration
  <2>4. Submit(w, Event)
    BY <1>2 DEF ReportEvent
  <2> QED
    BY <2>1, <2>3, <2>4, SubmitKeeps
<1>3. CASE Confirm(w)
  <2> DEFINE r == [seen[w] EXCEPT !.state = "Active", !.gen = job[w].gen]
  <2>1. /\ r \in Rows /\ r.gen = job[w].gen /\ r.state = "Active"
        /\ job[w].gen \in Nat
    BY DEF IInv, TypeOK
  <2>2. /\ Put(w, r)
        /\ honoured' = honoured \cup {job[w].gen}
        /\ leftBy' = leftBy
    BY <1>3 DEF Confirm
  <2>3. ConsentedRow(honoured', r)
    <3>1. ConsentsBefore(honoured, job[w].gen)
      BY DEF IInv, ConsentInv, ConsentedToken
    <3> HIDE DEF r
    <3> QED
      BY <3>1, <2>1, <2>2 DEF ConsentedRow, ConsentsBefore
  <2>4. /\ honoured \subseteq honoured' /\ honoured' \subseteq Nat
        /\ leftBy' \in {"nothing", "link", "relay"}
    BY <2>1, <2>2 DEF IInv, TypeOK
  <2> HIDE DEF r
  <2> QED
    BY <2>1, <2>2, <2>3, <2>4, PutKeeps
<1>4. ASSUME seen[w].gen \in honoured, Put(w, OptedOut(seen[w])),
             honoured' = honoured, leftBy' \in {"link", "relay"}
      PROVE  IInv'
  <2>0. seen[w] \in Rows
    BY DEF IInv, TypeOK
  <2>1. /\ OptedOut(seen[w]) \in Rows
        /\ OptedOut(seen[w]).gen = seen[w].gen + 1
        /\ OptedOut(seen[w]).state = "Unsubscribed"
        /\ seen[w].gen \in Nat
    BY <2>0, OptedOutRow
  <2>2. ConsentsBefore(honoured, seen[w].gen)
    BY DEF IInv, ConsentInv, ConsentedRow
  <2>3. ConsentedRow(honoured', OptedOut(seen[w]))
    BY <1>4, <2>1, <2>2 DEF ConsentedRow, ConsentsBefore
  <2>4. honoured' \subseteq Nat
    BY <1>4 DEF IInv, TypeOK
  <2> QED
    BY <1>4, <2>1, <2>3, <2>4, PutKeeps
<1>5. CASE Unsubscribe(w)
  <2>1. job[w].gen \in honoured /\ job[w].gen = seen[w].gen
    BY <1>5 DEF Unsubscribe, UnsubscribePuts, IInv, ConsentInv, ConsentedToken
  <2> QED
    BY <1>4, <1>5, <2>1 DEF Unsubscribe
<1>6. CASE Suppress(w)
  <2>1. seen[w].gen \in honoured
    BY <1>6 DEF Suppress, SuppressPuts, IInv, ConsentInv, ConsentedRow
  <2> QED
    BY <1>4, <1>6, <2>1 DEF Suppress
<1>7. CASE NothingToDo(w) \/ InsertFails(w) \/ SyncFails(w)
  <2>1. PICK from : Done(w, from)
    BY <1>7 DEF NothingToDo, InsertFails, SyncFails
  <2>2. /\ ForgetRow(w)
        /\ UNCHANGED <<phase, row, cuts, aged, tokens, honoured, leftBy>>
        /\ acked' = acked /\ recoverable' = recoverable
        /\ poisoned' \in BOOLEAN
    BY <1>7 DEF NothingToDo, InsertFails, SyncFails, history, IInv, TypeOK
  <2>3. /\ row \in recoverable /\ acked \in Nat
        /\ \A s \in recoverable : acked <= s.ver
    BY DEF IInv, TypeOK, JournalInv
  <2> QED
    BY <2>1, <2>2, <2>3, DoneKeeps
<1>8. CASE Acknowledge(w)
  <2> USE DEF Acknowledge, Sync
  <2>1. Done(w, "inserted") /\ pc[w] = "inserted"
    BY <1>8 DEF Done, Goto
  <2>2. /\ ForgetRow(w)
        /\ UNCHANGED <<phase, row, cuts, aged, tokens, honoured, leftBy>>
        /\ poisoned' \in BOOLEAN
        /\ recoverable' = {row}
    BY <1>8 DEF IInv, TypeOK
  <2>3. seen[w].ver <= row.ver /\ acked <= row.ver /\ row \in recoverable
    BY <2>1 DEF IInv, JournalInv, TypeOK
  <2>4. acked' \in Nat /\ acked' <= row.ver
    BY <1>8, <2>3 DEF IInv, TypeOK
  <2> QED
    BY <2>1, <2>2, <2>3, <2>4, DoneKeeps
<1> QED
  BY <1>1, <1>2, <1>3, <1>5, <1>6, <1>7, <1>8 DEF Writer

\* The handlers that mail tokens: a token carries the generation that its
\* minter read, and an unsubscribe token that of an Active row.
LEMMA MinterKeeps ==
    ASSUME IInv, NEW m \in Minters, Minter(m)
    PROVE  IInv'
<1> USE DEF Goto, Serving, history
<1>0. m \notin Writers
  BY WorkersAssumption
<1>1. /\ row \in recoverable /\ acked \in Nat /\ row \in Rows
      /\ \A s \in recoverable : acked <= s.ver
  BY DEF IInv, TypeOK, JournalInv
<1>2. ASSUME NEW t \in TokenSet, Mint(m, t), ConsentedToken(honoured, t)
      PROVE  IInv'
  <2> USE DEF Mint
  <2>1. TypeOK'
    BY <1>2 DEF IInv, TypeOK
  <2>2. \A w \in Writers : seen'[w] = seen[w] /\ pc'[w] = pc[w]
    BY <1>0, <1>2 DEF IInv, TypeOK
  <2>3. \A w \in Workers : ConsentedToken(honoured, job'[w])
    BY <1>2 DEF IInv, TypeOK, ConsentInv
  <2>4. \A w \in Workers : pc'[w] = "mailing" => job'[w] \in TokenSet
    BY <1>2 DEF IInv, TypeOK, ConsentInv
  <2>5. \A u \in tokens' : ConsentedToken(honoured, u)
    BY <1>2 DEF IInv, ConsentInv, MailFollowsConsent
  <2>6. UNCHANGED <<row, recoverable, acked, honoured>>
    BY <1>2
  <2> QED
    BY <1>1, <2>1, <2>2, <2>3, <2>4, <2>5, <2>6, QuietKeeps
<1>3. ConsentedRow(honoured, row)
  BY <1>1 DEF IInv, ConsentInv, GenerationsAreConsents
<1>4. CASE Subscribe(m)
  <2>1. /\ Token("confirm", row.gen) \in TokenSet
        /\ Token("confirm", row.gen).gen = row.gen
        /\ Token("confirm", row.gen).kind = "confirm"
    BY <1>1
  <2>2. ConsentedToken(honoured, Token("confirm", row.gen))
    BY <1>3, <2>1 DEF ConsentedRow, ConsentedToken
  <2> QED
    BY <1>2, <1>4, <2>1, <2>2 DEF Subscribe
<1>5. CASE Snapshot(m)
  <2>1. /\ Token("unsubscribe", row.gen) \in TokenSet
        /\ Token("unsubscribe", row.gen).gen = row.gen
    BY <1>1
  <2>2. ConsentedToken(honoured, Token("unsubscribe", row.gen))
    BY <1>3, <1>5, <2>1 DEF ConsentedRow, ConsentedToken, Snapshot, MailedTo
  <2> QED
    BY <1>2, <1>5, <2>1, <2>2 DEF Snapshot
<1>6. CASE Mail(m) \/ NotMailed(m)
  <2>1. /\ Done(m, "mailing") /\ pc[m] = "mailing"
        /\ UNCHANGED <<phase, poisoned, row, recoverable, cuts, aged, seen,
                       acked, honoured, leftBy>>
        /\ tokens' \subseteq tokens \cup {job[m]}
    BY <1>6 DEF Mail, NotMailed, Done
  <2>2. job[m] \in TokenSet /\ ConsentedToken(honoured, job[m])
    BY <2>1 DEF IInv, ConsentInv
  <2> USE DEF Done
  <2>3. TypeOK'
    BY <2>1, <2>2 DEF IInv, TypeOK
  <2>4. \A w \in Writers : seen'[w] = seen[w] /\ pc'[w] = pc[w]
    BY <1>0, <2>1 DEF IInv, TypeOK
  <2>5. \A w \in Workers : ConsentedToken(honoured, job'[w])
    BY <2>1, NoJobIsConsented DEF IInv, TypeOK, ConsentInv
  <2>6. \A w \in Workers : pc'[w] = "mailing" => job'[w] \in TokenSet
    BY <2>1 DEF IInv, TypeOK, ConsentInv
  <2>7. \A u \in tokens' : ConsentedToken(honoured, u)
    BY <2>1, <2>2 DEF IInv, ConsentInv, MailFollowsConsent
  <2> QED
    BY <1>1, <2>1, <2>3, <2>4, <2>5, <2>6, <2>7, QuietKeeps
<1> QED
  BY <1>4, <1>5, <1>6 DEF Minter

\* Boot, the purge of a legacy Pending row, the clock, another handler's sync.
LEMMA MainKeeps ==
    ASSUME IInv, Main \/ Age \/ SyncElsewhere
    PROVE  IInv'
<1> USE DEF served, history
<1>1. /\ row \in recoverable /\ acked \in Nat /\ row \in Rows
      /\ \A s \in recoverable : acked <= s.ver /\ s.ver <= row.ver
  BY DEF IInv, TypeOK, JournalInv
<1>2. CASE PurgePending
  <2>1. /\ row' = [NoRow EXCEPT !.ver = row.ver + 1]
        /\ recoverable' = recoverable \cup {row'}
        /\ phase' = "purged"
        /\ UNCHANGED <<poisoned, cuts, aged, tokens, pc, job, seen, acked, honoured, leftBy>>
    BY <1>2 DEF PurgePending, Write
  <2>2. /\ row' \in Rows /\ row'.ver = row.ver + 1 /\ row.ver \in Nat
        /\ row'.gen = 0 /\ row'.state # "Active"
    BY <1>1, <2>1
  <2>3. TypeOK'
    BY <2>1, <2>2 DEF IInv, TypeOK
  <2>4. JournalInv'
    <3>1. \A s \in recoverable' : s.ver \in acked' .. row'.ver
      BY <1>1, <2>1, <2>2 DEF IInv, TypeOK, JournalInv
    <3>2. \A w \in Writers : pc'[w] = "inserted" => seen'[w].ver <= row'.ver
      BY <2>1, <2>2 DEF IInv, TypeOK, JournalInv
    <3> QED
      BY <2>1, <3>1, <3>2 DEF JournalInv
  <2>5. ConsentedRow(honoured, row')
    BY <2>2, FirstGeneration
  <2>6. ConsentInv'
    BY <2>1, <2>5 DEF IInv, ConsentInv, GenerationsAreConsents, MailFollowsConsent
  <2> QED
    BY <2>3, <2>4, <2>6 DEF IInv
<1>3. CASE SyncPurge \/ NothingToPurge \/ Age \/ SyncElsewhere
  <2>1. /\ UNCHANGED <<poisoned, row, cuts, tokens, pc, job, seen, acked, honoured, leftBy>>
        /\ recoverable' \subseteq recoverable /\ row \in recoverable'
        /\ phase' \in {phase, "serving"} /\ aged' \in {aged, TRUE}
    BY <1>1, <1>3 DEF SyncPurge, NothingToPurge, Age, SyncElsewhere, Sync
  <2>2. TypeOK'
    BY <2>1 DEF IInv, TypeOK
  <2>3. /\ \A t \in tokens' : ConsentedToken(honoured, t)
        /\ \A w \in Workers : ConsentedToken(honoured, job'[w])
        /\ \A w \in Workers : pc'[w] = "mailing" => job'[w] \in TokenSet
    BY <2>1 DEF IInv, ConsentInv, MailFollowsConsent
  <2> QED
    BY <1>1, <2>1, <2>2, <2>3, QuietKeeps
<1> QED
  BY <1>2, <1>3 DEF Main

\* A new process, and the row that the old one left behind.
LEMMA RestartKeeps ==
    ASSUME IInv, Crash \/ PowerCut
    PROVE  IInv'
<1> USE DEF history, Restart
<1>1. /\ row' \in recoverable' /\ recoverable' \subseteq recoverable
      /\ cuts' \in 0 .. MaxPowerCuts
      /\ Restart
    BY PowerAssumption DEF Crash, PowerCut, IInv, TypeOK, JournalInv
<1>2. \A s \in recoverable' : s.ver \in acked .. row'.ver
  <2>1. CASE Crash
    BY <2>1 DEF Crash, IInv, JournalInv
  <2>2. CASE PowerCut
    <3>1. row' \in recoverable /\ recoverable' = {row'} /\ row' \in Rows
      BY <2>2 DEF PowerCut, IInv, TypeOK
    <3>2. row'.ver \in Nat /\ acked <= row'.ver /\ acked \in Nat
      BY <3>1 DEF IInv, TypeOK, JournalInv
    <3> QED
      BY <3>1, <3>2
  <2> QED
    BY <2>1, <2>2
<1>3. TypeOK'
  <2>1. /\ pc' \in [Workers -> {"idle", "decide", "inserted", "mailing"}]
        /\ job' \in [Workers -> Jobs]
        /\ seen' \in [Writers -> Rows]
    BY <1>1
  <2>2. phase' \in {"booting", "purged", "serving"} /\ poisoned' = FALSE
    BY <1>1
  <2> QED
    BY <1>1, <2>1, <2>2 DEF IInv, TypeOK
<1>4. /\ \A w \in Workers : pc'[w] = "idle" /\ job'[w] = NoJob
      /\ \A w \in Writers : pc'[w] = "idle" /\ seen'[w] = NoRow
      /\ acked' = acked /\ honoured' = honoured /\ tokens' = tokens
  BY <1>1
<1>5. JournalInv'
  BY <1>1, <1>2, <1>4 DEF JournalInv
<1>6. ConsentInv'
  <2>1. NoRow.gen = 0 /\ NoRow.state = "Absent"
    OBVIOUS
  <2>2. \A w \in Writers : ConsentedRow(honoured, seen'[w])
    BY <1>4, <2>1, FirstGeneration
  <2>3. \A w \in Workers : ConsentedToken(honoured, job'[w])
    BY <1>4, NoJobIsConsented
  <2>4. GenerationsAreConsents' /\ MailFollowsConsent'
    BY <1>1, <1>4 DEF IInv, ConsentInv, GenerationsAreConsents, MailFollowsConsent
  <2> QED
    BY <1>4, <2>2, <2>3, <2>4 DEF ConsentInv
<1> QED
  BY <1>3, <1>5, <1>6 DEF IInv

LEMMA StutterKeeps == IInv /\ UNCHANGED vars => IInv'
BY DEF IInv, TypeOK, JournalInv, ConsentInv, GenerationsAreConsents, MailFollowsConsent,
       vars, served, history

\* Whatever interleaves with what, the journal and the consents stay in order.
THEOREM Invariance == Spec => []IInv
<1>1. IInv /\ [Next]_vars => IInv'
  <2> SUFFICES ASSUME IInv, [Next]_vars PROVE IInv'
    OBVIOUS
  <2>1. CASE UNCHANGED vars
    BY <2>1, StutterKeeps
  <2>2. ASSUME NEW w \in Writers, Writer(w) PROVE IInv'
    BY <2>2, WriterKeeps
  <2>3. ASSUME NEW m \in Minters, Minter(m) PROVE IInv'
    BY <2>3, MinterKeeps
  <2>4. CASE Main \/ Age \/ SyncElsewhere
    BY <2>4, MainKeeps
  <2>5. CASE Crash \/ PowerCut
    BY <2>5, RestartKeeps
  <2> QED
    BY <2>1, <2>2, <2>3, <2>4, <2>5 DEF Next
<1> QED
  BY <1>1, InitIInv, PTL DEF Spec

\* The variables keep their types, in every interleaving of the handlers.
THEOREM TypeCorrect == Spec => []TypeOK
<1>1. IInv => TypeOK
  BY DEF IInv
<1> QED
  BY <1>1, Invariance, PTL

\* No write that a handler of confirm.rs, unsubscribe.rs or webhooks.rs has
\* reported done is undone by a power cut.
THEOREM AcksSafe == Spec => []AckedIsDurable
<1>1. IInv => AckedIsDurable
  BY DEF IInv, TypeOK, JournalInv, AckedIsDurable
<1> QED
  BY <1>1, Invariance, PTL

\* However many confirms, unsubscribes and events interleave between the
\* subscriber_get and the subscriber_put of each, every generation that was
\* ended had an opt-in of its own, and so has an Active row.
THEOREM ConsentSafe == Spec => []GenerationsAreConsents
<1>1. IInv => GenerationsAreConsents
  BY DEF IInv, ConsentInv
<1> QED
  BY <1>1, Invariance, PTL

\* No newsletter is mailed at a generation that nobody opted in at, and no
\* token is ahead of the opt-ins.
THEOREM MailSafe == Spec => []MailFollowsConsent
<1>1. IInv => MailFollowsConsent
  BY DEF IInv, ConsentInv
<1> QED
  BY <1>1, Invariance, PTL
-----------------------------------------------------------------------------
(* Handlers that write one at a time, on a machine that keeps its power    *)

SeqInv == IInv /\ SerialInv

\* Then the generation of the token a writer is about to honour is the row's.
LEMMA HonouredIsCurrent ==
    ASSUME SeqInv, NEW w \in Writers, pc[w] = "decide",
           job[w].kind = "confirm", ConfirmPuts(seen[w], job[w].gen)
    PROVE  job[w] \in tokens /\ seen[w] = row /\ job[w].gen = row.gen /\ row.state # "Active"
<1>1. /\ seen[w] = row /\ job[w] \in tokens
      /\ job[w].gen \in Nat /\ row.gen \in Nat
      /\ job[w].gen <= row.gen
      /\ row.state = "Absent" => row.gen = 0
  BY DEF SeqInv, IInv, TypeOK, SerialInv
<1> QED
  BY <1>1 DEF ConfirmPuts

\* A put by the only writer: what SerialInv needs to know of the row.
LEMMA SerialPut ==
    ASSUME Serial, SeqInv, NEW w \in Writers, NEW r \in Rows, Put(w, r),
           row.gen <= r.gen, r.state \in {"Active", "Unsubscribed"}
    PROVE  SerialInv' /\ row.gen <= row'.gen
<1> USE DEF Put, Goto
<1>1. /\ row' \in Rows /\ row'.gen = r.gen /\ row'.state = r.state /\ row \in Rows
      /\ job' = job /\ tokens' = tokens /\ phase' = phase
      /\ pc[w] = "decide" /\ pc' = [pc EXCEPT ![w] = "inserted"]
  BY DEF SeqInv, IInv, TypeOK, Write
<1>2. \A v \in Workers : job[v].gen \in Nat /\ job[v].gen <= row'.gen
  BY <1>1 DEF SeqInv, IInv, TypeOK, SerialInv
<1>3. \A t \in tokens : t.gen <= row'.gen
  BY <1>1 DEF SeqInv, IInv, TypeOK, SerialInv
<1>4. \A v \in Writers : pc'[v] = "inserted"
  BY <1>1 DEF Serial, SeqInv, IInv, TypeOK
<1>5. phase = "serving"
  BY <1>1 DEF SeqInv, SerialInv
<1>6. \A v \in Workers : pc'[v] = "mailing" => v \in Minters
  BY <1>1 DEF SeqInv, IInv, TypeOK, SerialInv
<1>7. row.gen <= row'.gen
  BY <1>1
<1> QED
  BY <1>1, <1>2, <1>3, <1>4, <1>5, <1>6, <1>7 DEF SerialInv

\* The three handlers that put never put a lower generation.
LEMMA SerialPuts ==
    ASSUME Serial, SeqInv, NEW w \in Writers, Confirm(w) \/ Unsubscribe(w) \/ Suppress(w)
    PROVE  SerialInv' /\ row.gen <= row'.gen
<1>1. pc[w] = "decide" /\ seen[w] = row /\ row \in Rows /\ job[w] \in Jobs
  BY DEF Confirm, Unsubscribe, Suppress, Put, Goto, SeqInv, SerialInv, IInv, TypeOK
<1>2. CASE Confirm(w)
  <2> DEFINE r == [seen[w] EXCEPT !.state = "Active", !.gen = job[w].gen]
  <2>1. job[w].gen = row.gen
    BY <1>1, <1>2, HonouredIsCurrent DEF Confirm
  <2>2. r \in Rows /\ r.gen = row.gen /\ r.state = "Active" /\ row.gen \in Nat
    BY <1>1, <2>1
  <2>3. Put(w, r)
    BY <1>2 DEF Confirm
  <2> HIDE DEF r
  <2>4. row.gen <= r.gen
    BY <2>2
  <2> QED
    BY <2>2, <2>3, <2>4, SerialPut
<1>3. CASE Unsubscribe(w) \/ Suppress(w)
  <2>1. /\ OptedOut(seen[w]) \in Rows /\ OptedOut(seen[w]).state = "Unsubscribed"
        /\ row.gen <= OptedOut(seen[w]).gen
    BY <1>1, OptedOutRow
  <2>2. Put(w, OptedOut(seen[w]))
    BY <1>3 DEF Unsubscribe, Suppress
  <2> QED
    BY <2>1, <2>2, SerialPut
<1> QED
  BY <1>2, <1>3

\* A step that leaves the row alone.
LEMMA SerialQuiet ==
    ASSUME SeqInv, row' = row, honoured' = honoured,
           \A t \in tokens' : t.gen <= row.gen,
           \A w \in Workers : job'[w].gen <= row.gen,
           \A w \in Workers : pc'[w] = "mailing" => w \in Minters,
           \A w \in Writers : pc'[w] = "decide" =>
               seen'[w] = row /\ (job'[w].kind \in Kinds => job'[w] \in tokens'),
           phase' # "serving" => \A w \in Workers : pc'[w] = "idle"
    PROVE  SerialInv' /\ row.gen <= row'.gen
BY DEF SeqInv, IInv, TypeOK, SerialInv

\* The steps of writers that put nothing.
LEMMA SerialWaits ==
    ASSUME SeqInv, NEW w \in Writers, Writer(w),
           ~(Confirm(w) \/ Unsubscribe(w) \/ Suppress(w))
    PROVE  SerialInv' /\ row.gen <= row'.gen
<1> USE DEF Goto, history
<1>1. /\ row \in Rows /\ row.gen \in Nat
      /\ pc \in [Workers -> {"idle", "decide", "inserted", "mailing"}]
      /\ job \in [Workers -> Jobs] /\ seen \in [Writers -> Rows]
      /\ w \in Workers
  BY DEF SeqInv, IInv, TypeOK
<1>2. /\ \A t \in tokens : t.gen <= row.gen
      /\ \A v \in Workers : job[v].gen <= row.gen
      /\ \A v \in Workers : pc[v] = "mailing" => v \in Minters
      /\ \A v \in Writers : pc[v] = "decide" =>
             seen[v] = row /\ (job[v].kind \in Kinds => job[v] \in tokens)
      /\ phase # "serving" => \A v \in Workers : pc[v] = "idle"
  BY DEF SeqInv, SerialInv
<1>3. ASSUME NEW t \in Jobs, Submit(w, t), t.gen <= row.gen, t.kind \in Kinds => t \in tokens
      PROVE  SerialInv' /\ row.gen <= row'.gen
  <2> USE DEF Submit, Serving
  <2>1. row' = row /\ honoured' = honoured /\ tokens' = tokens /\ phase' = "serving"
    BY <1>3
  <2>2. \A v \in Workers : job'[v].gen <= row.gen
    BY <1>1, <1>2, <1>3
  <2>3. \A v \in Workers : pc'[v] = "mailing" => v \in Minters
    BY <1>1, <1>2, <1>3
  <2>4. \A v \in Writers : pc'[v] = "decide" =>
            seen'[v] = row /\ (job'[v].kind \in Kinds => job'[v] \in tokens')
    BY <1>1, <1>2, <1>3
  <2> QED
    BY <1>2, <2>1, <2>2, <2>3, <2>4, SerialQuiet
<1>4. ASSUME NEW t \in tokens, Submit(w, t) PROVE SerialInv' /\ row.gen <= row'.gen
  <2>1. t \in Jobs /\ t.gen <= row.gen
    BY <1>2 DEF SeqInv, IInv, TypeOK
  <2> QED
    BY <1>3, <1>4, <2>1
<1>5. CASE ReportEvent(w)
  <2>1. Event \in Jobs /\ Event.gen = 0 /\ Event.kind = "event"
    OBVIOUS
  <2> QED
    BY <1>1, <1>3, <1>5, <2>1 DEF ReportEvent
<1>6. ASSUME NEW from, Done(w, from), row' = row, honoured' = honoured, tokens' = tokens,
             phase' = phase, ForgetRow(w)
      PROVE  SerialInv' /\ row.gen <= row'.gen
  <2> USE DEF Done, ForgetRow
  <2>1. \A v \in Workers : job'[v].gen <= row.gen
    BY <1>1, <1>2, <1>6
  <2>2. \A v \in Workers : pc'[v] = "mailing" => v \in Minters
    BY <1>1, <1>2, <1>6
  <2>3. \A v \in Writers : pc'[v] = "decide" =>
            seen'[v] = row /\ (job'[v].kind \in Kinds => job'[v] \in tokens')
    BY <1>1, <1>2, <1>6
  <2>4. phase' # "serving" => \A v \in Workers : pc'[v] = "idle"
    BY <1>1, <1>2, <1>6
  <2> QED
    BY <1>2, <1>6, <2>1, <2>2, <2>3, <2>4, SerialQuiet
<1>7. CASE NothingToDo(w) \/ InsertFails(w) \/ SyncFails(w) \/ Acknowledge(w)
  <2>1. PICK from : Done(w, from)
    BY <1>7 DEF NothingToDo, InsertFails, SyncFails, Acknowledge
  <2>2. /\ row' = row /\ honoured' = honoured /\ tokens' = tokens /\ phase' = phase
        /\ ForgetRow(w)
    BY <1>7 DEF NothingToDo, InsertFails, SyncFails, Acknowledge
  <2> QED
    BY <1>6, <2>1, <2>2
<1> QED
  BY <1>4, <1>5, <1>7 DEF Writer

\* Minting and mailing: a token is never ahead of the row it was read from.
LEMMA SerialMinter ==
    ASSUME SeqInv, NEW m \in Minters, Minter(m)
    PROVE  SerialInv' /\ row.gen <= row'.gen
<1> USE DEF Goto, Serving, history, Mint, Done
<1>1. /\ row \in Rows /\ row.gen \in Nat
      /\ pc \in [Workers -> {"idle", "decide", "inserted", "mailing"}]
      /\ job \in [Workers -> Jobs]
      /\ m \in Workers /\ m \notin Writers
  BY WorkersAssumption DEF SeqInv, IInv, TypeOK
<1>2. /\ \A t \in tokens : t.gen <= row.gen
      /\ \A v \in Workers : job[v].gen <= row.gen
      /\ \A v \in Workers : pc[v] = "mailing" => v \in Minters
      /\ \A v \in Writers : pc[v] = "decide" =>
             seen[v] = row /\ (job[v].kind \in Kinds => job[v] \in tokens)
      /\ phase # "serving" => \A v \in Workers : pc[v] = "idle"
  BY DEF SeqInv, SerialInv
<1>3. ASSUME NEW t \in TokenSet, Mint(m, t), t.gen = row.gen
      PROVE  SerialInv' /\ row.gen <= row'.gen
  <2>1. row' = row /\ honoured' = honoured /\ tokens' = tokens /\ seen' = seen /\ phase' = "serving"
    BY <1>3
  <2>2. \A v \in Workers : job'[v].gen <= row.gen
    BY <1>1, <1>2, <1>3
  <2>3. \A v \in Workers : pc'[v] = "mailing" => v \in Minters
    BY <1>1, <1>2, <1>3
  <2>4. \A v \in Writers : pc'[v] = pc[v] /\ job'[v] = job[v]
    BY <1>1, <1>3
  <2> QED
    BY <1>2, <2>1, <2>2, <2>3, <2>4, SerialQuiet
<1>4. CASE Subscribe(m)
  <2>1. Token("confirm", row.gen) \in TokenSet /\ Token("confirm", row.gen).gen = row.gen
    BY <1>1
  <2> QED
    BY <1>3, <1>4, <2>1 DEF Subscribe
<1>5. CASE Snapshot(m)
  <2>1. Token("unsubscribe", row.gen) \in TokenSet /\ Token("unsubscribe", row.gen).gen = row.gen
    BY <1>1
  <2> QED
    BY <1>3, <1>5, <2>1 DEF Snapshot
<1>6. CASE Mail(m) \/ NotMailed(m)
  <2>1. /\ row' = row /\ honoured' = honoured /\ seen' = seen /\ phase' = phase
        /\ tokens' \in {tokens, tokens \cup {job[m]}}
        /\ pc[m] = "mailing" /\ pc' = [pc EXCEPT ![m] = "idle"]
        /\ job' = [job EXCEPT ![m] = NoJob]
    BY <1>6 DEF Mail, NotMailed
  <2>2. \A v \in Workers : job'[v].gen <= row.gen
    BY <1>1, <1>2, <2>1
  <2>3. \A v \in Workers : pc'[v] = "mailing" => v \in Minters
    BY <1>1, <1>2, <2>1
  <2>4. \A v \in Writers : pc'[v] = pc[v] /\ job'[v] = job[v]
    BY <1>1, <2>1
  <2>5. \A t \in tokens' : t.gen <= row.gen
    BY <1>1, <1>2, <2>1
  <2>6. phase' = "serving"
    BY <1>1, <1>2, <2>1
  <2> QED
    BY <1>2, <2>1, <2>2, <2>3, <2>4, <2>5, <2>6, SerialQuiet
<1> QED
  BY <1>4, <1>5, <1>6 DEF Minter

\* Boot, the clock, syncs and restarts, as long as the power stays on.
LEMMA SerialMain ==
    ASSUME Serial, SeqInv, Main \/ Age \/ SyncElsewhere \/ Crash \/ PowerCut
    PROVE  SerialInv' /\ row.gen <= row'.gen
<1> USE DEF served, history
<1>1. /\ row \in Rows /\ row.gen \in Nat
      /\ \A t \in tokens : t.gen \in Nat /\ t.gen <= row.gen
      /\ \A v \in Workers : job[v].gen \in Nat /\ job[v].gen <= row.gen
      /\ \A v \in Workers : pc[v] = "mailing" => v \in Minters
      /\ \A v \in Writers : pc[v] = "decide" =>
             seen[v] = row /\ (job[v].kind \in Kinds => job[v] \in tokens)
      /\ phase # "serving" => \A v \in Workers : pc[v] = "idle"
  BY DEF SeqInv, IInv, TypeOK, SerialInv
<1>2. CASE PurgePending
  <2>1. row.gen = 0 /\ honoured = {}
    BY <1>2 DEF PurgePending, SeqInv, SerialInv
  <2>2. row' = [NoRow EXCEPT !.ver = row.ver + 1]
    BY <1>2 DEF PurgePending, Write
  <2>3. row'.gen = 0 /\ row'.state = "Absent"
    BY <2>2
  <2>4. UNCHANGED <<tokens, pc, job, seen, honoured>> /\ phase = "booting"
    BY <1>2 DEF PurgePending
  <2>5. \A v \in Writers : pc'[v] # "decide"
    BY <1>1, <2>4
  <2> QED
    BY <1>1, <2>1, <2>3, <2>4, <2>5 DEF SerialInv
<1>3. CASE SyncPurge \/ NothingToPurge \/ Age \/ SyncElsewhere
  <2>1. /\ UNCHANGED <<row, tokens, pc, job, seen, honoured>>
        /\ phase' \in {phase, "serving"}
    BY <1>3 DEF SyncPurge, NothingToPurge, Age, SyncElsewhere
  <2> QED
    BY <1>1, <2>1, SerialQuiet
<1>4. CASE Crash
  <2>1. /\ UNCHANGED <<row, tokens, honoured>>
        /\ pc' = [w \in Workers |-> "idle"] /\ job' = [w \in Workers |-> NoJob]
    BY <1>4 DEF Crash, Restart
  <2>2. \A w \in Workers : pc'[w] = "idle" /\ job'[w].gen = 0
    BY <2>1
  <2> QED
    BY <1>1, <2>1, <2>2, SerialQuiet
<1>5. CASE PowerCut
  BY <1>5 DEF PowerCut, Serial, SeqInv, IInv, TypeOK
<1> QED
  BY <1>2, <1>3, <1>4, <1>5 DEF Main

\* One step, whoever takes it.
LEMMA SerialStep ==
    ASSUME Serial, SeqInv, [Next]_vars
    PROVE  SerialInv' /\ row.gen <= row'.gen
<1>1. CASE UNCHANGED vars
  BY <1>1 DEF SeqInv, IInv, TypeOK, SerialInv, vars, served, history
<1>2. ASSUME NEW w \in Writers, Writer(w) PROVE SerialInv' /\ row.gen <= row'.gen
  BY <1>2, SerialPuts, SerialWaits
<1>3. ASSUME NEW m \in Minters, Minter(m) PROVE SerialInv' /\ row.gen <= row'.gen
  BY <1>3, SerialMinter
<1>4. CASE Main \/ Age \/ SyncElsewhere \/ Crash \/ PowerCut
  BY <1>4, SerialMain
<1> QED
  BY <1>1, <1>2, <1>3, <1>4 DEF Next

\* A writer that has the row to itself decides on the row it overwrites, and no
\* mailed token is of a generation to come.
THEOREM SerialInvariance ==
    ASSUME Serial
    PROVE  Spec => []SerialInv
<1>1. Init => SerialInv
  <2> SUFFICES ASSUME Init PROVE SerialInv
    OBVIOUS
  <2>1. \A w \in Workers : pc[w] = "idle" /\ job[w].gen = 0
    BY DEF Init
  <2>2. row.gen = 0 /\ honoured = {} /\ tokens = {}
    BY DEF Init
  <2> QED
    BY <2>1, <2>2 DEF SerialInv
<1>2. IInv /\ SerialInv /\ [Next]_vars => SerialInv'
  BY SerialStep DEF SeqInv
<1> QED
  BY <1>1, <1>2, Invariance, PTL DEF Spec

\* Without a parallel writer and without a power cut, the consent generation
\* is the monotonic counter that the glossary calls it.
THEOREM GenerationsGrow ==
    ASSUME Serial
    PROVE  Spec => GenerationMonotonic
<1>1. IInv /\ SerialInv /\ [Next]_vars => [row'.gen >= row.gen]_vars
  <2> SUFFICES ASSUME IInv, SerialInv, [Next]_vars PROVE row'.gen >= row.gen
    OBVIOUS
  <2>1. row.gen <= row'.gen
    BY SerialStep DEF SeqInv
  <2> QED
    BY <2>1
<1> QED
  BY <1>1, Invariance, SerialInvariance, PTL DEF Spec, GenerationMonotonic

Invited(T) == {t.gen : t \in {u \in T : u.kind = "confirm"}}
Linked(T) == {t.gen : t \in {u \in T : u.kind = "unsubscribe"}}

\* What the contract sees of a step.
ContractStep == [Contract!ContractNext]_(Contract!contractVars)

\* A step that changes neither the row's state and generation nor the tokens.
LEMMA ContractStutter ==
    ASSUME row'.state = row.state \/ (row.state # "Active" /\ row'.state # "Active"),
           row'.gen = row.gen, UNCHANGED <<tokens, honoured, leftBy>>
    PROVE  ContractStep
BY DEF ContractStep, Contract!contractVars

\* The handlers that put: an opt-in of this epoch, or the end of one.
LEMMA ContractPuts ==
    ASSUME Serial, SeqInv, NEW w \in Writers, Confirm(w) \/ Unsubscribe(w) \/ Suppress(w)
    PROVE  ContractStep
<1>1. /\ pc[w] = "decide" /\ seen[w] = row /\ row \in Rows /\ job[w] \in Jobs
      /\ job[w].kind \in Kinds => job[w] \in tokens
  BY DEF Confirm, Unsubscribe, Suppress, Put, Goto, SeqInv, SerialInv, IInv, TypeOK
<1>2. CASE Confirm(w)
  <2> DEFINE r == [row EXCEPT !.state = "Active", !.gen = job[w].gen]
  <2>1. job[w] \in tokens /\ job[w].gen = row.gen /\ row.state # "Active"
        /\ job[w].kind = "confirm"
    BY <1>1, <1>2, HonouredIsCurrent DEF Confirm
  <2>2. r \in Rows /\ r.gen = row.gen /\ r.state = "Active"
    BY <1>1, <2>1
  <2>3. Put(w, r) /\ honoured' = honoured \cup {row.gen} /\ leftBy' = leftBy
    BY <1>1, <1>2, <2>1 DEF Confirm
  <2> HIDE DEF r
  <2>4. row'.gen = row.gen /\ row'.state = "Active" /\ tokens' = tokens
    BY <2>2, <2>3 DEF Put, Write
  <2>5. row.gen \in Invited(tokens)
    BY <2>1 DEF Invited
  <2>6. Contract!OptIn
    BY <2>1, <2>3, <2>4, <2>5 DEF Contract!OptIn, Invited
  <2> QED
    BY <2>6 DEF ContractStep, Contract!ContractNext
<1>3. ASSUME NEW by, Put(w, OptedOut(row)), row.state = "Active", leftBy' = by, honoured' = honoured
      PROVE  Contract!Leave(by)
  <2>1. /\ OptedOut(row) \in Rows /\ OptedOut(row).gen = row.gen + 1
        /\ OptedOut(row).state = "Unsubscribed"
    BY <1>1, OptedOutRow
  <2>2. row'.gen = row.gen + 1 /\ row'.state = "Unsubscribed" /\ tokens' = tokens
    BY <1>3, <2>1 DEF Put, Write
  <2> QED
    BY <1>3, <2>2 DEF Contract!Leave
<1>4. CASE Unsubscribe(w)
  <2>1. /\ job[w] \in tokens /\ job[w].kind = "unsubscribe" /\ job[w].gen = row.gen
        /\ row.state \in {"Pending", "Active"}
    BY <1>1, <1>4 DEF Unsubscribe, UnsubscribePuts
  <2>2. row.gen \in honoured
    BY <2>1 DEF SeqInv, IInv, ConsentInv, MailFollowsConsent, ConsentedToken
  <2>3. row.state = "Active"
    BY <2>1, <2>2 DEF SeqInv, SerialInv
  <2>4. row.gen \in Linked(tokens)
    BY <2>1 DEF Linked
  <2>5. Contract!Leave("link")
    BY <1>1, <1>3, <1>4, <2>3 DEF Unsubscribe
  <2>6. Contract!OptOut
    BY <2>4, <2>5 DEF Contract!OptOut, Linked
  <2> QED
    BY <2>6 DEF ContractStep, Contract!ContractNext
<1>5. CASE Suppress(w)
  <2>1. Contract!Leave("relay")
    BY <1>1, <1>3, <1>5 DEF Suppress, SuppressPuts
  <2> QED
    BY <2>1 DEF ContractStep, Contract!ContractNext, Contract!Suppressed
<1> QED
  BY <1>2, <1>4, <1>5

\* A mail goes out.
LEMMA ContractMail ==
    ASSUME SeqInv, NEW m \in Minters, Mail(m)
    PROVE  ContractStep
<1>1. /\ pc[m] = "mailing" /\ tokens' = tokens \cup {job[m]}
      /\ UNCHANGED <<row, honoured, leftBy>>
  BY DEF Mail, Done, Goto, history
<1>2. /\ job[m] \in TokenSet /\ ConsentedToken(honoured, job[m])
      /\ job[m].gen <= row.gen /\ row.gen \in Nat /\ tokens \subseteq TokenSet
  BY <1>1 DEF SeqInv, SerialInv, IInv, TypeOK, ConsentInv
<1>3. CASE job[m].kind = "confirm"
  <2>1. Invited(tokens') = Invited(tokens) \cup {job[m].gen} /\ Linked(tokens') = Linked(tokens)
    BY <1>1, <1>3 DEF Invited, Linked
  <2>2. job[m].gen \in 0 .. row.gen
    BY <1>2
  <2>3. Contract!Invite
    BY <1>1, <2>1, <2>2 DEF Contract!Invite, Invited, Linked
  <2> QED
    BY <2>3 DEF ContractStep, Contract!ContractNext
<1>4. CASE job[m].kind = "unsubscribe"
  <2>1. Linked(tokens') = Linked(tokens) \cup {job[m].gen} /\ Invited(tokens') = Invited(tokens)
    BY <1>1, <1>4 DEF Invited, Linked
  <2>2. job[m].gen \in honoured
    BY <1>2, <1>4 DEF ConsentedToken
  <2>3. Contract!MailNewsletter
    BY <1>1, <2>1, <2>2 DEF Contract!MailNewsletter, Invited, Linked
  <2> QED
    BY <2>3 DEF ContractStep, Contract!ContractNext
<1> QED
  BY <1>2, <1>3, <1>4

\* Without a parallel writer and without a power cut, the handlers of
\* confirm.rs, unsubscribe.rs, webhooks.rs, subscribe.rs and send.rs keep the
\* promise of ConsentContract: a token works in its own epoch and in no other.
THEOREM ContractRefinement ==
    ASSUME Serial
    PROVE  Spec => ImplementsContract
<1>1. Init => Contract!ContractInit
  <2> SUFFICES ASSUME Init PROVE Contract!ContractInit
    OBVIOUS
  <2>1. row.state # "Active" /\ row.gen = 0 /\ honoured = {} /\ leftBy = "nothing" /\ tokens = {}
    BY DEF Init
  <2> QED
    BY <2>1 DEF Contract!ContractInit
<1>2. IInv /\ SerialInv /\ [Next]_vars => ContractStep
  <2> SUFFICES ASSUME SeqInv, [Next]_vars PROVE ContractStep
    BY DEF SeqInv
  <2> USE DEF served, history
  <2>1. CASE UNCHANGED vars
    BY <2>1, ContractStutter DEF vars
  <2>2. ASSUME NEW w \in Writers, Writer(w) PROVE ContractStep
    <3>1. CASE Confirm(w) \/ Unsubscribe(w) \/ Suppress(w)
      BY <3>1, ContractPuts
    <3>2. CASE \E t \in tokens : Submit(w, t)
      BY <3>2, ContractStutter DEF Submit
    <3>3. CASE ReportEvent(w)
      BY <3>3, ContractStutter DEF ReportEvent, Submit
    <3>4. CASE NothingToDo(w) \/ InsertFails(w) \/ Acknowledge(w) \/ SyncFails(w)
      BY <3>4, ContractStutter DEF NothingToDo, InsertFails, Acknowledge, SyncFails
    <3> QED
      BY <2>2, <3>1, <3>2, <3>3, <3>4 DEF Writer
  <2>3. ASSUME NEW m \in Minters, Minter(m) PROVE ContractStep
    <3>1. CASE Mail(m)
      BY <3>1, ContractMail
    <3>2. CASE Subscribe(m) \/ Snapshot(m) \/ NotMailed(m)
      BY <3>2, ContractStutter DEF Subscribe, Snapshot, NotMailed, Mint
    <3> QED
      BY <2>3, <3>1, <3>2 DEF Minter
  <2>4. CASE PurgePending
    <3>1. row.state = "Pending" /\ row.gen = 0 /\ row' = [NoRow EXCEPT !.ver = row.ver + 1]
          /\ UNCHANGED <<tokens, honoured, leftBy>>
      BY <2>4 DEF PurgePending, Write, SeqInv, SerialInv
    <3>2. row'.state = "Absent" /\ row'.gen = 0
      BY <3>1
    <3> QED
      BY <3>1, <3>2, ContractStutter
  <2>5. CASE SyncPurge \/ NothingToPurge \/ Age \/ SyncElsewhere \/ Crash
    BY <2>5, ContractStutter DEF SyncPurge, NothingToPurge, Age, SyncElsewhere, Crash, Restart
  <2>6. CASE PowerCut
    BY <2>6 DEF PowerCut, Serial, SeqInv, IInv, TypeOK
  <2> QED
    BY <2>1, <2>2, <2>3, <2>4, <2>5, <2>6 DEF Next, Main
<1> QED
  BY <1>1, <1>2, Invariance, SerialInvariance, PTL
     DEF Spec, ImplementsContract, Contract!ContractSpec, ContractStep
=============================================================================
