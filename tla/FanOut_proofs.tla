---------------------------- MODULE FanOut_proofs ----------------------------
(***************************************************************************)
(* POST /send for one send_id, with any number of parallel calls, retries, *)
(* recipients and faults: the invariant IInv of FanOut, the bound on the   *)
(* mails that a recipient gets, and what a durable delivery row is worth.  *)
(***************************************************************************)
EXTENDS FanOut, FiniteSetTheorems, TLAPS

USE DEF Answers, Statuses, Outcomes, Databases, Points, RowFor

Working == {"reserving", "mailing", "answered", "inserted"}

\* Sets of calls are finite.
LEMMA CallSets ==
    ASSUME NEW S \in SUBSET Calls
    PROVE  IsFiniteSet(S) /\ Cardinality(S) \in Nat /\ Cardinality(Calls) \in Nat
           /\ Cardinality(S) <= Cardinality(Calls)
BY CallsAssumption, FS_Subset, FS_CardinalityType

\* Two sets of calls that have none in common.
LEMMA DisjointSizes ==
    ASSUME NEW S \in SUBSET Calls, NEW T \in SUBSET Calls, S \cap T = {}
    PROVE  /\ Cardinality(S) \in Nat /\ Cardinality(T) \in Nat
           /\ Cardinality(S) + Cardinality(T) <= Cardinality(Calls)
<1>1. IsFiniteSet(S) /\ IsFiniteSet(T) /\ S \cup T \in SUBSET Calls
  BY CallSets
<1>2. Cardinality(S \cup T) = Cardinality(S) + Cardinality(T) - Cardinality(S \cap T)
  BY <1>1, FS_Union
<1>3. Cardinality(S \cap T) = 0
  BY FS_EmptySet
<1> QED
  BY <1>1, <1>2, <1>3, CallSets

\* A call is about to mail a recipient or has mailed it, not both.
LEMMA Sizes ==
    ASSUME NEW r
    PROVE  /\ Cardinality(About(r)) \in Nat /\ Cardinality(Unsynced(r)) \in Nat
           /\ Cardinality(Calls) \in Nat
           /\ Cardinality(About(r)) + Cardinality(Unsynced(r)) <= Cardinality(Calls)
<1>1. About(r) \in SUBSET Calls /\ Unsynced(r) \in SUBSET Calls /\ About(r) \cap Unsynced(r) = {}
  BY DEF About, Unsynced
<1> QED
  BY <1>1, DisjointSizes, CallSets

LEMMA InitIInv == Init => IInv
<1> SUFFICES ASSUME Init PROVE IInv
  OBVIOUS
<1> USE DEF Init, Fresh
<1>1. db \in Databases /\ db.send = NoContent /\ \A r \in Recipients : db.ledger[r] = "none"
  OBVIOUS
<1>2. poisoned \in BOOLEAN
  OBVIOUS
<1>3. TypeOK
  BY <1>1, <1>2, FaultsAssumption DEF TypeOK
<1>4. WorkInv
  BY DEF WorkInv
<1>5. LedgerInv
  BY <1>1 DEF LedgerInv, NoOrphanRows
<1>6. MailInv
  <2> SUFFICES ASSUME NEW r \in Recipients
               PROVE  /\ mails[r] + Cardinality(About(r)) <= Cardinality(Calls) + cut[r]
                      /\ mails[r] <= cut[r] + Cardinality(Unsynced(r))
    BY DEF MailInv
  <2>1. mails[r] = 0 /\ cut[r] = 0
    OBVIOUS
  <2> QED
    BY <2>1, Sizes
<1> QED
  BY <1>3, <1>4, <1>5, <1>6 DEF IInv

\* The rows that a write to the database leaves.
RowsKept == \A r \in Recipients : db.ledger[r] # "none" => db'.ledger[r] # "none"

\* What a step of a call does to the databases a power cut may leave: it takes
\* some away, or adds the one it wrote.
JournalStep ==
    \/ recoverable' \subseteq recoverable
    \/ recoverable' = recoverable \cup {db'} /\ RowsKept

\* A step that mails nothing, after which fewer calls are about to mail, and
\* which settles only recipients that have a durable row.
LEMMA LessWork ==
    ASSUME IInv, UNCHANGED <<mails, cut>>, JournalStep,
           \A r \in Recipients : About(r)' \subseteq About(r),
           \A r \in Recipients : \/ Unsynced(r)' = Unsynced(r)
                                 \/ \A d \in recoverable' : d.ledger[r] # "none"
    PROVE  MailInv'
<1> SUFFICES ASSUME NEW r \in Recipients
             PROVE  /\ mails[r] + Cardinality(About(r)') <= Cardinality(Calls) + cut[r]
                    /\ \A d \in recoverable' :
                          d.ledger[r] = "none" => mails[r] <= cut[r] + Cardinality(Unsynced(r)')
  BY DEF MailInv
<1>1. About(r) \in SUBSET Calls
  BY DEF About
<1>2. Cardinality(About(r)') <= Cardinality(About(r)) /\ Cardinality(About(r)') \in Nat
  BY <1>1, CallSets, FS_Subset, FS_CardinalityType
<1>3. mails[r] \in Nat /\ cut[r] \in Nat /\ Cardinality(About(r)) \in Nat
      /\ Cardinality(Calls) \in Nat
  BY <1>1, CallSets DEF IInv, TypeOK
<1>4. mails[r] + Cardinality(About(r)') <= Cardinality(Calls) + cut[r]
  BY <1>2, <1>3 DEF IInv, MailInv
<1>5. ASSUME NEW d \in recoverable', d.ledger[r] = "none"
      PROVE  mails[r] <= cut[r] + Cardinality(Unsynced(r)')
  <2>1. Unsynced(r)' = Unsynced(r)
    BY <1>5
  <2>2. mails[r] <= cut[r] + Cardinality(Unsynced(r))
    BY <1>5 DEF IInv, MailInv, LedgerInv, JournalStep, RowsKept
  <2> QED
    BY <2>1, <2>2
<1> QED
  BY <1>4, <1>5

\* In particular, one that leaves every call with its recipient and its answer.
LEMMA SameWork ==
    ASSUME IInv, JournalStep, UNCHANGED <<current, outcome, mails, cut>>
    PROVE  MailInv'
<1>1. \A r \in Recipients : About(r)' = About(r) /\ Unsynced(r)' = Unsynced(r)
  BY DEF About, Unsynced
<1> QED
  BY <1>1, LessWork

\* The check found no row: one more call is about to mail r.
LEMMA AskMails ==
    ASSUME IInv, NEW c \in Calls, Ask(c)
    PROVE  MailInv'
<1> USE DEF Ask, Goto, stored, history
<1>1. PICK q \in todo[c] : db.ledger[q] = "none" /\ current' = [current EXCEPT ![c] = q]
  OBVIOUS
<1>2. /\ q \in Recipients /\ current[c] = NoRecipient /\ outcome[c] = "none"
      /\ current \in [Calls -> Recipients \cup {NoRecipient}]
  BY DEF IInv, TypeOK, WorkInv
<1>3. \A r \in Recipients : Unsynced(r)' = Unsynced(r)
  BY <1>1, <1>2 DEF Unsynced
<1>4. UNCHANGED <<mails, cut, db, recoverable>>
  OBVIOUS
<1> SUFFICES ASSUME NEW r \in Recipients
             PROVE  mails[r] + Cardinality(About(r)') <= Cardinality(Calls) + cut[r]
  BY <1>3, <1>4 DEF IInv, MailInv
<1>5. CASE r = q
  <2>1. mails[r] <= cut[r] + Cardinality(Unsynced(r))
    BY <1>1, <1>5 DEF IInv, MailInv, LedgerInv
  <2>2. /\ Cardinality(About(r)') \in Nat
        /\ Cardinality(About(r)') + Cardinality(Unsynced(r)) <= Cardinality(Calls)
    <3>1. About(r)' \in SUBSET Calls /\ Unsynced(r) \in SUBSET Calls
          /\ About(r)' \cap Unsynced(r) = {}
      BY <1>2 DEF About, Unsynced
    <3> QED
      BY <3>1, DisjointSizes
  <2>3. mails[r] \in Nat /\ cut[r] \in Nat /\ Cardinality(Unsynced(r)) \in Nat
        /\ Cardinality(Calls) \in Nat
    BY Sizes DEF IInv, TypeOK
  <2> QED
    BY <2>1, <2>2, <2>3
<1>6. CASE r # q
  <2>1. About(r)' = About(r)
    BY <1>1, <1>2, <1>6, RecipientsAssumption DEF About
  <2> QED
    BY <2>1 DEF IInv, MailInv
<1> QED
  BY <1>5, <1>6

\* The relay takes the mail: a call that was about to mail has a row to sync.
LEMMA AcceptMails ==
    ASSUME IInv, NEW c \in Calls, NEW result \in {"sent", "lost"}, RelayTakes(c, result)
    PROVE  MailInv'
<1> USE DEF RelayTakes, Goto, stored
<1> DEFINE q == current[c]
<1>1. /\ q \in Recipients /\ outcome[c] = "none"
      /\ current \in [Calls -> Recipients \cup {NoRecipient}]
      /\ outcome \in [Calls -> Outcomes] /\ mails \in [Recipients -> Nat]
      /\ cut \in [Recipients -> Nat]
  BY DEF IInv, TypeOK, WorkInv
<1>2. /\ outcome' = [outcome EXCEPT ![c] = result]
      /\ mails' = [mails EXCEPT ![q] = @ + 1]
      /\ UNCHANGED <<current, cut, db, recoverable>>
  OBVIOUS
<1> HIDE DEF q
<1> SUFFICES ASSUME NEW r \in Recipients
             PROVE  /\ mails'[r] + Cardinality(About(r)') <= Cardinality(Calls) + cut[r]
                    /\ \A d \in recoverable :
                          d.ledger[r] = "none" => mails'[r] <= cut[r] + Cardinality(Unsynced(r)')
  BY <1>2 DEF MailInv
<1>3. CASE r = q
  <2>1. /\ c \in About(r) /\ About(r)' = About(r) \ {c}
        /\ c \notin Unsynced(r) /\ Unsynced(r)' = Unsynced(r) \cup {c}
    BY <1>1, <1>2, <1>3 DEF About, Unsynced, q
  <2>2. IsFiniteSet(About(r)) /\ IsFiniteSet(Unsynced(r))
    <3>1. About(r) \in SUBSET Calls /\ Unsynced(r) \in SUBSET Calls
      BY DEF About, Unsynced
    <3> QED
      BY <3>1, CallSets
  <2>3. /\ Cardinality(About(r)') = Cardinality(About(r)) - 1
        /\ Cardinality(Unsynced(r)') = Cardinality(Unsynced(r)) + 1
    <3>1. Cardinality(About(r) \ {c}) = Cardinality(About(r)) - 1
      BY <2>1, <2>2, FS_RemoveElement
    <3>2. Cardinality(Unsynced(r) \cup {c}) = Cardinality(Unsynced(r)) + 1
      BY <2>1, <2>2, FS_AddElement
    <3> QED
      BY <2>1, <3>1, <3>2
  <2>4. mails'[r] = mails[r] + 1 /\ mails[r] \in Nat /\ cut[r] \in Nat
    BY <1>1, <1>2, <1>3
  <2> QED
    BY <2>3, <2>4, Sizes DEF IInv, MailInv
<1>4. CASE r # q
  <2>1. About(r)' = About(r) /\ Unsynced(r)' = Unsynced(r) /\ mails'[r] = mails[r]
    BY <1>1, <1>2, <1>4 DEF About, Unsynced, q
  <2> QED
    BY <2>1 DEF IInv, MailInv
<1> QED
  BY <1>3, <1>4

\* A call is dropped: a mail without a synced row is one that was cut short.
LEMMA CutShort ==
    ASSUME TypeOK, NEW c \in Calls, Drop(c), NEW r \in Recipients
    PROVE  /\ cut'[r] + Cardinality(Unsynced(r)') = cut[r] + Cardinality(Unsynced(r))
           /\ cut'[r] \in Nat /\ Cardinality(Unsynced(r)') \in Nat
           /\ cut[r] <= cut'[r]
<1> USE DEF Drop, Settle
<1>1. /\ current \in [Calls -> Recipients \cup {NoRecipient}]
      /\ outcome \in [Calls -> Outcomes] /\ cut \in [Recipients -> Nat]
  BY DEF TypeOK
<1>2. Unsynced(r)' = Unsynced(r) \ {c} /\ Unsynced(r) \in SUBSET Calls
  BY <1>1, RecipientsAssumption DEF Unsynced
<1>3. IsFiniteSet(Unsynced(r)) /\ Cardinality(Unsynced(r)) \in Nat
  BY <1>2, CallSets
<1>4. CASE c \in Unsynced(r)
  <2>1. cut'[r] = cut[r] + 1 /\ cut[r] \in Nat
    BY <1>1, <1>4
  <2>2. Cardinality(Unsynced(r) \ {c}) = Cardinality(Unsynced(r)) - 1
    BY <1>3, <1>4, FS_RemoveElement
  <2>3. Cardinality(Unsynced(r) \ {c}) \in Nat
    BY <1>3, FS_Subset, FS_CardinalityType
  <2> QED
    BY <1>2, <1>3, <2>1, <2>2, <2>3
<1>5. CASE c \notin Unsynced(r)
  <2>1. cut'[r] = cut[r] /\ cut[r] \in Nat /\ Unsynced(r)' = Unsynced(r)
    BY <1>1, <1>2, <1>5
  <2> QED
    BY <1>3, <2>1
<1> QED
  BY <1>4, <1>5

\* So the bound on the mails stays.
LEMMA DropMails ==
    ASSUME IInv, NEW c \in Calls, Drop(c), UNCHANGED stored
    PROVE  MailInv'
<1> SUFFICES ASSUME NEW r \in Recipients
             PROVE  /\ mails[r] + Cardinality(About(r)') <= Cardinality(Calls) + cut'[r]
                    /\ \A d \in recoverable :
                          d.ledger[r] = "none" => mails[r] <= cut'[r] + Cardinality(Unsynced(r)')
  BY DEF MailInv, Drop, stored
<1>1. About(r)' \subseteq About(r) /\ About(r) \in SUBSET Calls
  BY RecipientsAssumption DEF About, Drop, Settle, IInv, TypeOK
<1>2. Cardinality(About(r)') \in Nat /\ Cardinality(About(r)') <= Cardinality(About(r))
  BY <1>1, CallSets, FS_Subset, FS_CardinalityType
<1>3. mails[r] \in Nat /\ cut[r] \in Nat
  BY DEF IInv, TypeOK
<1> QED
  BY <1>2, <1>3, CutShort, Sizes DEF IInv, MailInv

\* So does a restart for all the calls at once.
LEMMA RestartMails ==
    ASSUME IInv, Restart, recoverable' \subseteq recoverable
    PROVE  MailInv'
<1> USE DEF Restart
<1>1. /\ mails \in [Recipients -> Nat] /\ cut \in [Recipients -> Nat]
      /\ mails' = mails /\ \A r \in Recipients : cut'[r] = cut[r] + Cardinality(Unsynced(r))
  BY DEF IInv, TypeOK
<1> SUFFICES ASSUME NEW r \in Recipients
             PROVE  /\ mails[r] + Cardinality(About(r)') <= Cardinality(Calls) + cut'[r]
                    /\ \A d \in recoverable' :
                          d.ledger[r] = "none" => mails[r] <= cut'[r] + Cardinality(Unsynced(r)')
  BY <1>1 DEF MailInv
<1>2. About(r)' = {} /\ Unsynced(r)' = {}
  BY RecipientsAssumption DEF About, Unsynced
<1>3. Cardinality(About(r)') = 0 /\ Cardinality(Unsynced(r)') = 0
  BY <1>2, FS_EmptySet
<1>4. mails[r] \in Nat /\ cut[r] \in Nat
  BY <1>1
<1> QED
  BY <1>1, <1>3, <1>4, Sizes DEF IInv, MailInv

\* Any step of any call.
CallStep(c) == Submit(c) \/ Step(c) \/ Ails(c)

\* Every variable keeps its type.
LEMMA TypeKept ==
    ASSUME IInv, NEW c \in Calls, CallStep(c)
    PROVE  TypeOK'
<1> USE DEF IInv, TypeOK, WorkInv, Goto, stored, local, history
<1>1. CASE Begin(c)
  BY <1>1 DEF Begin, Enter
<1>2. CASE Resume(c)
  BY <1>2 DEF Resume, Enter
<1>3. CASE Create(c)
  BY <1>3 DEF Create, Write
<1>4. CASE SyncCreate(c)
  BY <1>4 DEF SyncCreate, Sync
<1>5. CASE Snapshot(c)
  BY <1>5 DEF Snapshot
<1>6. CASE Skip(c)
  BY <1>6 DEF Skip
<1>7. CASE Ask(c)
  BY <1>7 DEF Ask
<1>8. CASE Defer(c)
  BY <1>8 DEF Defer
<1>9. CASE Admit(c)
  BY <1>9 DEF Admit
<1>10. CASE RelayAccepts(c)
  BY <1>10 DEF RelayAccepts, RelayTakes
<1>11. CASE RelayRejects(c)
  BY <1>11 DEF RelayRejects
<1>12. CASE Record(c)
  BY <1>12 DEF Record, Write
<1>13. CASE SyncRecord(c)
  BY <1>13 DEF SyncRecord, Sync, Settle
<1>14. CASE Finish(c)
  BY <1>14 DEF Finish
<1>15. CASE WriteRefused(c)
  BY <1>15 DEF WriteRefused, Drop, Settle
<1>16. CASE Timeout(c)
  BY <1>16, FaultsAssumption DEF Timeout, Drop, Settle, Fault
<1>17. CASE StoreFails(c)
  BY <1>17, FaultsAssumption DEF StoreFails, Drop, Settle, Fault
<1>18. CASE SyncFails(c)
  BY <1>18, FaultsAssumption DEF SyncFails, Drop, Settle, Fault
<1>19. CASE AnswerLost(c)
  BY <1>19, FaultsAssumption DEF AnswerLost, RelayTakes, Fault
<1> QED
  BY <1>1, <1>2, <1>3, <1>4, <1>5, <1>6, <1>7, <1>8, <1>9,
     <1>10, <1>11, <1>12, <1>13, <1>14, <1>15, <1>16, <1>17, <1>18, <1>19
     DEF CallStep, Submit, Step, Ails

\* A call's recipient, answer and content are there when its point says so.
LEMMA WorkKept ==
    ASSUME IInv, NEW c \in Calls, CallStep(c)
    PROVE  WorkInv'
<1> USE DEF IInv, TypeOK, WorkInv, LedgerInv, Goto, stored, local, history
<1>1. CASE Begin(c)
  BY <1>1, RecipientsAssumption, ContentsAssumption DEF Begin, Enter
<1>2. CASE Resume(c)
  BY <1>2, RecipientsAssumption, ContentsAssumption DEF Resume, Enter
<1>3. CASE Create(c)
  BY <1>3, RecipientsAssumption, ContentsAssumption DEF Create, Write
<1>4. CASE SyncCreate(c)
  BY <1>4, RecipientsAssumption, ContentsAssumption DEF SyncCreate, Sync
<1>5. CASE Snapshot(c)
  BY <1>5, RecipientsAssumption, ContentsAssumption DEF Snapshot
<1>6. CASE Skip(c)
  BY <1>6, RecipientsAssumption, ContentsAssumption DEF Skip
<1>7. CASE Ask(c)
  BY <1>7, RecipientsAssumption, ContentsAssumption DEF Ask
<1>8. CASE Defer(c)
  BY <1>8, RecipientsAssumption, ContentsAssumption DEF Defer
<1>9. CASE Admit(c)
  BY <1>9, RecipientsAssumption, ContentsAssumption DEF Admit
<1>10. CASE RelayAccepts(c)
  BY <1>10, RecipientsAssumption, ContentsAssumption DEF RelayAccepts, RelayTakes
<1>11. CASE RelayRejects(c)
  BY <1>11, RecipientsAssumption, ContentsAssumption DEF RelayRejects
<1>12. CASE Record(c)
  BY <1>12, RecipientsAssumption, ContentsAssumption DEF Record, Write
<1>13. CASE SyncRecord(c)
  BY <1>13, RecipientsAssumption, ContentsAssumption DEF SyncRecord, Sync, Settle
<1>14. CASE Finish(c)
  BY <1>14, RecipientsAssumption, ContentsAssumption DEF Finish
<1>15. CASE WriteRefused(c)
  BY <1>15, RecipientsAssumption, ContentsAssumption DEF WriteRefused, Drop, Settle
<1>16. CASE Timeout(c)
  BY <1>16, RecipientsAssumption, ContentsAssumption DEF Timeout, Drop, Settle, Fault
<1>17. CASE StoreFails(c)
  BY <1>17, RecipientsAssumption, ContentsAssumption DEF StoreFails, Drop, Settle, Fault
<1>18. CASE SyncFails(c)
  BY <1>18, RecipientsAssumption, ContentsAssumption DEF SyncFails, Drop, Settle, Fault
<1>19. CASE AnswerLost(c)
  BY <1>19, RecipientsAssumption, ContentsAssumption DEF AnswerLost, RelayTakes, Fault
<1> QED
  BY <1>1, <1>2, <1>3, <1>4, <1>5, <1>6, <1>7, <1>8, <1>9,
     <1>10, <1>11, <1>12, <1>13, <1>14, <1>15, <1>16, <1>17, <1>18, <1>19
     DEF CallStep, Submit, Step, Ails

\* Rows are written in an order in which no prefix has an orphan.
LEMMA LedgerKept ==
    ASSUME IInv, NEW c \in Calls, CallStep(c)
    PROVE  LedgerInv'
<1> USE DEF IInv, TypeOK, WorkInv, LedgerInv, NoOrphanRows, Goto, stored, local, history
<1>1. CASE Begin(c)
  BY <1>1, RecipientsAssumption, ContentsAssumption DEF Begin, Enter
<1>2. CASE Resume(c)
  BY <1>2, RecipientsAssumption, ContentsAssumption DEF Resume, Enter
<1>3. CASE Create(c)
  BY <1>3, RecipientsAssumption, ContentsAssumption DEF Create, Write
<1>4. CASE SyncCreate(c)
  BY <1>4, RecipientsAssumption, ContentsAssumption DEF SyncCreate, Sync
<1>5. CASE Snapshot(c)
  BY <1>5, RecipientsAssumption, ContentsAssumption DEF Snapshot
<1>6. CASE Skip(c)
  BY <1>6, RecipientsAssumption, ContentsAssumption DEF Skip
<1>7. CASE Ask(c)
  BY <1>7, RecipientsAssumption, ContentsAssumption DEF Ask
<1>8. CASE Defer(c)
  BY <1>8, RecipientsAssumption, ContentsAssumption DEF Defer
<1>9. CASE Admit(c)
  BY <1>9, RecipientsAssumption, ContentsAssumption DEF Admit
<1>10. CASE RelayAccepts(c)
  BY <1>10, RecipientsAssumption, ContentsAssumption DEF RelayAccepts, RelayTakes
<1>11. CASE RelayRejects(c)
  BY <1>11, RecipientsAssumption, ContentsAssumption DEF RelayRejects
<1>12. CASE Record(c)
  BY <1>12, RecipientsAssumption, ContentsAssumption DEF Record, Write
<1>13. CASE SyncRecord(c)
  BY <1>13, RecipientsAssumption, ContentsAssumption DEF SyncRecord, Sync, Settle
<1>14. CASE Finish(c)
  BY <1>14, RecipientsAssumption, ContentsAssumption DEF Finish
<1>15. CASE WriteRefused(c)
  BY <1>15, RecipientsAssumption, ContentsAssumption DEF WriteRefused, Drop, Settle
<1>16. CASE Timeout(c)
  BY <1>16, RecipientsAssumption, ContentsAssumption DEF Timeout, Drop, Settle, Fault
<1>17. CASE StoreFails(c)
  BY <1>17, RecipientsAssumption, ContentsAssumption DEF StoreFails, Drop, Settle, Fault
<1>18. CASE SyncFails(c)
  BY <1>18, RecipientsAssumption, ContentsAssumption DEF SyncFails, Drop, Settle, Fault
<1>19. CASE AnswerLost(c)
  BY <1>19, RecipientsAssumption, ContentsAssumption DEF AnswerLost, RelayTakes, Fault
<1> QED
  BY <1>1, <1>2, <1>3, <1>4, <1>5, <1>6, <1>7, <1>8, <1>9,
     <1>10, <1>11, <1>12, <1>13, <1>14, <1>15, <1>16, <1>17, <1>18, <1>19
     DEF CallStep, Submit, Step, Ails

\* No call's step takes a recipient beyond the bound.
LEMMA MailKept ==
    ASSUME IInv, NEW c \in Calls, CallStep(c)
    PROVE  MailInv'
<1> USE DEF Goto, stored, local, history
<1>0. db \in recoverable
  BY DEF IInv, LedgerInv
<1>1. CASE Begin(c) \/ Resume(c) \/ Snapshot(c) \/ Skip(c) \/ Admit(c) \/ Finish(c)
  <2>1. UNCHANGED <<current, outcome, mails, cut, recoverable>>
    BY <1>1 DEF Begin, Resume, Enter, Snapshot, Skip, Admit, Finish
  <2> QED
    BY <2>1, SameWork DEF JournalStep
<1>2. CASE SyncCreate(c)
  <2>1. UNCHANGED <<current, outcome, mails, cut>> /\ recoverable' = {db}
    BY <1>2 DEF SyncCreate, Sync
  <2> QED
    BY <1>0, <2>1, SameWork DEF JournalStep
<1>3. CASE Create(c)
  <2>1. /\ UNCHANGED <<current, outcome, mails, cut>>
        /\ recoverable' = recoverable \cup {db'}
        /\ db'.ledger = db.ledger
    BY <1>3 DEF Create, Write, IInv, TypeOK
  <2> QED
    BY <2>1, SameWork DEF JournalStep, RowsKept
<1>4. CASE Record(c)
  <2>1. /\ UNCHANGED <<current, outcome, mails, cut>>
        /\ recoverable' = recoverable \cup {db'}
        /\ db' = [db EXCEPT !.ledger[current[c]] = RowFor(outcome[c])]
    BY <1>4 DEF Record, Write
  <2>2. outcome[c] # "none" /\ db \in Databases
    BY <1>4 DEF Record, IInv, TypeOK, WorkInv
  <2>3. RowsKept
    BY <2>1, <2>2 DEF RowsKept
  <2> QED
    BY <2>1, <2>3, SameWork DEF JournalStep
<1>5. CASE Defer(c) \/ RelayRejects(c)
  <2>1. UNCHANGED <<mails, cut, recoverable>>
    BY <1>5 DEF Defer, RelayRejects
  <2>2. \A r \in Recipients : About(r)' \subseteq About(r) /\ Unsynced(r)' = Unsynced(r)
    BY <1>5, RecipientsAssumption DEF Defer, RelayRejects, About, Unsynced, IInv, TypeOK, WorkInv
  <2> QED
    BY <2>1, <2>2, LessWork DEF JournalStep
<1>6. CASE SyncRecord(c)
  <2>1. /\ UNCHANGED <<mails, cut>> /\ recoverable' = {db}
        /\ current' = [current EXCEPT ![c] = NoRecipient]
        /\ outcome' = [outcome EXCEPT ![c] = "none"]
    BY <1>6 DEF SyncRecord, Sync, Settle
  <2>2. outcome[c] # "none" /\ db.ledger[current[c]] # "none"
    BY <1>6 DEF SyncRecord, IInv, TypeOK, WorkInv
  <2>3. \A r \in Recipients : About(r)' \subseteq About(r)
    BY <2>1, RecipientsAssumption DEF About, IInv, TypeOK
  <2>4. \A r \in Recipients : \/ Unsynced(r)' = Unsynced(r)
                              \/ \A d \in recoverable' : d.ledger[r] # "none"
    <3> SUFFICES ASSUME NEW r \in Recipients, current[c] # r
                 PROVE  Unsynced(r)' = Unsynced(r)
      BY <2>1, <2>2
    <3> QED
      BY <2>1, RecipientsAssumption DEF Unsynced, IInv, TypeOK
  <2> QED
    BY <1>0, <2>1, <2>3, <2>4, LessWork DEF JournalStep
<1>7. CASE Ask(c)
  BY <1>7, AskMails
<1>8. CASE RelayAccepts(c) \/ AnswerLost(c)
  BY <1>8, AcceptMails DEF RelayAccepts, AnswerLost
<1>9. CASE WriteRefused(c) \/ Timeout(c) \/ StoreFails(c) \/ SyncFails(c)
  BY <1>9, DropMails DEF WriteRefused, Timeout, StoreFails, SyncFails
<1> QED
  BY <1>1, <1>2, <1>3, <1>4, <1>5, <1>6, <1>7, <1>8, <1>9
     DEF CallStep, Submit, Step, Ails

\* A new process, with the database that the old one left behind.
LEMMA RestartKeeps ==
    ASSUME IInv, Crash \/ PowerCut
    PROVE  IInv'
<1>1. Restart /\ recoverable' \subseteq recoverable /\ db' \in recoverable'
  BY DEF Crash, PowerCut, stored, IInv, LedgerInv
<1>2. \A c \in Calls : pc'[c] = "idle" /\ current'[c] = NoRecipient /\ outcome'[c] = "none"
  BY <1>1 DEF Restart
<1>3. TypeOK'
  <2>1. poisoned' \in BOOLEAN
    BY <1>1 DEF Restart
  <2>2. db' \in Databases /\ recoverable' \subseteq Databases
    BY <1>1 DEF IInv, TypeOK
  <2>3. /\ pc' \in [Calls -> Points]
        /\ content' \in [Calls -> Contents \cup {NoContent}]
        /\ todo' \in [Calls -> SUBSET Recipients]
        /\ current' \in [Calls -> Recipients \cup {NoRecipient}]
        /\ outcome' \in [Calls -> Outcomes]
    BY <1>1 DEF Restart
  <2>4. cut' \in [Recipients -> Nat]
    BY <1>1, Sizes DEF Restart, IInv, TypeOK
  <2>5. faults' \in 0 .. MaxFaults /\ UNCHANGED <<mails, mailed, unheard>>
    BY <1>1, FaultsAssumption DEF Restart, Fault, IInv, TypeOK
  <2>6. active' \subseteq Recipients
    BY DEF Crash, PowerCut, IInv, TypeOK
  <2> QED
    BY <2>1, <2>2, <2>3, <2>4, <2>5, <2>6 DEF IInv, TypeOK
<1>4. WorkInv'
  BY <1>2 DEF WorkInv
<1>5. LedgerInv'
  BY <1>1, <1>2 DEF IInv, LedgerInv, NoOrphanRows
<1>6. MailInv'
  BY <1>1, RestartMails
<1> QED
  BY <1>3, <1>4, <1>5, <1>6 DEF IInv

\* Other handlers, as long as they write no delivery row, and a step of nobody.
LEMMA OthersKeep ==
    ASSUME IInv, ConsentChanges \/ FaultElsewhere \/ SyncElsewhere \/ UNCHANGED vars
    PROVE  IInv'
<1> USE DEF stored, local, history
<1>1. /\ UNCHANGED <<db, pc, content, todo, current, outcome, mails, mailed, unheard, cut>>
      /\ recoverable' \in {recoverable, {db}} /\ active' \in SUBSET Recipients
  BY DEF ConsentChanges, FaultElsewhere, SyncElsewhere, Sync, vars, IInv, TypeOK
<1>2. faults' \in 0 .. MaxFaults
  <2>1. faults' = faults \/ Fault
    BY Zenon DEF ConsentChanges, FaultElsewhere, SyncElsewhere, vars
  <2> QED
    BY <2>1, FaultsAssumption DEF Fault, IInv, TypeOK
<1>3. poisoned' \in BOOLEAN
  BY Zenon DEF ConsentChanges, FaultElsewhere, SyncElsewhere, vars, IInv, TypeOK
<1>4. db \in recoverable
  BY DEF IInv, LedgerInv
<1>5. TypeOK' /\ WorkInv' /\ LedgerInv'
  BY <1>1, <1>2, <1>3, <1>4 DEF IInv, TypeOK, WorkInv, LedgerInv, NoOrphanRows
<1>6. MailInv'
  BY <1>1, <1>4, SameWork DEF JournalStep
<1> QED
  BY <1>5, <1>6 DEF IInv

\* The webhook, which overwrites a row that is there.
LEMMA ReportKeeps ==
    ASSUME IInv, NEW r \in Recipients, NEW status \in ReportStatuses, Report(r, status)
    PROVE  IInv'
<1> USE DEF Report, Write, local, history
<1>1. /\ db' = [db EXCEPT !.ledger[r] = status] /\ recoverable' = recoverable \cup {db'}
      /\ UNCHANGED <<poisoned, active, faults, pc, content, todo, current, outcome,
                     mails, mailed, unheard, cut>>
      /\ db \in Databases /\ db.ledger[r] # "none" /\ status # "none"
  BY StatusesAssumption DEF IInv, TypeOK
<1>2. db' \in Databases /\ db'.send = db.send
      /\ \A q \in Recipients : db'.ledger[q] # "none" <=> db.ledger[q] # "none"
  BY <1>1
<1>3. TypeOK'
  BY <1>1, <1>2 DEF IInv, TypeOK
<1>4. WorkInv'
  BY <1>1, <1>2, RecipientsAssumption DEF IInv, TypeOK, WorkInv
<1>5. LedgerInv'
  BY <1>1, <1>2 DEF IInv, LedgerInv, NoOrphanRows
<1>6. MailInv'
  BY <1>1, <1>2, SameWork DEF JournalStep, RowsKept
<1> QED
  BY <1>3, <1>4, <1>5, <1>6 DEF IInv

\* Whatever interleaves, is cut short or is retried.
THEOREM Invariance == Spec => []IInv
<1>1. IInv /\ [Next]_vars => IInv'
  <2> SUFFICES ASSUME IInv, [Next]_vars PROVE IInv'
    OBVIOUS
  <2>1. ASSUME NEW c \in Calls, CallStep(c) PROVE IInv'
    BY <2>1, TypeKept, WorkKept, LedgerKept, MailKept DEF IInv
  <2>2. CASE Crash \/ PowerCut
    BY <2>2, RestartKeeps
  <2>3. CASE ConsentChanges \/ FaultElsewhere \/ SyncElsewhere \/ UNCHANGED vars
    BY <2>3, OthersKeep
  <2>4. CASE \E r \in Recipients, status \in ReportStatuses : Report(r, status)
    BY <2>4, ReportKeeps
  <2> QED
    BY <2>1, <2>2, <2>3, <2>4 DEF Next, CallStep
<1> QED
  BY <1>1, InitIInv, PTL DEF Spec

\* The variables keep their types, in every interleaving of POST /send calls.
THEOREM TypeCorrect == Spec => []TypeOK
<1>1. IInv => TypeOK
  BY DEF IInv
<1> QED
  BY <1>1, Invariance, PTL

\* The duplicates of a mail that send.rs can cause: one per parallel call, and
\* one per call that was cut short between the relay's answer and the sync of
\* the delivery row.
THEOREM MailsSafe == Spec => []MailsBounded
<1>1. IInv => MailsBounded
  <2> SUFFICES ASSUME IInv, NEW r \in Recipients
               PROVE  mails[r] <= Cardinality(Calls) + cut[r]
    BY DEF MailsBounded
  <2>1. mails[r] \in Nat /\ cut[r] \in Nat /\ Cardinality(About(r)) \in Nat
        /\ Cardinality(Calls) \in Nat
    BY Sizes DEF IInv, TypeOK
  <2> QED
    BY <2>1 DEF IInv, MailInv
<1> QED
  BY <1>1, Invariance, PTL

\* A delivery row that survives a power cut has its sends row beside it.
THEOREM RowsSafe == Spec => []NoOrphanRows
<1>1. IInv => NoOrphanRows
  BY DEF IInv, LedgerInv
<1> QED
  BY <1>1, Invariance, PTL

\* The idempotency that delivery_get and delivery_put give: a recipient with a
\* durable row, whom no call is working on, stays one and gets no more mail.
THEOREM Idempotency == Spec => SettledForGood
<1>1. IInv /\ [Next]_vars =>
        [\A r \in Recipients : Settled(r) => mails'[r] = mails[r] /\ Settled(r)']_vars
  <2> SUFFICES ASSUME IInv, Next, NEW r \in Recipients, Settled(r)
               PROVE  mails'[r] = mails[r] /\ Settled(r)'
    OBVIOUS
  <2> USE DEF stored, local, history, Goto
  <2>1. /\ db \in recoverable /\ db.ledger[r] # "none"
        /\ \A c \in Calls : current[c] # r
        /\ \A d \in recoverable : d.ledger[r] # "none"
        /\ r # NoRecipient
        /\ current \in [Calls -> Recipients \cup {NoRecipient}]
        /\ mails \in [Recipients -> Nat]
    BY RecipientsAssumption DEF Settled, IInv, LedgerInv, TypeOK
  <2>2. mails'[r] = mails[r]
    BY <2>1 DEF Next, Submit, Begin, Resume, Enter, Step, Create, SyncCreate, Snapshot, Skip, Ask,
                Defer, Admit, RelayAccepts, RelayRejects, Record, SyncRecord, Finish,
                WriteRefused, Ails, AnswerLost, RelayTakes, Timeout,
                StoreFails, SyncFails, Drop, Crash, PowerCut, Restart,
                ConsentChanges, Report, FaultElsewhere, SyncElsewhere
  <2>3. \A c \in Calls : current'[c] # r
    BY <2>1 DEF Next, Submit, Begin, Resume, Enter, Step, Create, SyncCreate, Snapshot, Skip, Ask,
                Defer, Admit, RelayAccepts, RelayRejects, Record, SyncRecord, Finish, Settle,
                WriteRefused, Ails, AnswerLost, RelayTakes, Timeout,
                StoreFails, SyncFails, Drop, Crash, PowerCut, Restart,
                ConsentChanges, Report, FaultElsewhere, SyncElsewhere
  <2>4. \A d \in recoverable' : d.ledger[r] # "none"
    <3>1. CASE \E c \in Calls : Create(c) \/ Record(c)
      <4>1. PICK c \in Calls : Create(c) \/ Record(c)
        BY <3>1
      <4>2. db'.ledger[r] # "none" /\ recoverable' = recoverable \cup {db'}
        BY <2>1, <4>1 DEF Create, Record, Write, IInv, TypeOK
      <4> QED
        BY <2>1, <4>2
    <3>2. CASE \E q \in Recipients, status \in ReportStatuses : Report(q, status)
      <4>1. PICK q \in Recipients, status \in ReportStatuses : Report(q, status)
        BY <3>2
      <4>2. db'.ledger[r] # "none" /\ recoverable' = recoverable \cup {db'}
        BY <2>1, <4>1, StatusesAssumption DEF Report, Write, IInv, TypeOK
      <4> QED
        BY <2>1, <4>2
    <3>3. CASE ~(\E c \in Calls : Create(c) \/ Record(c))
               /\ ~(\E q \in Recipients, status \in ReportStatuses : Report(q, status))
      <4>1. recoverable' \subseteq recoverable
        BY <2>1, <3>3 DEF Next, Submit, Begin, Resume, Enter, Step, SyncCreate, Sync, Snapshot,
                Skip, Ask, Defer, Admit, RelayAccepts, RelayRejects, SyncRecord, Finish,
                WriteRefused, Ails, AnswerLost, RelayTakes, Timeout,
                StoreFails, SyncFails, Drop, Crash, PowerCut, Restart,
                ConsentChanges, FaultElsewhere, SyncElsewhere
      <4> QED
        BY <2>1, <4>1
    <3> QED
      BY <3>1, <3>2, <3>3
  <2> QED
    BY <2>2, <2>3, <2>4 DEF Settled
<1> QED
  BY <1>1, Invariance, PTL DEF Spec, SettledForGood
------------------------------------------------------------------------------
(* One call after another: what the ledger says happened, happened         *)

LInv == IInv /\ SerialLedgerInv

\* A step that writes no row and leaves everybody's mails accounted for as they
\* were, wherever a row is missing or says "failed".
LEMMA NoRowWritten ==
    ASSUME LInv, UNCHANGED <<db, mails, unheard>>, recoverable' \subseteq recoverable,
           \A r \in Recipients :
              /\ Unsynced(r)' \subseteq Unsynced(r)
              /\ cut'[r] + Cardinality(Unsynced(r)') = cut[r] + Cardinality(Unsynced(r))
              /\ cut'[r] \in Nat
    PROVE  RowsAreSeen' /\ MailsAccounted'
<1> USE DEF LInv, SerialLedgerInv
<1>1. RowsAreSeen'
  BY DEF RowsAreSeen
<1>2. ASSUME NEW r \in Recipients
      PROVE  /\ AllTold(r) => AllTold(r)'
             /\ Unsynced(r) = {} => Unsynced(r)' = {} /\ cut'[r] = cut[r]
  <2>1. AllTold(r) => AllTold(r)'
    BY DEF AllTold
  <2>2. ASSUME Unsynced(r) = {} PROVE Unsynced(r)' = {} /\ cut'[r] = cut[r]
    <3>1. Unsynced(r)' = Unsynced(r) /\ cut[r] \in Nat /\ Cardinality(Unsynced(r)) = 0
      BY <2>2, FS_EmptySet DEF IInv, TypeOK
    <3> QED
      BY <2>2, <3>1
  <2> QED
    BY <2>1, <2>2
<1>3. MailsAccounted'
  BY <1>2 DEF MailsAccounted
<1> QED
  BY <1>1, <1>3

\* send_put and delivery_put: readers see the new row at once.
LEMMA RowWritten ==
    ASSUME LInv, NEW c \in Calls, Create(c) \/ Record(c)
    PROVE  RowsAreSeen' /\ MailsAccounted'
<1> USE DEF LInv, SerialLedgerInv, Goto, local, history
<1>1. /\ recoverable' = recoverable \cup {db'} /\ db \in recoverable /\ db \in Databases
      /\ UNCHANGED <<current, outcome, mails, unheard, cut>>
  BY DEF Create, Record, Write, IInv, TypeOK, LedgerInv
<1>2. \A r \in Recipients : Unsynced(r)' = Unsynced(r)
  BY <1>1 DEF Unsynced
<1>3. \A r \in Recipients : AllTold(r)' <=> AllTold(r)
  BY <1>1, <1>2 DEF AllTold
<1>4. CASE Create(c)
  <2>1. db'.ledger = db.ledger
    BY <1>1, <1>4 DEF Create, Write
  <2> QED
    BY <1>1, <1>2, <1>3, <2>1 DEF RowsAreSeen, MailsAccounted
<1>5. CASE Record(c)
  <2>1. PICK q \in Recipients :
        /\ q = current[c] /\ db.ledger[q] = "none" /\ outcome[c] \in {"sent", "failed", "lost"}
        /\ db'.ledger[q] = RowFor(outcome[c])
        /\ \A r \in Recipients \ {q} : db'.ledger[r] = db.ledger[r]
    BY <1>1, <1>5, RecipientsAssumption DEF Record, Write, WorkOnNone, IInv, TypeOK, WorkInv
  <2>2. AllTold(q) /\ mails[q] \in Nat /\ cut[q] \in Nat
    BY <1>1, <2>1 DEF MailsAccounted, IInv, TypeOK
  <2>3. outcome[c] = "sent" => mails[q] > 0
    <3> SUFFICES ASSUME outcome[c] = "sent" PROVE Cardinality(Unsynced(q)) # 0
      BY <2>2, Sizes DEF AllTold
    <3>1. c \in Unsynced(q) /\ Unsynced(q) \in SUBSET Calls
      BY <2>1 DEF Unsynced
    <3> QED
      BY <3>1, CallSets, FS_EmptySet
  <2>4. RowsAreSeen'
    BY <1>1, <2>1 DEF RowsAreSeen
  <2>5. MailsAccounted'
    <3>1. /\ db'.ledger[q] \in {"sent", "failed"} /\ AllTold(q)'
          /\ db'.ledger[q] = "sent" => mails'[q] > 0
      BY <1>1, <1>3, <2>1, <2>2, <2>3
    <3> QED
      BY <1>1, <1>2, <1>3, <2>1, <3>1 DEF MailsAccounted
  <2> QED
    BY <2>4, <2>5
<1> QED
  BY <1>4, <1>5

\* The relay takes the mail of a recipient who has no row anywhere.
LEMMA MailWritten ==
    ASSUME LInv, NEW c \in Calls, NEW result \in {"sent", "lost"}, RelayTakes(c, result),
           unheard \subseteq unheard'
    PROVE  RowsAreSeen' /\ MailsAccounted'
<1> USE DEF LInv, SerialLedgerInv, RelayTakes, Goto, stored
<1>1. PICK q \in Recipients :
      /\ q = current[c] /\ outcome[c] = "none" /\ db.ledger[q] = "none"
      /\ current \in [Calls -> Recipients \cup {NoRecipient}]
      /\ outcome \in [Calls -> Outcomes] /\ mails \in [Recipients -> Nat]
  BY RecipientsAssumption DEF IInv, TypeOK, WorkInv, WorkOnNone, LedgerInv
<1>2. /\ outcome' = [outcome EXCEPT ![c] = result]
      /\ mails' = [mails EXCEPT ![q] = @ + 1]
      /\ UNCHANGED <<current, cut, db, recoverable>>
  BY <1>1
<1>3. \A d \in recoverable : d.ledger[q] = "none"
  BY <1>1 DEF RowsAreSeen
<1>4. RowsAreSeen'
  BY <1>2 DEF RowsAreSeen
<1>5. AllTold(q)'
  <2>1. c \notin Unsynced(q) /\ Unsynced(q)' = Unsynced(q) \cup {c}
    BY <1>1, <1>2 DEF Unsynced
  <2>2. Cardinality(Unsynced(q)') = Cardinality(Unsynced(q)) + 1
    <3>1. Unsynced(q) \in SUBSET Calls
      BY DEF Unsynced
    <3> QED
      BY <2>1, <3>1, CallSets, FS_AddElement
  <2>3. mails[q] = cut[q] + Cardinality(Unsynced(q))
    BY <1>1, <1>3 DEF MailsAccounted, AllTold, LedgerInv, IInv
  <2>4. mails'[q] = mails[q] + 1 /\ cut[q] \in Nat
    BY <1>1, <1>2 DEF IInv, TypeOK
  <2> QED
    BY <1>2, <2>2, <2>3, <2>4, Sizes DEF AllTold
<1>6. ASSUME NEW r \in Recipients \ {q}
      PROVE  Unsynced(r)' = Unsynced(r) /\ mails'[r] = mails[r] /\ (AllTold(r)' <=> AllTold(r))
  <2>1. Unsynced(r)' = Unsynced(r) /\ mails'[r] = mails[r]
    BY <1>1, <1>2, <1>6 DEF Unsynced
  <2> QED
    BY <1>2, <2>1 DEF AllTold
<1>7. MailsAccounted'
  BY <1>2, <1>3, <1>5, <1>6 DEF MailsAccounted
<1> QED
  BY <1>4, <1>7

\* delivery_put's sync: the mail under way has its row now.
LEMMA RowSynced ==
    ASSUME SerialCalls, LInv, NEW c \in Calls, SyncRecord(c)
    PROVE  RowsAreSeen' /\ MailsAccounted'
<1> USE DEF LInv, SerialLedgerInv, Goto, history
<1>1. PICK q \in Recipients :
      /\ UNCHANGED <<db, mails, unheard, cut>> /\ recoverable' = {db} /\ db \in recoverable
      /\ current' = [current EXCEPT ![c] = NoRecipient]
      /\ outcome' = [outcome EXCEPT ![c] = "none"]
      /\ current \in [Calls -> Recipients \cup {NoRecipient}] /\ outcome \in [Calls -> Outcomes]
      /\ q = current[c] /\ outcome[c] # "none" /\ (outcome[c] = "lost" => q \in unheard)
      /\ db.ledger[q] # "none" /\ db.ledger[q] \in {"none", RowFor(outcome[c])} \cup ReportStatuses
  BY RecipientsAssumption DEF SyncRecord, Sync, Settle, IInv, LedgerInv, TypeOK, WorkInv, WorkOnNone
<1>2. \A e \in Calls : e = c
  BY DEF SerialCalls
<1>3. Unsynced(q) = (IF outcome[c] \in {"sent", "lost"} THEN {c} ELSE {})
  BY <1>1, <1>2 DEF Unsynced
<1>4. \A r \in Recipients : Unsynced(r)' = {}
  BY <1>1, <1>2 DEF Unsynced
<1>5. \A r \in Recipients \ {q} : Unsynced(r) = {} /\ (AllTold(r) => AllTold(r)')
  BY <1>1, <1>2, <1>4 DEF Unsynced, AllTold
<1>6. RowsAreSeen'
  BY <1>1 DEF RowsAreSeen
<1>7. CASE outcome[c] = "failed"
  <2>1. Unsynced(q) = {} /\ (AllTold(q) => AllTold(q)')
    BY <1>1, <1>3, <1>4, <1>7 DEF AllTold
  <2> QED
    BY <1>1, <1>4, <1>5, <1>6, <2>1 DEF MailsAccounted
<1>8. CASE outcome[c] = "lost"
  <2>1. Unsynced(q) = {c} /\ Cardinality(Unsynced(q)) = 1
    BY <1>3, <1>8, FS_Singleton
  <2>2. db.ledger[q] = "failed" => mails[q] = cut[q] + 1
    BY <1>1, <2>1 DEF MailsAccounted, AllTold
  <2> QED
    BY <1>1, <1>4, <1>5, <1>6, <1>8, <2>2, StatusesAssumption DEF MailsAccounted
<1>9. CASE outcome[c] = "sent"
  <2>1. db.ledger[q] \notin {"none", "failed"}
    BY <1>1, <1>9, StatusesAssumption
  <2> QED
    BY <1>1, <1>4, <1>5, <1>6, <2>1 DEF MailsAccounted
<1> QED
  BY <1>1, <1>7, <1>8, <1>9

\* A step of a call.
LEMMA LedgerAccounted ==
    ASSUME SerialCalls, LInv, NEW c \in Calls, CallStep(c)
    PROVE  RowsAreSeen' /\ MailsAccounted'
<1> USE DEF Goto, stored, local, history
<1>0. db \in recoverable /\ cut \in [Recipients -> Nat]
  BY DEF LInv, IInv, LedgerInv, TypeOK
<1>1. CASE Create(c) \/ Record(c)
  BY <1>1, RowWritten
<1>2. CASE RelayAccepts(c) \/ AnswerLost(c)
  BY <1>2, MailWritten DEF RelayAccepts, AnswerLost
<1>3. CASE WriteRefused(c) \/ Timeout(c) \/ StoreFails(c) \/ SyncFails(c)
  <2>1. Drop(c) /\ UNCHANGED <<db, recoverable, mails, unheard>>
    BY <1>3 DEF WriteRefused, Timeout, StoreFails, SyncFails, Drop
  <2>2. \A r \in Recipients :
           /\ cut'[r] + Cardinality(Unsynced(r)') = cut[r] + Cardinality(Unsynced(r))
           /\ cut'[r] \in Nat
    BY <2>1, CutShort DEF LInv, IInv
  <2>3. \A r \in Recipients : Unsynced(r)' \subseteq Unsynced(r)
    BY <2>1 DEF Unsynced, Drop, Settle, LInv, IInv, TypeOK
  <2> QED
    BY <2>1, <2>2, <2>3, NoRowWritten
<1>4. CASE \/ Begin(c) \/ Resume(c) \/ SyncCreate(c) \/ Snapshot(c) \/ Skip(c)
           \/ Admit(c) \/ Finish(c)
  <2>1. UNCHANGED <<db, mails, unheard, cut, current, outcome>> /\ recoverable' \subseteq recoverable
    BY <1>0, <1>4 DEF Begin, Resume, Enter, SyncCreate, Sync, Snapshot, Skip, Admit, Finish
  <2>2. \A r \in Recipients : Unsynced(r)' = Unsynced(r)
    BY <2>1 DEF Unsynced
  <2> QED
    BY <1>0, <2>1, <2>2, NoRowWritten
<1>5. CASE Ask(c) \/ Defer(c) \/ RelayRejects(c)
  <2>1. UNCHANGED <<db, mails, unheard, cut, recoverable>>
    BY <1>5 DEF Ask, Defer, RelayRejects
  <2>2. outcome[c] = "none" /\ outcome'[c] \notin {"sent", "lost"}
        /\ \A e \in Calls \ {c} : current'[e] = current[e] /\ outcome'[e] = outcome[e]
    BY <1>5 DEF Ask, Defer, RelayRejects, LInv, IInv, TypeOK, WorkInv
  <2>3. \A r \in Recipients : Unsynced(r)' = Unsynced(r)
    BY <2>2 DEF Unsynced
  <2> QED
    BY <1>0, <2>1, <2>3, NoRowWritten
<1>6. CASE SyncRecord(c)
  BY <1>6, RowSynced
<1> QED
  BY <1>1, <1>2, <1>3, <1>4, <1>5, <1>6 DEF CallStep, Submit, Step, Ails

\* The only call works on a recipient without a row, up to its own delivery_put.
LEMMA WorkAlone ==
    ASSUME SerialCalls, LInv, NEW c \in Calls, CallStep(c)
    PROVE  WorkOnNone'
<1> USE DEF Goto, stored, local, history, LInv, SerialLedgerInv, WorkOnNone, IInv, TypeOK, WorkInv
<1> SUFFICES ASSUME NEW d \in recoverable'
             PROVE  /\ pc'[c] \in {"reserving", "mailing", "answered"} =>
                          d.ledger[current'[c]] = "none"
                    /\ pc'[c] = "inserted" =>
                          d.ledger[current'[c]] \in {"none", RowFor(outcome'[c])} \cup ReportStatuses
  BY DEF SerialCalls
<1>0. db \in recoverable
  BY DEF LedgerInv
<1>1. CASE \/ Begin(c) \/ Resume(c) \/ Create(c) \/ SyncCreate(c) \/ Snapshot(c) \/ Skip(c)
           \/ Defer(c) \/ SyncRecord(c) \/ Finish(c)
  BY <1>1 DEF Begin, Resume, Enter, Create, SyncCreate, Snapshot, Skip, Defer, SyncRecord, Finish
<1>2. CASE WriteRefused(c) \/ Timeout(c) \/ StoreFails(c) \/ SyncFails(c)
  BY <1>2 DEF WriteRefused, Timeout, StoreFails, SyncFails, Drop
<1>3. CASE Ask(c)
  BY <1>3 DEF Ask, RowsAreSeen
<1>4. CASE Admit(c) \/ RelayAccepts(c) \/ RelayRejects(c) \/ AnswerLost(c)
  BY <1>4 DEF Admit, RelayAccepts, RelayRejects, AnswerLost, RelayTakes
<1>5. CASE Record(c)
  <2>1. /\ recoverable' = recoverable \cup {db'} /\ current' = current /\ outcome' = outcome
        /\ pc[c] = "answered" /\ pc'[c] = "inserted" /\ current[c] \in Recipients
        /\ db' = [db EXCEPT !.ledger[current[c]] = RowFor(outcome[c])]
    BY <1>5, RecipientsAssumption DEF Record, Write
  <2> QED
    BY <1>0, <2>1
<1> QED
  BY <1>1, <1>2, <1>3, <1>4, <1>5 DEF CallStep, Submit, Step, Ails

\* A restart counts the mail under way as cut short.
LEMMA LedgerSurvives ==
    ASSUME LInv, Crash \/ PowerCut
    PROVE  RowsAreSeen' /\ WorkOnNone' /\ MailsAccounted'
<1> USE DEF LInv, SerialLedgerInv, stored, local, history
<1>1. Restart /\ recoverable' \subseteq recoverable /\ recoverable' \in {recoverable, {db'}}
      /\ db' \in recoverable /\ (db' = db \/ recoverable' = {db'})
  BY DEF Crash, PowerCut, IInv, LedgerInv
<1>2. WorkOnNone'
  BY <1>1 DEF WorkOnNone, Restart
<1>3. RowsAreSeen'
  BY <1>1 DEF RowsAreSeen
<1>4. ASSUME NEW r \in Recipients
      PROVE  /\ AllTold(r) => AllTold(r)'
             /\ Unsynced(r) = {} => Unsynced(r)' = {} /\ cut'[r] = cut[r]
             /\ mails'[r] = mails[r]
  <2>1. Unsynced(r)' = {} /\ Cardinality(Unsynced(r)') = 0
    BY <1>1, FS_EmptySet DEF Unsynced, Restart
  <2>2. cut'[r] = cut[r] + Cardinality(Unsynced(r)) /\ cut[r] \in Nat /\ mails'[r] = mails[r]
    BY <1>1 DEF Restart, IInv, TypeOK
  <2>3. Unsynced(r) = {} => cut'[r] = cut[r]
    BY <2>2, FS_EmptySet
  <2> QED
    BY <2>1, <2>2, <2>3, Sizes DEF AllTold
<1>5. MailsAccounted'
  BY <1>1, <1>4 DEF MailsAccounted, Restart
<1> QED
  BY <1>2, <1>3, <1>5

\* The other handlers leave the send alone.
LEMMA LedgerLeft ==
    ASSUME LInv, ConsentChanges \/ FaultElsewhere \/ SyncElsewhere \/ UNCHANGED vars
    PROVE  RowsAreSeen' /\ WorkOnNone' /\ MailsAccounted'
<1> USE DEF LInv, SerialLedgerInv, stored, local, history
<1>1. /\ UNCHANGED <<db, pc, mails, unheard, cut, current, outcome>>
      /\ recoverable' \subseteq recoverable /\ cut \in [Recipients -> Nat]
  BY DEF ConsentChanges, FaultElsewhere, SyncElsewhere, Sync, vars, IInv, TypeOK, LedgerInv
<1>2. \A r \in Recipients : Unsynced(r)' = Unsynced(r)
  BY <1>1 DEF Unsynced
<1>3. RowsAreSeen' /\ MailsAccounted'
  BY <1>1, <1>2, NoRowWritten
<1>4. WorkOnNone'
  BY <1>1 DEF WorkOnNone
<1> QED
  BY <1>3, <1>4

\* The webhook overwrites the row of a recipient who was mailed.
LEMMA LedgerReported ==
    ASSUME LInv, NEW r \in Recipients, NEW status \in ReportStatuses, Report(r, status)
    PROVE  RowsAreSeen' /\ WorkOnNone' /\ MailsAccounted'
<1> USE DEF LInv, SerialLedgerInv, local, history
<1>1. /\ db' = [db EXCEPT !.ledger[r] = status] /\ recoverable' = recoverable \cup {db'}
      /\ UNCHANGED <<pc, mails, unheard, cut, current, outcome>>
      /\ mails[r] > 0 /\ db.ledger[r] # "none" /\ status \notin {"none", "failed"}
      /\ db \in Databases /\ db \in recoverable
      /\ db'.ledger[r] = status /\ \A q \in Recipients \ {r} : db'.ledger[q] = db.ledger[q]
  BY StatusesAssumption DEF Report, Write, IInv, TypeOK, LedgerInv
<1>2. \A q \in Recipients : Unsynced(q)' = Unsynced(q) /\ (AllTold(q)' <=> AllTold(q))
  BY <1>1 DEF Unsynced, AllTold
<1>3. RowsAreSeen'
  BY <1>1 DEF RowsAreSeen
<1>4. MailsAccounted'
  BY <1>1, <1>2 DEF MailsAccounted
<1>5. WorkOnNone'
  <2>1. \A c \in Calls : pc[c] \in {"reserving", "mailing", "answered", "inserted"} =>
                            current[c] \in Recipients
    BY RecipientsAssumption DEF IInv, TypeOK, WorkInv
  <2> QED
    BY <1>1, <2>1 DEF WorkOnNone
<1> QED
  BY <1>3, <1>4, <1>5

\* Then "sent" means that there is a mail, and "failed" that the attempt which
\* wrote it mailed nothing that it heard of.
LEMMA AccountsAreTrue ==
    ASSUME SerialCalls, LInv
    PROVE  LedgerIsTrue
<1> USE DEF LInv, SerialLedgerInv
<1> SUFFICES ASSUME NEW d \in recoverable, NEW r \in Recipients, d.ledger[r] = "failed", AllTold(r)
             PROVE  mails[r] = cut[r] \/ (r \in unheard /\ mails[r] = cut[r] + 1)
  BY DEF LedgerIsTrue, MailsAccounted
<1>1. CASE Unsynced(r) = {}
  BY <1>1, FS_EmptySet DEF AllTold, IInv, TypeOK
<1>2. ASSUME NEW c \in Unsynced(r)
      PROVE  r \in unheard /\ mails[r] = cut[r] + 1
  <2>1. c \in Calls /\ current[c] = r /\ outcome[c] \in {"sent", "lost"} /\ Unsynced(r) = {c}
    BY <1>2 DEF Unsynced, SerialCalls
  <2>2. pc[c] \in {"answered", "inserted"}
    BY <2>1 DEF IInv, WorkInv
  <2>3. outcome[c] = "lost"
    BY <2>1, <2>2, StatusesAssumption DEF WorkOnNone
  <2>4. Cardinality(Unsynced(r)) = 1
    BY <2>1, FS_Singleton
  <2> QED
    BY <2>1, <2>3, <2>4 DEF AllTold, IInv, WorkInv
<1> QED
  BY <1>1, <1>2

\* A call that goes on has the content it had, and one that comes in finds no
\* sends row, or the content of the row.
LEMMA ContentKept ==
    ASSUME SerialCalls, LInv, NEW c \in Calls, CallStep(c)
    PROVE  OneContent'
<1> USE DEF Goto, stored, local, history, LInv, SerialLedgerInv, OneContent, IInv, TypeOK
<1>0. db \in recoverable
  BY DEF LedgerInv
<1> SUFFICES /\ \A d \in recoverable' : d.send \in {NoContent, db'.send}
             /\ pc'[c] = "creating" => db'.send = NoContent
             /\ pc'[c] \notin {"idle", "creating"} => content'[c] = db'.send
  BY DEF SerialCalls
<1>1. CASE Begin(c) \/ Resume(c)
  BY <1>1 DEF Begin, Resume, Enter
<1>2. CASE Create(c)
  <2>1. pc[c] = "creating" /\ pc'[c] = "created" /\ content' = content
        /\ db'.send = content[c] /\ recoverable' = recoverable \cup {db'}
    BY <1>2 DEF Create, Write
  <2>2. \A d \in recoverable : d.send = NoContent
    BY <2>1
  <2> QED
    BY <2>1, <2>2
<1>3. CASE \/ SyncCreate(c) \/ Snapshot(c) \/ Skip(c) \/ Ask(c) \/ Defer(c) \/ Admit(c)
           \/ RelayAccepts(c) \/ RelayRejects(c) \/ AnswerLost(c) \/ SyncRecord(c) \/ Finish(c)
  BY <1>0, <1>3 DEF SyncCreate, Sync, Snapshot, Skip, Ask, Defer, Admit, RelayAccepts,
                    RelayRejects, AnswerLost, RelayTakes, SyncRecord, Finish
<1>4. CASE WriteRefused(c) \/ Timeout(c) \/ StoreFails(c) \/ SyncFails(c)
  BY <1>4 DEF WriteRefused, Timeout, StoreFails, SyncFails, Drop
<1>5. CASE Record(c)
  <2>1. /\ recoverable' = recoverable \cup {db'} /\ content' = content
        /\ db'.send = db.send /\ pc[c] = "answered" /\ pc'[c] = "inserted"
    BY <1>5 DEF Record, Write
  <2> QED
    BY <2>1
<1> QED
  BY <1>1, <1>2, <1>3, <1>4, <1>5 DEF CallStep, Submit, Step, Ails

\* Nobody else writes the sends row.
LEMMA ContentLeft ==
    ASSUME LInv, \/ Crash \/ PowerCut \/ ConsentChanges \/ FaultElsewhere \/ SyncElsewhere
                 \/ UNCHANGED vars
                 \/ \E r \in Recipients, status \in ReportStatuses : Report(r, status)
    PROVE  OneContent'
<1> USE DEF stored, local, history, LInv, SerialLedgerInv, OneContent, IInv, TypeOK
<1>0. db \in recoverable
  BY DEF LedgerInv
<1>1. CASE Crash \/ PowerCut
  BY <1>1 DEF Crash, PowerCut, Restart
<1>2. CASE ConsentChanges \/ FaultElsewhere \/ SyncElsewhere \/ UNCHANGED vars
  <2>1. UNCHANGED <<db, pc, content>> /\ recoverable' \subseteq recoverable
    BY <1>0, <1>2 DEF ConsentChanges, FaultElsewhere, SyncElsewhere, Sync, vars
  <2> QED
    BY <2>1
<1>3. CASE \E r \in Recipients, status \in ReportStatuses : Report(r, status)
  BY <1>3 DEF Report, Write
<1> QED
  BY <1>1, <1>2, <1>3

\* One call after another keeps the accounts, whatever ends a call early.
THEOREM SerialInvariance ==
    ASSUME SerialCalls
    PROVE  Spec => []SerialLedgerInv
<1>1. Init => SerialLedgerInv
  <2> SUFFICES ASSUME Init PROVE SerialLedgerInv
    OBVIOUS
  <2>1. RowsAreSeen /\ WorkOnNone /\ OneContent
    BY DEF Init, Fresh, RowsAreSeen, WorkOnNone, OneContent
  <2>2. ASSUME NEW r \in Recipients
        PROVE  AllTold(r) /\ db.ledger[r] = "none"
    <3>1. Unsynced(r) = {}
      BY DEF Init, Fresh, Unsynced
    <3> QED
      BY <3>1, FS_EmptySet DEF Init, Fresh, AllTold
  <2>3. recoverable = {db}
    BY DEF Init
  <2> QED
    BY <2>1, <2>2, <2>3 DEF SerialLedgerInv, MailsAccounted
<1>2. IInv /\ SerialLedgerInv /\ [Next]_vars => SerialLedgerInv'
  <2> SUFFICES ASSUME LInv, [Next]_vars PROVE SerialLedgerInv'
    BY DEF LInv
  <2>1. ASSUME NEW c \in Calls, CallStep(c) PROVE SerialLedgerInv'
    BY <2>1, LedgerAccounted, WorkAlone, ContentKept DEF SerialLedgerInv
  <2>2. CASE Crash \/ PowerCut
    BY <2>2, LedgerSurvives, ContentLeft DEF SerialLedgerInv
  <2>3. CASE ConsentChanges \/ FaultElsewhere \/ SyncElsewhere \/ UNCHANGED vars
    BY <2>3, LedgerLeft, ContentLeft DEF SerialLedgerInv
  <2>4. CASE \E r \in Recipients, status \in ReportStatuses : Report(r, status)
    BY <2>4, LedgerReported, ContentLeft DEF SerialLedgerInv
  <2> QED
    BY <2>1, <2>2, <2>3, <2>4 DEF Next, CallStep
<1> QED
  BY <1>1, <1>2, Invariance, PTL DEF Spec

\* With one call at a time, the ledger tells the truth about every recipient,
\* through lost answers, timeouts, failures, crashes and power cuts, as far as a
\* call could know it: what the delivery events and the next retry go by
\* (mailer.send, delivery_put, delivery_get).
THEOREM LedgerSafe ==
    ASSUME SerialCalls
    PROVE  Spec => []LedgerIsTrue
<1>1. IInv /\ SerialLedgerInv => LedgerIsTrue
  BY AccountsAreTrue DEF LInv
<1> QED
  BY <1>1, Invariance, SerialInvariance, PTL

\* With one call at a time, a durable sends row settles the content: no refused
\* retry, failure or power cut changes it, or gets anything else mailed
\* (resolve_send, send_put).
THEOREM ContentSafe ==
    ASSUME SerialCalls
    PROVE  Spec => ContentSettled
<1>1. IInv /\ SerialLedgerInv /\ [Next]_vars =>
        [OnRecord => db'.send = db.send /\ mailed' \subseteq mailed \cup {db.send}]_vars
  <2> SUFFICES ASSUME LInv, Next, OnRecord
               PROVE  db'.send = db.send /\ mailed' \subseteq mailed \cup {db.send}
    BY DEF LInv
  <2> USE DEF Goto, stored, local, history, LInv, SerialLedgerInv, OneContent, IInv, TypeOK
  <2>1. db \in recoverable /\ \A d \in recoverable : d.send = db.send /\ d.send # NoContent
    BY DEF LedgerInv, OnRecord
  <2>2. ASSUME NEW c \in Calls, CallStep(c)
        PROVE  db'.send = db.send /\ mailed' \subseteq mailed \cup {db.send}
    <3>1. CASE Create(c) \/ Begin(c)
      <4>1. pc[c] = "creating" \/ db.send = NoContent
        BY <3>1 DEF Create, Begin
      <4> QED
        BY <2>1, <4>1
    <3>2. CASE Record(c)
      BY <3>2 DEF Record, Write
    <3>3. CASE RelayAccepts(c) \/ AnswerLost(c)
      BY <3>3 DEF RelayAccepts, AnswerLost, RelayTakes
    <3>4. CASE \/ Resume(c) \/ SyncCreate(c) \/ Snapshot(c) \/ Skip(c) \/ Ask(c) \/ Defer(c)
               \/ Admit(c) \/ RelayRejects(c) \/ SyncRecord(c) \/ Finish(c)
      BY <3>4 DEF Resume, Enter, SyncCreate, Snapshot, Skip, Ask, Defer, Admit, RelayRejects,
                  SyncRecord, Finish
    <3>5. CASE WriteRefused(c) \/ Timeout(c) \/ StoreFails(c) \/ SyncFails(c)
      BY <3>5 DEF WriteRefused, Timeout, StoreFails, SyncFails, Drop
    <3> QED
      BY <2>2, <3>1, <3>2, <3>3, <3>4, <3>5 DEF CallStep, Submit, Step, Ails
  <2>3. CASE Crash \/ PowerCut
    BY <2>1, <2>3 DEF Crash, PowerCut, Restart
  <2>4. CASE ConsentChanges \/ FaultElsewhere \/ SyncElsewhere
    BY <2>4 DEF ConsentChanges, FaultElsewhere, SyncElsewhere
  <2>5. CASE \E r \in Recipients, status \in ReportStatuses : Report(r, status)
    BY <2>5 DEF Report, Write
  <2> QED
    BY <2>2, <2>3, <2>4, <2>5 DEF Next, CallStep
<1> QED
  BY <1>1, Invariance, SerialInvariance, PTL DEF Spec, ContentSettled
=============================================================================
