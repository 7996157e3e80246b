-------------------------- MODULE RateLimit_proofs --------------------------
(***************************************************************************)
(* The send caps, for any number of calls and windows and any caps: the    *)
(* inductive invariant IInv of RateLimit, the safety properties it implies *)
(* and the refinement of SendBudget.                                       *)
(***************************************************************************)
EXTENDS RateLimit, FiniteSetTheorems, TLAPS

USE DEF Windows, CapOf, ChargedBy, Critical, Points

\* A window is an hour or a day, never both.
LEMMA TwoWindows ==
    ASSUME TypeOK, NEW c \in Calls
    PROVE  /\ window[c] \in Hours
           /\ DayOf[window[c]] \in Days
           /\ window[c] # DayOf[window[c]]
           /\ DayOf[window[c]] \notin Hours
BY WindowsAssumption DEF TypeOK

\* The calls counted in a window are finitely many.
LEMMA FiniteUnrecorded ==
    ASSUME NEW b \in Windows
    PROVE  IsFiniteSet(Unrecorded(b)) /\ Cardinality(Unrecorded(b)) \in Nat
BY CallsAssumption, FS_Subset, FS_CardinalityType DEF Unrecorded

\* Spent is a number: a window in flight has been charged at least once.
LEMMA SpentType ==
    ASSUME IInv, NEW b \in Windows
    PROVE  Spent(b) \in Nat /\ Spent(b) <= count[b]
BY DEF IInv, TypeOK, LockInv, ReadInv, Spent, InFlight

LEMMA InitIInv == Init => IInv
<1> SUFFICES ASSUME Init PROVE IInv
  OBVIOUS
<1>1. TypeOK
  BY CallsAssumption, WindowsAssumption DEF Init, TypeOK
<1>2. LockInv /\ ReadInv
  BY CallsAssumption DEF Init, LockInv, ReadInv
<1>3. JournalInv
  BY DEF Init, JournalInv
<1>4. SlotInv
  <2> SUFFICES ASSUME NEW b \in Windows
               PROVE  /\ count[b] <= CapOf(b)
                      /\ admitted[b] <= Spent(b)
                      /\ recorded[b] + Cardinality(Unrecorded(b)) <= Spent(b)
    BY DEF SlotInv
  <2>1. Unrecorded(b) = {}
    BY DEF Init, Unrecorded
  <2>2. Cardinality(Unrecorded(b)) = 0
    BY <2>1, FS_EmptySet
  <2>3. Spent(b) = 0
    BY DEF Init, Spent, InFlight
  <2> QED
    BY <2>2, <2>3, CapsAssumption DEF Init
<1> QED
  BY <1>1, <1>2, <1>3, <1>4 DEF IInv

\* A step that charges nothing, and after which no call that wasn't already
\* holds an unrecorded slot, leaves the slots accounted for.
LEMMA QuietSlots ==
    ASSUME IInv, TypeOK', count' = count, admitted' = admitted, recorded' = recorded,
           \A b \in Windows : Unrecorded(b)' \subseteq Unrecorded(b),
           \A b \in Windows : InFlight(b)' => InFlight(b)
    PROVE  SlotInv'
<1> SUFFICES ASSUME NEW b \in Windows
             PROVE  /\ count'[b] <= CapOf(b)
                    /\ admitted'[b] <= Spent(b)'
                    /\ recorded'[b] + Cardinality(Unrecorded(b)') <= Spent(b)'
  BY DEF SlotInv
<1>1. /\ count[b] <= CapOf(b)
      /\ admitted[b] <= Spent(b)
      /\ recorded[b] + Cardinality(Unrecorded(b)) <= Spent(b)
  BY DEF IInv, SlotInv
<1>2. /\ Cardinality(Unrecorded(b)') <= Cardinality(Unrecorded(b))
      /\ Cardinality(Unrecorded(b)') \in Nat
      /\ Cardinality(Unrecorded(b)) \in Nat
  BY FiniteUnrecorded, FS_Subset, FS_CardinalityType
<1>3. Spent(b) <= Spent(b)' /\ Spent(b) \in Nat /\ Spent(b)' \in Nat
  <2>1. InFlight(b)' => InFlight(b)
    OBVIOUS
  <2>2. count[b] \in Nat /\ Spent(b) \in Nat
    BY SpentType DEF IInv, TypeOK
  <2> QED
    BY <2>1, <2>2 DEF Spent
<1> QED
  BY <1>1, <1>2, <1>3 DEF IInv, TypeOK
\* Around the reservation, only a call that gives up drops an admitted slot.
LEMMA OpenStep ==
    ASSUME IInv, NEW c \in Calls, StartCall(c) \/ Request(c) \/ Finish(c) \/ Abandon(c)
    PROVE  IInv'
<1>1. TypeOK'
  BY TwoWindows, WindowsAssumption DEF IInv, TypeOK, local, durable, history, Goto, StartCall, Request, Finish, Abandon
<1>2. LockInv'
  BY CallsAssumption DEF IInv, TypeOK, LockInv, local, durable, history, Goto, StartCall, Request, Finish, Abandon
<1>3. ReadInv'
  BY CallsAssumption DEF IInv, TypeOK, LockInv, ReadInv, HasRoom, local, durable, history, Goto, StartCall, Request, Finish, Abandon
<1>4. JournalInv'
  BY DEF IInv, TypeOK, JournalInv, local, durable, history, Goto, StartCall, Request, Finish, Abandon
<1>5. \A b \in Windows : Unrecorded(b)' \subseteq Unrecorded(b)
  BY DEF IInv, TypeOK, Unrecorded, local, durable, history, Goto, StartCall, Request, Finish, Abandon
<1>6. \A b \in Windows : InFlight(b)' => InFlight(b)
  BY CallsAssumption DEF IInv, TypeOK, LockInv, InFlight, local, durable, history, Goto, StartCall, Request, Finish, Abandon
<1>7. count' = count /\ admitted' = admitted /\ recorded' = recorded
  BY DEF local, durable, history, Goto, StartCall, Request, Finish, Abandon
<1> QED
  BY <1>1, <1>2, <1>3, <1>4, <1>5, <1>6, <1>7, QuietSlots DEF IInv

\* The lock is taken when nobody is between its reads and its inserts.
LEMMA AcquireStep ==
    ASSUME IInv, NEW c \in Calls, Acquire(c)
    PROVE  IInv'
<1>1. TypeOK'
  BY TwoWindows, WindowsAssumption DEF IInv, TypeOK, local, durable, history, Goto, Acquire
<1>2. LockInv'
  BY CallsAssumption DEF IInv, TypeOK, LockInv, local, durable, history, Goto, Acquire
<1>3. ReadInv'
  BY CallsAssumption DEF IInv, TypeOK, LockInv, ReadInv, HasRoom, local, durable, history, Goto, Acquire
<1>4. JournalInv'
  BY DEF IInv, TypeOK, JournalInv, local, durable, history, Goto, Acquire
<1>5. \A b \in Windows : Unrecorded(b)' \subseteq Unrecorded(b)
  BY DEF IInv, TypeOK, Unrecorded, local, durable, history, Goto, Acquire
<1>6. \A b \in Windows : InFlight(b)' => InFlight(b)
  BY CallsAssumption DEF IInv, TypeOK, LockInv, InFlight, local, durable, history, Goto, Acquire
<1>7. count' = count /\ admitted' = admitted /\ recorded' = recorded
  BY DEF local, durable, history, Goto, Acquire
<1> QED
  BY <1>1, <1>2, <1>3, <1>4, <1>5, <1>6, <1>7, QuietSlots DEF IInv

\* The two reads, under the lock.
LEMMA ReadStep ==
    ASSUME IInv, NEW c \in Calls, ReadHour(c) \/ ReadDay(c)
    PROVE  IInv'
<1>1. TypeOK'
  BY TwoWindows, WindowsAssumption DEF IInv, TypeOK, local, durable, history, Goto, ReadHour, ReadDay
<1>2. LockInv'
  BY CallsAssumption DEF IInv, TypeOK, LockInv, local, durable, history, Goto, ReadHour, ReadDay
<1>3. ReadInv'
  BY CallsAssumption DEF IInv, TypeOK, LockInv, ReadInv, HasRoom, local, durable, history, Goto, ReadHour, ReadDay
<1>4. JournalInv'
  BY DEF IInv, TypeOK, JournalInv, local, durable, history, Goto, ReadHour, ReadDay
<1>5. \A b \in Windows : Unrecorded(b)' \subseteq Unrecorded(b)
  BY DEF IInv, TypeOK, Unrecorded, local, durable, history, Goto, ReadHour, ReadDay
<1>6. \A b \in Windows : InFlight(b)' => InFlight(b)
  BY CallsAssumption DEF IInv, TypeOK, LockInv, InFlight, local, durable, history, Goto, ReadHour, ReadDay
<1>7. count' = count /\ admitted' = admitted /\ recorded' = recorded
  BY DEF local, durable, history, Goto, ReadHour, ReadDay
<1> QED
  BY <1>1, <1>2, <1>3, <1>4, <1>5, <1>6, <1>7, QuietSlots DEF IInv

\* A refusal charges nothing; an error keeps what was charged.
LEMMA LeaveStep ==
    ASSUME IInv, NEW c \in Calls, Refuse(c) \/ StoreFails(c)
    PROVE  IInv'
<1>1. TypeOK'
  <2>1. lock' \in Calls \cup {NoCall} /\ seenHour' \in [Calls -> Nat] /\ seenDay' \in [Calls -> Nat]
    BY DEF IInv, TypeOK, Refuse, StoreFails, Release
  <2>2. pc' \in [Calls -> Points]
    BY DEF IInv, TypeOK, Refuse, StoreFails, Goto
  <2> QED
    BY <2>1, <2>2 DEF IInv, TypeOK, Refuse, StoreFails, durable
<1>2. LockInv'
  BY CallsAssumption DEF IInv, TypeOK, LockInv, local, durable, history, Goto, Refuse, StoreFails, Release
<1>3. ReadInv'
  BY CallsAssumption DEF IInv, TypeOK, LockInv, ReadInv, HasRoom, local, durable, history, Goto, Refuse, StoreFails, Release
<1>4. JournalInv'
  BY DEF IInv, TypeOK, JournalInv, local, durable, history, Goto, Refuse, StoreFails, Release
<1>5. \A b \in Windows : Unrecorded(b)' \subseteq Unrecorded(b)
  BY DEF IInv, TypeOK, Unrecorded, local, durable, history, Goto, Refuse, StoreFails, Release
<1>6. \A b \in Windows : InFlight(b)' => InFlight(b)
  BY CallsAssumption DEF IInv, TypeOK, LockInv, InFlight, local, durable, history, Goto, Refuse, StoreFails, Release
<1>7. count' = count /\ admitted' = admitted /\ recorded' = recorded
  BY DEF local, durable, history, Goto, Refuse, StoreFails, Release
<1> QED
  BY <1>1, <1>2, <1>3, <1>4, <1>5, <1>6, <1>7, QuietSlots DEF IInv

\* The first insert: the slot isn't admitted yet, and there is room for it.
LEMMA ChargeHourStep ==
    ASSUME IInv, NEW c \in Calls, ChargeHour(c)
    PROVE  IInv'
<1> DEFINE h == window[c]
<1> USE DEF Goto, local, history
<1>1. /\ h \in Hours /\ h \in Windows /\ lock = c
      /\ seenHour[c] = count[h] /\ count[h] \in Nat /\ count[h] < HourlyCap
      /\ seenDay[c] = count[DayOf[h]] /\ seenDay[c] < DailyCap
      /\ count' = [count EXCEPT ![h] = count[h] + 1]
  BY TwoWindows DEF IInv, TypeOK, LockInv, ReadInv, HasRoom, ChargeHour, Insert
<1>2. TypeOK'
  BY <1>1 DEF IInv, TypeOK, ChargeHour, Insert
<1>3. LockInv'
  BY DEF IInv, TypeOK, LockInv, ChargeHour
<1>4. ReadInv'
  BY <1>1, TwoWindows DEF IInv, TypeOK, LockInv, ReadInv, HasRoom, ChargeHour
<1>5. JournalInv'
  BY <1>1 DEF IInv, TypeOK, JournalInv, ChargeHour, Insert
<1>6. SlotInv'
  <2> SUFFICES ASSUME NEW b \in Windows
               PROVE  /\ count'[b] <= CapOf(b)
                      /\ admitted'[b] <= Spent(b)'
                      /\ recorded'[b] + Cardinality(Unrecorded(b)') <= Spent(b)'
    BY DEF SlotInv
  <2>1. ~InFlight(b)
    BY <1>1 DEF InFlight, ChargeHour
  <2>2. InFlight(b)' <=> b = h
    BY <1>1, CallsAssumption DEF IInv, TypeOK, InFlight, ChargeHour
  <2>3. Spent(b)' = Spent(b)
    BY <1>1, <2>1, <2>2 DEF IInv, TypeOK, Spent
  <2>4. Unrecorded(b)' = Unrecorded(b)
    BY DEF IInv, TypeOK, Unrecorded, ChargeHour
  <2>5. admitted' = admitted /\ recorded' = recorded
    BY DEF ChargeHour
  <2>6. count'[b] <= CapOf(b)
    BY <1>1, CapsAssumption DEF IInv, TypeOK, SlotInv
  <2> QED
    BY <2>3, <2>4, <2>5, <2>6 DEF IInv, SlotInv
<1> QED
  BY <1>2, <1>3, <1>4, <1>5, <1>6 DEF IInv

\* The second insert admits the slot: both windows count it, in Spent as well.
LEMMA ChargeDayStep ==
    ASSUME IInv, NEW c \in Calls, ChargeDay(c)
    PROVE  IInv'
<1> DEFINE h == window[c]
           d == DayOf[window[c]]
<1> USE DEF Goto, local
<1>1. /\ h \in Hours /\ d \in Days /\ h # d /\ h \in Windows /\ d \in Windows
      /\ lock = c
      /\ seenDay[c] = count[d] /\ count[d] \in Nat /\ count[d] < DailyCap /\ d \notin Hours
      /\ count' = [count EXCEPT ![d] = count[d] + 1]
  BY TwoWindows DEF IInv, TypeOK, LockInv, ReadInv, HasRoom, ChargeDay, Insert
<1>2. TypeOK'
  BY <1>1 DEF IInv, TypeOK, ChargeDay, Insert, Release, Charge
<1>3. LockInv'
  BY CallsAssumption DEF IInv, TypeOK, LockInv, ChargeDay, Release
<1>4. ReadInv'
  BY <1>1 DEF IInv, TypeOK, LockInv, ReadInv, HasRoom, ChargeDay, Release
<1>5. JournalInv'
  BY <1>1 DEF IInv, TypeOK, JournalInv, ChargeDay, Insert
<1>6. SlotInv'
  <2> SUFFICES ASSUME NEW b \in Windows
               PROVE  /\ count'[b] <= CapOf(b)
                      /\ admitted'[b] <= Spent(b)'
                      /\ recorded'[b] + Cardinality(Unrecorded(b)') <= Spent(b)'
    BY DEF SlotInv
  <2>1. InFlight(b) <=> b = h
    BY <1>1, CallsAssumption DEF InFlight, ChargeDay
  <2>2. ~InFlight(b)'
    BY DEF InFlight, ChargeDay, Release
  <2>3. Spent(b)' = Spent(b) + (IF b \in {h, d} THEN 1 ELSE 0) /\ Spent(b) \in Nat
    <3>1. Spent(b) \in Nat
      BY SpentType
    <3>2. CASE b = h
      BY <1>1, <2>1, <2>2, <3>1, <3>2 DEF IInv, TypeOK, Spent
    <3>3. CASE b # h
      BY <1>1, <2>1, <2>2, <3>1, <3>3 DEF IInv, TypeOK, Spent
    <3> QED
      BY <3>2, <3>3
  <2>4. Cardinality(Unrecorded(b)') = Cardinality(Unrecorded(b)) + (IF b \in {h, d} THEN 1 ELSE 0)
        /\ Cardinality(Unrecorded(b)) \in Nat
    <3>1. CASE b \in {h, d}
      <4>1. Unrecorded(b)' = Unrecorded(b) \cup {c} /\ c \notin Unrecorded(b)
        BY <3>1 DEF IInv, TypeOK, Unrecorded, ChargeDay, Release
      <4> QED
        BY <3>1, <4>1, FiniteUnrecorded, FS_AddElement
    <3>2. CASE b \notin {h, d}
      <4>1. Unrecorded(b)' = Unrecorded(b)
        BY <3>2 DEF IInv, TypeOK, Unrecorded, ChargeDay, Release
      <4> QED
        BY <3>2, <4>1, FiniteUnrecorded
    <3> QED
      BY <3>1, <3>2
  <2>5. recorded' = recorded /\ admitted'[b] = admitted[b] + (IF b \in {h, d} THEN 1 ELSE 0)
    BY DEF IInv, TypeOK, ChargeDay, Charge
  <2>6. count'[b] <= CapOf(b)
    BY <1>1, CapsAssumption DEF IInv, TypeOK, SlotInv
  <2>7. /\ admitted[b] <= Spent(b) /\ admitted[b] \in Nat /\ recorded[b] \in Nat
        /\ recorded[b] + Cardinality(Unrecorded(b)) <= Spent(b)
    BY DEF IInv, TypeOK, SlotInv
  <2> QED
    BY <2>3, <2>4, <2>5, <2>6, <2>7
<1> QED
  BY <1>2, <1>3, <1>4, <1>5, <1>6 DEF IInv

\* The delivery row takes over the slot of its admission, and the sync makes
\* every charge durable.
LEMMA RecordStep ==
    ASSUME IInv, NEW c \in Calls, Record(c)
    PROVE  IInv'
<1> USE DEF Goto, local
<1>1. TypeOK'
  BY DEF IInv, TypeOK, Record, Charge
<1>2. LockInv' /\ ReadInv'
  BY DEF IInv, TypeOK, LockInv, ReadInv, HasRoom, Record
<1>3. ASSUME NEW b \in Windows
      PROVE  /\ Spent(b)' = Spent(b) /\ Spent(b) \in Nat /\ Spent(b) <= count[b]
             /\ Cardinality(Unrecorded(b)') \in Nat
             /\ recorded'[b] + Cardinality(Unrecorded(b)')
                  = recorded[b] + Cardinality(Unrecorded(b))
  <2>1. InFlight(b)' <=> InFlight(b)
    BY CallsAssumption DEF IInv, TypeOK, LockInv, InFlight, Record
  <2>2. Spent(b)' = Spent(b) /\ Spent(b) \in Nat /\ Spent(b) <= count[b]
    BY <2>1, SpentType DEF Spent, Record
  <2>3. recorded'[b] = recorded[b] + (IF b \in ChargedBy(c) THEN 1 ELSE 0) /\ recorded[b] \in Nat
    BY DEF IInv, TypeOK, Record, Charge
  <2>4. /\ Cardinality(Unrecorded(b)')
             = Cardinality(Unrecorded(b)) - (IF b \in ChargedBy(c) THEN 1 ELSE 0)
        /\ Cardinality(Unrecorded(b)) \in Nat /\ Cardinality(Unrecorded(b)') \in Nat
    <3>1. CASE b \in ChargedBy(c)
      <4>1. Unrecorded(b)' = Unrecorded(b) \ {c} /\ c \in Unrecorded(b)
        BY <3>1 DEF IInv, TypeOK, Unrecorded, Record
      <4>2. IsFiniteSet(Unrecorded(b)')
        BY <4>1, FiniteUnrecorded, FS_RemoveElement
      <4> QED
        BY <3>1, <4>1, <4>2, FiniteUnrecorded, FS_RemoveElement, FS_CardinalityType
    <3>2. CASE b \notin ChargedBy(c)
      <4>1. Unrecorded(b)' = Unrecorded(b)
        BY <3>2 DEF IInv, TypeOK, Unrecorded, Record
      <4> QED
        BY <3>2, <4>1, FiniteUnrecorded
    <3> QED
      BY <3>1, <3>2
  <2> QED
    BY <2>2, <2>3, <2>4
<1>4. SlotInv'
  BY <1>3 DEF IInv, SlotInv, Record
<1>5. JournalInv'
  <2> SUFFICES ASSUME NEW b \in Windows
               PROVE  recorded'[b] <= count[b] /\ count[b] <= count[b]
    BY DEF JournalInv, Record
  <2>1. recorded[b] + Cardinality(Unrecorded(b)) <= Spent(b)
    BY DEF IInv, SlotInv
  <2>2. recorded'[b] \in Nat /\ recorded[b] \in Nat /\ count[b] \in Nat
    BY <1>1 DEF IInv, TypeOK
  <2> QED
    BY <1>3, <2>1, <2>2, FiniteUnrecorded
<1> QED
  BY <1>1, <1>2, <1>4, <1>5 DEF IInv

\* The clock, and other handlers' syncs.
LEMMA AroundStep ==
    ASSUME IInv, Tick \/ SyncElsewhere
    PROVE  IInv'
<1> USE DEF local, durable, history
<1>1. TypeOK'
  BY DEF IInv, TypeOK, Tick, SyncElsewhere
<1>2. LockInv' /\ ReadInv'
  BY DEF IInv, LockInv, ReadInv, HasRoom, Tick, SyncElsewhere
<1>3. JournalInv'
  BY DEF IInv, TypeOK, JournalInv, Tick, SyncElsewhere
<1>4. SlotInv'
  BY DEF IInv, SlotInv, Spent, InFlight, Unrecorded, Tick, SyncElsewhere
<1> QED
  BY <1>1, <1>2, <1>3, <1>4 DEF IInv

\* A new process has no call in flight, and starts from a state that holds at
\* least the recorded charges.
LEMMA RestartStep ==
    ASSUME IInv, Crash \/ PowerCut
    PROVE  IInv'
<1>1. TypeOK'
  <2>1. CASE Crash
    BY <2>1 DEF IInv, TypeOK, Crash, Restart
  <2>2. CASE PowerCut
    <3>1. /\ count' \in recoverable /\ recoverable' = {count'}
          /\ admitted' = [b \in Windows |-> 0]
      BY <2>2 DEF PowerCut
    <3>2. count' \in [Windows -> Nat]
      BY <3>1 DEF IInv, TypeOK
    <3> QED
      BY <2>2, <3>1, <3>2 DEF IInv, TypeOK, PowerCut, Restart
  <2> QED
    BY <2>1, <2>2
<1>2. LockInv' /\ ReadInv'
  BY CallsAssumption DEF LockInv, ReadInv, Crash, PowerCut, Restart
<1>3. JournalInv'
  BY <1>1 DEF IInv, TypeOK, JournalInv, Crash, PowerCut, Restart
<1>4. SlotInv'
  <2> SUFFICES ASSUME NEW b \in Windows
               PROVE  /\ count'[b] <= CapOf(b)
                      /\ admitted'[b] <= Spent(b)'
                      /\ recorded'[b] + Cardinality(Unrecorded(b)') <= Spent(b)'
    BY DEF SlotInv
  <2>1. Spent(b)' = count'[b]
    BY DEF Spent, InFlight, Crash, PowerCut, Restart
  <2>2. Unrecorded(b)' = {}
    BY DEF Unrecorded, Crash, PowerCut, Restart
  <2>3. Cardinality(Unrecorded(b)') = 0
    BY <2>2, FS_EmptySet
  <2>4. count'[b] <= count[b] /\ count[b] <= CapOf(b) /\ CapOf(b) \in Nat
        /\ count'[b] \in Nat /\ count[b] \in Nat
    BY <1>1, CapsAssumption DEF IInv, TypeOK, JournalInv, SlotInv, Crash, PowerCut
  <2>5. recorded'[b] <= count'[b] /\ recorded'[b] \in Nat
    BY <1>1, <1>3 DEF JournalInv, TypeOK
  <2>6. admitted'[b] <= count'[b]
    <3>1. CASE Crash
      <4>1. admitted' = admitted /\ count' = count
        BY <3>1 DEF Crash
      <4>2. admitted[b] <= Spent(b) /\ Spent(b) <= count[b] /\ Spent(b) \in Nat
            /\ admitted[b] \in Nat /\ count[b] \in Nat
        BY SpentType DEF IInv, TypeOK, SlotInv
      <4> QED
        BY <4>1, <4>2
    <3>2. CASE PowerCut
      BY <3>2, <1>1 DEF PowerCut, TypeOK
    <3> QED
      BY <3>1, <3>2
  <2> QED
    BY <2>1, <2>3, <2>4, <2>5, <2>6
<1> QED
  BY <1>1, <1>2, <1>3, <1>4 DEF IInv

LEMMA StutterStep ==
    ASSUME IInv, UNCHANGED vars
    PROVE  IInv'
BY DEF IInv, TypeOK, LockInv, ReadInv, HasRoom, JournalInv, SlotInv, Spent, InFlight,
       Unrecorded, vars, local, history

\* IInv holds in every state try_reserve_send_slot can be in.
THEOREM Invariance == Spec => []IInv
<1>1. ASSUME IInv, [Next]_vars
      PROVE  IInv'
  <2>1. ASSUME NEW c \in Calls, Call(c)
        PROVE  IInv'
    BY <1>1, <2>1, OpenStep, AcquireStep, ReadStep, LeaveStep, ChargeHourStep, ChargeDayStep,
       RecordStep DEF Call, Reserve
  <2> QED
    BY <1>1, <2>1, AroundStep, RestartStep, StutterStep DEF Next
<1> QED
  BY InitIInv, <1>1, PTL DEF Spec

\* The variables keep their types, in every interleaving of the reservations.
THEOREM TypeCorrect == Spec => []TypeOK
<1>1. IInv => TypeOK
  BY DEF IInv
<1> QED
  BY <1>1, Invariance, PTL

\* No window admits more recipients than its cap, power cuts aside.
THEOREM AdmissionsSafe == Spec => []AdmittedWithinCap
<1>1. ASSUME IInv
      PROVE  AdmittedWithinCap
  <2> SUFFICES ASSUME NEW b \in Windows
               PROVE  admitted[b] <= CapOf(b)
    BY DEF AdmittedWithinCap
  <2>1. admitted[b] <= Spent(b) /\ Spent(b) <= count[b] /\ count[b] <= CapOf(b)
        /\ admitted[b] \in Nat /\ Spent(b) \in Nat /\ count[b] \in Nat /\ CapOf(b) \in Nat
    BY <1>1, SpentType, CapsAssumption DEF IInv, TypeOK, SlotInv
  <2> QED
    BY <2>1
<1> QED
  BY <1>1, Invariance, PTL

\* A power cut never forgets the slot of a recorded delivery.
THEOREM RecordedSafe == Spec => []RecordedStaysCharged
<1>1. IInv => RecordedStaysCharged
  BY DEF IInv, JournalInv, RecordedStaysCharged
<1> QED
  BY <1>1, Invariance, PTL

\* No window is charged beyond its cap, before or after a power cut.
THEOREM ChargesSafe == Spec => []ChargedWithinCap
<1>1. ASSUME IInv
      PROVE  ChargedWithinCap
  <2> SUFFICES ASSUME NEW s \in recoverable \cup {count}, NEW b \in Windows
               PROVE  s[b] <= CapOf(b)
    BY DEF ChargedWithinCap
  <2>1. s \in recoverable /\ s[b] <= count[b] /\ count[b] <= CapOf(b)
    BY <1>1 DEF IInv, JournalInv, SlotInv
  <2>2. s[b] \in Nat /\ count[b] \in Nat /\ CapOf(b) \in Nat
    BY <1>1, <2>1, CapsAssumption DEF IInv, TypeOK
  <2> QED
    BY <2>1, <2>2
<1> QED
  BY <1>1, Invariance, PTL

\* No reservation overwrites another one's charge.
THEOREM CountsOnlyGrow == Spec => OnlyPowerCutsLowerCounts
<1>1. ASSUME IInv, [Next]_vars, ~PowerCut, NEW b \in Windows
      PROVE  count'[b] >= count[b]
  <2>1. count[b] \in Nat
    BY <1>1 DEF IInv, TypeOK
  <2>2. ASSUME NEW c \in Calls, ChargeHour(c)
        PROVE  count'[b] >= count[b]
    BY <1>1, <2>1, <2>2 DEF IInv, TypeOK, LockInv, ReadInv, ChargeHour, Insert, Goto
  <2>3. ASSUME NEW c \in Calls, ChargeDay(c)
        PROVE  count'[b] >= count[b]
    BY <1>1, <2>1, <2>3 DEF IInv, TypeOK, LockInv, ReadInv, ChargeDay, Insert, Goto
  <2>4. ASSUME NEW c \in Calls, Call(c), ~ChargeHour(c), ~ChargeDay(c)
        PROVE  count' = count
    BY <2>4 DEF Call, Reserve, StartCall, Request, Finish, Acquire, ReadHour, ReadDay, Refuse,
                StoreFails, Record, Abandon
  <2>5. ASSUME Tick \/ SyncElsewhere \/ Crash \/ UNCHANGED vars
        PROVE  count' = count
    BY <2>5 DEF Tick, SyncElsewhere, Crash, vars
  <2> QED
    BY <1>1, <2>1, <2>2, <2>3, <2>4, <2>5 DEF Next
<1>2. ASSUME IInv, [Next]_vars
      PROVE  [~PowerCut => \A b \in Windows : count'[b] >= count[b]]_vars
  BY <1>1, <1>2
<1> QED
  BY <1>2, Invariance, PTL DEF Spec, OnlyPowerCutsLowerCounts
-----------------------------------------------------------------------------
(* RateLimit implements SendBudget                                         *)

BudgetSpent == [b \in Windows |-> Spent(b)]
BudgetState == <<BudgetSpent, admitted>>

\* No call is between its two inserts, before or after: nothing has been spent.
LEMMA NothingSpent ==
    ASSUME count' = count, \A b \in Windows : InFlight(b)' <=> InFlight(b),
           admitted' = admitted
    PROVE  BudgetState' = BudgetState
BY DEF BudgetState, BudgetSpent, Spent

LEMMA AdmitRefines ==
    ASSUME IInv, NEW c \in Calls, ChargeDay(c)
    PROVE  Budget!Admit(window[c])
<1> DEFINE h == window[c]
           d == DayOf[window[c]]
<1>1. /\ h \in Hours /\ d \in Days /\ h # d /\ h \in Windows /\ d \in Windows
      /\ lock = c /\ pc[c] = "hourCharged" /\ count[h] \in Nat
      /\ count[h] = seenHour[c] + 1 /\ seenHour[c] \in Nat /\ seenHour[c] < HourlyCap
      /\ seenDay[c] = count[d] /\ count[d] \in Nat /\ count[d] < DailyCap
      /\ count' = [count EXCEPT ![d] = count[d] + 1]
      /\ lock' = NoCall /\ c # NoCall /\ count \in [Windows -> Nat]
  BY TwoWindows, CallsAssumption
     DEF IInv, TypeOK, LockInv, ReadInv, HasRoom, ChargeDay, Insert, Goto, Release
<1>2. \A b \in Windows : (InFlight(b) <=> b = h) /\ ~InFlight(b)'
  BY <1>1 DEF InFlight
<1>3. Spent(h) < HourlyCap /\ Spent(d) < DailyCap
  BY <1>1, <1>2 DEF Spent
<1>4. ASSUME NEW b \in Windows
      PROVE  Spent(b)' = IF b \in {h, d} THEN Spent(b) + 1 ELSE Spent(b)
  <2>1. CASE b = h
    BY <1>1, <1>2, <2>1 DEF Spent
  <2>2. CASE b = d
    BY <1>1, <1>2, <2>2 DEF Spent
  <2>3. CASE b \notin {h, d}
    BY <1>1, <1>2, <2>3 DEF Spent
  <2> QED
    BY <2>1, <2>2, <2>3
<1>5. BudgetSpent' = [BudgetSpent EXCEPT ![h] = @ + 1, ![d] = @ + 1]
  BY <1>1, <1>4 DEF BudgetSpent
<1>6. admitted' = [admitted EXCEPT ![h] = @ + 1, ![d] = @ + 1]
  BY <1>1 DEF IInv, TypeOK, ChargeDay, Charge, ChargedBy
<1> QED
  BY <1>1, <1>3, <1>5, <1>6 DEF Budget!Admit, BudgetSpent

\* A process or call that dies between the inserts wastes its hour slot.
LEMMA WasteRefines ==
    ASSUME IInv, IInv', NEW c \in Calls, pc[c] = "hourCharged",
           count' = count, lock' = NoCall, admitted' = admitted
    PROVE  Budget!Waste(window[c])
<1> DEFINE h == window[c]
<1>1. /\ h \in Hours /\ h \in Windows /\ lock = c /\ count[h] \in Nat /\ c # NoCall
      /\ count[h] = seenHour[c] + 1 /\ seenHour[c] \in Nat /\ seenHour[c] < HourlyCap
  BY TwoWindows, CallsAssumption DEF IInv, TypeOK, LockInv, ReadInv, HasRoom
<1>2. \A b \in Windows : (InFlight(b) <=> b = h) /\ ~InFlight(b)'
  BY <1>1 DEF InFlight
<1>3. Spent(h) < HourlyCap
  BY <1>1, <1>2 DEF Spent
<1>4. \A b \in Windows : Spent(b)' = IF b = h THEN Spent(b) + 1 ELSE Spent(b)
  BY <1>1, <1>2 DEF Spent
<1>5. BudgetSpent' = [BudgetSpent EXCEPT ![h] = @ + 1]
  BY <1>1, <1>4 DEF BudgetSpent
<1> QED
  BY <1>1, <1>3, <1>5 DEF Budget!Waste, BudgetSpent

LEMMA ForgetRefines ==
    ASSUME IInv, IInv', PowerCut
    PROVE  \E h \in Hours : Budget!Forget(h)
<1>1. \A b \in Windows : /\ Spent(b)' = count'[b] /\ count'[b] \in Nat
                         /\ count'[b] <= count[b] /\ count[b] \in Nat
                         /\ count'[b] <= CapOf(b)
  BY DEF IInv, TypeOK, JournalInv, SlotInv, Spent, InFlight, PowerCut, Restart
<1>2. PICK h \in Hours : \A b \in Windows : InFlight(b) => b = h
  <2>1. CASE lock \in Calls
    BY <2>1 DEF IInv, TypeOK, InFlight
  <2>2. CASE lock \notin Calls
    BY <2>2, WindowsAssumption DEF IInv, TypeOK, InFlight
  <2> QED
    BY <2>1, <2>2
<1>3. \A b \in Windows : count'[b] <= Spent(b) + (IF b = h THEN 1 ELSE 0)
  BY <1>1, <1>2 DEF Spent
<1>4. /\ BudgetSpent' \in [Windows -> Nat]
      /\ \A b \in Windows : /\ BudgetSpent'[b] <= BudgetSpent[b] + (IF b = h THEN 1 ELSE 0)
                            /\ BudgetSpent'[b] <= CapOf(b)
  BY <1>1, <1>3 DEF BudgetSpent
<1> QED
  BY <1>4 DEF PowerCut, Budget!Forget, Budget!Windows, Budget!CapOf, BudgetSpent, Windows

\* Every step of the reservation is a step of the budget or changes nothing it
\* counts.
LEMMA StepRefines ==
    ASSUME IInv, IInv', [Next]_vars
    PROVE  [Budget!BudgetNext]_BudgetState
<1> USE DEF Goto, local, durable, history
<1>1. ASSUME NEW c \in Calls, ChargeDay(c)
      PROVE  Budget!BudgetNext
  BY <1>1, AdmitRefines, TwoWindows DEF Budget!BudgetNext, IInv
<1>2. ASSUME NEW c \in Calls, StoreFails(c) \/ Crash, pc[c] = "hourCharged"
      PROVE  [Budget!BudgetNext]_BudgetState
  <2>1. CASE StoreFails(c) /\ pc[c] = "hourCharged"
    BY <2>1, WasteRefines, TwoWindows DEF StoreFails, Release, Budget!BudgetNext, IInv
  <2>2. CASE Crash
    BY <1>2, <2>2, WasteRefines, TwoWindows DEF Crash, Restart, Budget!BudgetNext, IInv
  <2> QED
    BY <1>2, <2>1, <2>2
<1>3. ASSUME StoreFails(lock) \/ Crash, lock = NoCall \/ pc[lock] # "hourCharged"
      PROVE  BudgetState' = BudgetState
  <2>1. count' = count /\ lock' = NoCall /\ admitted' = admitted
    BY <1>3 DEF StoreFails, Release, Crash, Restart
  <2> QED
    BY <1>3, <2>1, NothingSpent DEF InFlight
<1>4. ASSUME NEW c \in Calls, ChargeHour(c)
      PROVE  BudgetState' = BudgetState
  <2>1. /\ lock = c /\ lock' = c /\ pc[c] = "bothRead" /\ pc'[c] = "hourCharged" /\ c # NoCall
        /\ window' = window /\ window[c] \in Windows /\ count[window[c]] \in Nat
        /\ count' = [count EXCEPT ![window[c]] = count[window[c]] + 1]
        /\ count \in [Windows -> Nat]
    <3>1. /\ lock = c /\ pc[c] = "bothRead" /\ pc \in [Calls -> Points] /\ c # NoCall
          /\ window[c] \in Windows /\ count \in [Windows -> Nat]
          /\ seenHour[c] = count[window[c]]
      BY <1>4, TwoWindows, CallsAssumption DEF IInv, TypeOK, LockInv, ReadInv, ChargeHour
    <3> QED
      BY <1>4, <3>1 DEF ChargeHour, Insert
  <2>2. \A b \in Windows : ~InFlight(b) /\ (InFlight(b)' <=> b = window[c])
    BY <2>1 DEF InFlight
  <2>3. \A b \in Windows : Spent(b)' = Spent(b)
    BY <2>1, <2>2 DEF Spent
  <2> QED
    BY <1>4, <2>3 DEF BudgetState, BudgetSpent, ChargeHour
<1>5. ASSUME NEW c \in Calls, Call(c), ~ChargeHour(c), ~ChargeDay(c), ~StoreFails(c)
      PROVE  BudgetState' = BudgetState
  <2>1. count' = count /\ admitted' = admitted
    BY <1>5 DEF Call, Reserve, StartCall, Request, Finish, Acquire, ReadHour, ReadDay, Refuse,
                Record, Abandon
  <2>2. \A b \in Windows : InFlight(b)' <=> InFlight(b)
    <3>1. CASE Acquire(c) \/ ReadHour(c) \/ ReadDay(c) \/ Refuse(c)
      BY <3>1, CallsAssumption
         DEF IInv, TypeOK, LockInv, InFlight, Acquire, ReadHour, ReadDay, Refuse, Release
    <3>2. CASE StartCall(c) \/ Request(c) \/ Finish(c) \/ Record(c) \/ Abandon(c)
      BY <3>2, CallsAssumption
         DEF IInv, TypeOK, LockInv, InFlight, StartCall, Request, Finish, Record, Abandon
    <3> QED
      BY <1>5, <3>1, <3>2 DEF Call, Reserve
  <2> QED
    BY <2>1, <2>2, NothingSpent
<1>6. ASSUME Tick \/ SyncElsewhere \/ UNCHANGED vars
      PROVE  BudgetState' = BudgetState
  BY <1>6, NothingSpent DEF Tick, SyncElsewhere, InFlight, vars
<1>7. ASSUME PowerCut
      PROVE  Budget!BudgetNext
  BY <1>7, ForgetRefines DEF Budget!BudgetNext
<1>8. ASSUME NEW c \in Calls, StoreFails(c)
      PROVE  lock = c
  BY <1>8 DEF IInv, LockInv, StoreFails
<1> QED
  BY <1>1, <1>2, <1>3, <1>4, <1>5, <1>6, <1>7, <1>8 DEF Next, IInv, TypeOK

\* try_reserve_send_slot keeps the promise SendBudget makes of it.
THEOREM BudgetRefinement == Spec => ImplementsBudget
<1>1. Init => Budget!BudgetInit
  BY DEF Init, Budget!BudgetInit, Budget!Windows, Spent, InFlight
<1>2. IInv /\ IInv' /\ [Next]_vars => [Budget!BudgetNext]_BudgetState
  BY StepRefines
<1> QED
  BY <1>1, <1>2, Invariance, PTL DEF Spec, ImplementsBudget, Budget!BudgetSpec, Budget!budgetVars, BudgetState, BudgetSpent
=============================================================================
