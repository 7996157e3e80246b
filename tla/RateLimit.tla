------------------------------ MODULE RateLimit ------------------------------
(***************************************************************************)
(* Store::try_reserve_send_slot, and the part of a POST /send fan-out that *)
(* surrounds it: every call reads the clock once, then for one recipient   *)
(* after another waits for the rate_limit_lock, reads the two counters,    *)
(* refuses or charges both, and - after the relay round trip - writes the  *)
(* delivery row, whose fsync is the first to cover the charges.            *)
(*                                                                         *)
(* The journal is modelled by the set of states a power cut can leave      *)
(* behind: every prefix of the unsynced writes is one, so an insert adds   *)
(* the new state to the set and a sync leaves only the current one.        *)
(***************************************************************************)
EXTENDS Naturals, FiniteSets

CONSTANTS Calls,        \* POST /send requests in flight
          NoCall,       \* the lock is free
          Hours, Days, DayOf, HourlyCap, DailyCap,
          PowerMayFail  \* whether power cuts are considered

ASSUME CapsAssumption == HourlyCap \in Nat \ {0} /\ DailyCap \in Nat \ {0}
ASSUME WindowsAssumption == /\ Hours \subseteq Nat
                            /\ Hours # {}
                            /\ Hours \cap Days = {}
                            /\ DayOf \in [Hours -> Days]
ASSUME CallsAssumption == NoCall \notin Calls /\ IsFiniteSet(Calls)
ASSUME PowerAssumption == PowerMayFail \in BOOLEAN

VARIABLES clock,        \* the hour it is
          lock,         \* Store::rate_limit_lock: its holder or NoCall
          pc,           \* where each call is
          window,       \* hour_bucket(now), computed when the call starts
          seenHour,     \* hour_count read under the lock
          seenDay,      \* day_count read under the lock
          count,        \* the rate_limits keyspace, as readers see it
          recoverable,  \* the rate_limits contents a power cut may leave
          admitted,     \* history: slots granted per window since the last cut
          recorded      \* history: delivery rows made durable, per window

durable == <<recoverable, recorded>>
local == <<window, seenHour, seenDay>>
history == <<admitted, recorded>>
vars == <<clock, lock, pc, local, count, recoverable, history>>

Windows == Hours \cup Days
CapOf(b) == IF b \in Hours THEN HourlyCap ELSE DailyCap
ChargedBy(c) == {window[c], DayOf[window[c]]}

Charge(f, bs) == [b \in Windows |-> IF b \in bs THEN f[b] + 1 ELSE f[b]]

\* Points inside try_reserve_send_slot where the call holds the lock.
Critical == {"locked", "hourRead", "bothRead", "hourCharged"}
Points == {"idle", "open", "waiting", "admitted"} \cup Critical

Goto(c, from, to) == pc[c] = from /\ pc' = [pc EXCEPT ![c] = to]

Init ==
    /\ clock \in Hours
    /\ lock = NoCall
    /\ pc = [c \in Calls |-> "idle"]
    /\ window = [c \in Calls |-> clock]
    /\ seenHour = [c \in Calls |-> 0]
    /\ seenDay = [c \in Calls |-> 0]
    /\ count = [b \in Windows |-> 0]
    /\ recoverable = {count}
    /\ admitted = [b \in Windows |-> 0]
    /\ recorded = [b \in Windows |-> 0]

-----------------------------------------------------------------------------
(* POST /send around the reservation                                       *)

\* An hour boundary passes.
Tick ==
    /\ \E h \in Hours : h > clock /\ clock' = h
    /\ UNCHANGED <<lock, pc, local, count, durable, admitted>>

\* POST /send computes both bucket names from the one clock reading it takes.
StartCall(c) ==
    /\ Goto(c, "idle", "open")
    /\ window' = [window EXCEPT ![c] = clock]
    /\ UNCHANGED <<clock, lock, seenHour, seenDay, count, durable, admitted>>

\* The next recipient without a delivery row: rate_limit_lock.lock().await.
Request(c) ==
    /\ Goto(c, "open", "waiting")
    /\ UNCHANGED <<clock, lock, local, count, durable, admitted>>

\* The loop is over, and the reply sent.
Finish(c) ==
    /\ Goto(c, "open", "idle")
    /\ UNCHANGED <<clock, lock, local, count, durable, admitted>>

\* delivery_put after the relay answered.  Its fsync covers the one journal,
\* so every charge made so far becomes durable with the row.
Record_OwnJournal(c) ==
    /\ Goto(c, "admitted", "open")
    /\ recorded' = Charge(recorded, ChargedBy(c))
    /\ UNCHANGED <<clock, lock, local, count, recoverable, admitted>>

Record(c) ==
    /\ Goto(c, "admitted", "open")
    /\ recorded' = Charge(recorded, ChargedBy(c))
    /\ recoverable' = {count}
    /\ UNCHANGED <<clock, lock, local, count, admitted>>

\* The request timeout or a disconnect drops the future at one of its awaits,
\* or signing, or delivery_put, returns an error: the fan-out ends here.
Abandon(c) ==
    /\ pc[c] \in {"waiting", "admitted"}
    /\ pc' = [pc EXCEPT ![c] = "idle"]
    /\ UNCHANGED <<clock, lock, local, count, durable, admitted>>

\* Any other handler's acknowledged write syncs the journal all keyspaces share.
SyncElsewhere ==
    /\ recoverable' = {count}
    /\ UNCHANGED <<clock, lock, pc, local, count, history>>
-----------------------------------------------------------------------------
(* Store::try_reserve_send_slot                                            *)

Acquire_NoMutex(c) ==
    /\ Goto(c, "waiting", "locked")
    /\ UNCHANGED <<clock, lock, local, count, durable, admitted>>

Acquire(c) ==
    /\ lock = NoCall
    /\ Goto(c, "waiting", "locked")
    /\ lock' = c
    /\ UNCHANGED <<clock, local, count, durable, admitted>>

ReadHour(c) ==
    /\ Goto(c, "locked", "hourRead")
    /\ seenHour' = [seenHour EXCEPT ![c] = count[window[c]]]
    /\ UNCHANGED <<clock, lock, window, seenDay, count, durable, admitted>>

ReadDay(c) ==
    /\ Goto(c, "hourRead", "bothRead")
    /\ seenDay' = [seenDay EXCEPT ![c] = count[DayOf[window[c]]]]
    /\ UNCHANGED <<clock, lock, window, seenHour, count, durable, admitted>>

HasRoom_Inclusive(c) == seenHour[c] <= HourlyCap /\ seenDay[c] <= DailyCap

HasRoom(c) == seenHour[c] < HourlyCap /\ seenDay[c] < DailyCap

\* The guard and the two counts read go out of scope.
Release(c) ==
    /\ lock' = NoCall
    /\ seenHour' = [seenHour EXCEPT ![c] = 0]
    /\ seenDay' = [seenDay EXCEPT ![c] = 0]

\* Ok(false): DeferredByCap, and the loop goes on to the next recipient.
Refuse_KeepsGuard(c) ==
    /\ ~HasRoom(c)
    /\ Goto(c, "bothRead", "open")
    /\ UNCHANGED <<clock, lock, local, count, durable, admitted>>

Refuse(c) ==
    /\ ~HasRoom(c)
    /\ Goto(c, "bothRead", "open")
    /\ Release(c)
    /\ UNCHANGED <<clock, window, count, durable, admitted>>

\* Keyspace::insert: visible at once, recoverable from now on, synced by nobody.
Insert(b, n) ==
    /\ count' = [count EXCEPT ![b] = n]
    /\ recoverable' = recoverable \cup {count'}

ChargeHour(c) ==
    /\ HasRoom(c)
    /\ Goto(c, "bothRead", "hourCharged")
    /\ Insert(window[c], seenHour[c] + 1)
    /\ UNCHANGED <<clock, lock, local, history>>

\* The second insert, then Ok(true).
ChargeDay_Forgotten(c) ==
    /\ Goto(c, "hourCharged", "admitted")
    /\ Release(c)
    /\ admitted' = Charge(admitted, ChargedBy(c))
    /\ UNCHANGED <<clock, window, count, durable>>

ChargeDay(c) ==
    /\ Goto(c, "hourCharged", "admitted")
    /\ Insert(DayOf[window[c]], seenDay[c] + 1)
    /\ Release(c)
    /\ admitted' = Charge(admitted, ChargedBy(c))
    /\ UNCHANGED <<clock, window, recorded>>

\* One of the two reads or inserts fails: `?` drops the guard, the call ends
\* in a 500, and an hour already charged stays charged.
StoreFails(c) ==
    /\ pc[c] \in Critical
    /\ pc' = [pc EXCEPT ![c] = "idle"]
    /\ Release(c)
    /\ UNCHANGED <<clock, window, count, durable, admitted>>
-----------------------------------------------------------------------------
(* Restarts                                                                *)

\* A new process: no requests, a fresh mutex.
Restart ==
    /\ lock' = NoCall
    /\ pc' = [c \in Calls |-> "idle"]
    /\ seenHour' = [c \in Calls |-> 0]
    /\ seenDay' = [c \in Calls |-> 0]
    /\ UNCHANGED <<clock, window, recorded>>

\* The process dies; what it inserted is in the page cache and survives.
Crash ==
    /\ Restart
    /\ UNCHANGED <<count, recoverable, admitted>>

\* The machine loses power; any prefix of the unsynced inserts survives.
PowerCut ==
    /\ PowerMayFail
    /\ Restart
    /\ \E survived \in recoverable : count' = survived
    /\ recoverable' = {count'}
    /\ admitted' = [b \in Windows |-> 0]
-----------------------------------------------------------------------------
Reserve(c) ==
    \/ ReadHour(c)
    \/ ReadDay(c)
    \/ Refuse(c)
    \/ ChargeHour(c)
    \/ ChargeDay(c)
    \/ StoreFails(c)

Call(c) ==
    \/ StartCall(c)
    \/ Request(c)
    \/ Finish(c)
    \/ Acquire(c)
    \/ Reserve(c)
    \/ Record(c)
    \/ Abandon(c)

Next ==
    \/ \E c \in Calls : Call(c)
    \/ Tick
    \/ SyncElsewhere
    \/ Crash
    \/ PowerCut

Spec == Init /\ [][Next]_vars

\* Nothing is awaited while the lock is held, so its holder keeps running; the
\* mutex serves its waiters in order, so a waiter is passed over only finitely
\* often.
Fairness == \A c \in Calls : WF_vars(Reserve(c)) /\ SF_vars(Acquire(c))

FairSpec == Spec /\ Fairness
-----------------------------------------------------------------------------
TypeOK ==
    /\ clock \in Hours
    /\ lock \in Calls \cup {NoCall}
    /\ pc \in [Calls -> Points]
    /\ window \in [Calls -> Hours]
    /\ seenHour \in [Calls -> Nat]
    /\ seenDay \in [Calls -> Nat]
    /\ count \in [Windows -> Nat]
    /\ recoverable \subseteq [Windows -> Nat]
    /\ admitted \in [Windows -> Nat]
    /\ recorded \in [Windows -> Nat]

\* Unless the power fails, no window admits more recipients than its cap,
\* however many calls compete for the slots, are abandoned or crash: two calls
\* that read the same count must not both be admitted on it (store.rs, the
\* reason given for rate_limit_lock).
AdmittedWithinCap == \A b \in Windows : admitted[b] <= CapOf(b)

\* The slots of recorded deliveries are never forgotten, not even by a power
\* cut: reservations are only buffered, but the delivery row that follows each
\* is fsynced through the same journal, so the delivery ledger of a window
\* can't outgrow its cap by cutting the power between sends.
RecordedStaysCharged == \A s \in recoverable, b \in Windows : recorded[b] <= s[b]

\* No window is ever charged beyond its cap, in memory or after a power cut.
ChargedWithinCap == \A s \in recoverable \cup {count}, b \in Windows : s[b] <= CapOf(b)

\* Nothing but a power cut lowers a counter: a reservation never overwrites
\* another one's charge with the count it had read before it.
OnlyPowerCutsLowerCounts ==
    [][~PowerCut => \A b \in Windows : count'[b] >= count[b]]_vars

\* Every call that asks for a slot gets an answer, unless it gives up: a
\* refusal, an admission or an error each let the next caller in.
RequestsAnswered == \A c \in Calls : pc[c] = "waiting" ~> pc[c] # "waiting"

\* The charges of finished admissions: between its two inserts, an admission
\* hasn't happened yet.
InFlight(b) == lock # NoCall /\ pc[lock] = "hourCharged" /\ window[lock] = b
Spent(b) == IF InFlight(b) THEN count[b] - 1 ELSE count[b]

\* Slots are admitted as in SendBudget, each in one step.
Budget == INSTANCE SendBudget WITH spent <- [b \in Windows |-> Spent(b)]
ImplementsBudget == Budget!BudgetSpec
-----------------------------------------------------------------------------
(* The inductive invariant behind the safety properties                    *)

LockInv == \A c \in Calls : pc[c] \in Critical <=> lock = c

\* What the holder has read is still what the store holds.
ReadInv ==
    \A c \in Calls :
        /\ pc[c] \in {"hourRead", "bothRead"} => seenHour[c] = count[window[c]]
        /\ pc[c] \in {"bothRead", "hourCharged"} => seenDay[c] = count[DayOf[window[c]]]
        /\ pc[c] = "hourCharged" => count[window[c]] = seenHour[c] + 1 /\ HasRoom(c)

JournalInv ==
    /\ count \in recoverable
    /\ \A s \in recoverable, b \in Windows : recorded[b] <= s[b] /\ s[b] <= count[b]

\* Calls between their admission and its delivery row.
Unrecorded(b) == {c \in Calls : pc[c] = "admitted" /\ b \in ChargedBy(c)}

SlotInv ==
    \A b \in Windows :
        /\ count[b] <= CapOf(b)
        /\ admitted[b] <= Spent(b)
        /\ recorded[b] + Cardinality(Unrecorded(b)) <= Spent(b)

IInv == TypeOK /\ LockInv /\ ReadInv /\ JournalInv /\ SlotInv
=============================================================================
