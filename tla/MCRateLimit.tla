---------------------------- MODULE MCRateLimit ----------------------------
(***************************************************************************)
(* RateLimit for TLC: two hours of one day, and one more history variable, *)
(* the delivery rows written in each hour of the clock, whichever window   *)
(* they were charged to.                                                   *)
(***************************************************************************)
EXTENDS RateLimit, FiniteSetsExt, TLC

CONSTANTS c1, c2, d1

MCCalls == {c1, c2}
MCHours == 1 .. 2
MCDays == {d1}
MCDayOf == [h \in MCHours |-> d1]

VARIABLE delivered

RollInit == Init /\ delivered = [h \in Hours |-> 0]

RollNext ==
    /\ Next
    /\ delivered' = IF \E b \in Windows : recorded'[b] # recorded[b]
                    THEN [delivered EXCEPT ![clock] = @ + 1] ELSE delivered

RollSpec == RollInit /\ [][RollNext]_<<vars, delivered>> /\ Fairness

\* The hours that have begun by the end of h, and the rows written in them.
Past(h) == {i \in Hours : i <= h}
DeliveredBy(h) == MapThenSumSet(LAMBDA i : delivered[i], Past(h))

(***************************************************************************)
(* A fan-out charges the hour it started in for as long as it runs         *)
(* (send.rs:134), so an hour of the clock may see deliveries beyond its    *)
(* cap.  It only catches up on what the hours before have left: by the end *)
(* of every hour, no more delivery rows have been written than the caps of *)
(* the hours, and of the days, until then allow together, whatever crashes *)
(* and power cuts came in between.                                         *)
(***************************************************************************)
DeliveriesKeepPace ==
    \A h \in Hours :
        /\ DeliveredBy(h) <= Cardinality(Past(h)) * HourlyCap
        /\ DeliveredBy(h) <= Cardinality({DayOf[i] : i \in Past(h)}) * DailyCap
=============================================================================
