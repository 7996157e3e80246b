--------------------------- MODULE ConsentContract ---------------------------
(***************************************************************************)
(* The consent of one address, as the pages and mails promise it: an       *)
(* opt-out starts a new epoch, and a mailed token has an effect only in    *)
(* the epoch it was minted in.                                             *)
(***************************************************************************)
EXTENDS Naturals

VARIABLES optedIn,    \* the address receives newsletters
          epoch,      \* how often it has been opted out
          leftBy,     \* what ended the last opt-in: "link", "relay" or "nothing"
          consents,   \* the epochs the address has opted in during
          invited,    \* the epochs a confirm token was minted in
          linked      \* the epochs an unsubscribe token was minted in

contractVars == <<optedIn, epoch, leftBy, consents, invited, linked>>

ContractInit ==
    /\ optedIn = FALSE
    /\ epoch = 0
    /\ leftBy = "nothing"
    /\ consents = {}
    /\ invited = {}
    /\ linked = {}

\* A confirm mail goes out; the epoch its token was minted in may be over.
Invite ==
    /\ \E e \in 0 .. epoch : invited' = invited \cup {e}
    /\ UNCHANGED <<optedIn, epoch, leftBy, consents, linked>>

\* A newsletter goes out, with an unsubscribe link, to somebody who opted in.
MailNewsletter ==
    /\ \E e \in consents : linked' = linked \cup {e}
    /\ UNCHANGED <<optedIn, epoch, leftBy, consents, invited>>

\* The address opts in, with a confirm token of this epoch.
OptIn ==
    /\ ~optedIn
    /\ epoch \in invited
    /\ optedIn' = TRUE
    /\ consents' = consents \cup {epoch}
    /\ UNCHANGED <<epoch, leftBy, invited, linked>>

Leave(by) ==
    /\ optedIn
    /\ optedIn' = FALSE
    /\ epoch' = epoch + 1
    /\ leftBy' = by
    /\ UNCHANGED <<consents, invited, linked>>

\* The address opts out, with an unsubscribe token of this epoch.
OptOut == epoch \in linked /\ Leave("link")

\* The relay reports a complaint or a hard bounce.
Suppressed == Leave("relay")

ContractNext == Invite \/ MailNewsletter \/ OptIn \/ OptOut \/ Suppressed

ContractSpec == ContractInit /\ [][ContractNext]_contractVars
=============================================================================
