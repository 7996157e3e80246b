-------------------------------- MODULE Boot --------------------------------
(***************************************************************************)
(* main: from the command line to a listening server.  A boot loads and    *)
(* checks the configuration, parses the bind address, opens the store past *)
(* the nested-keyspace guard, purges, builds the mail transport and binds. *)
(* An error at any of these ends the process, and the service manager      *)
(* (Restart=always) starts it again on what the last attempt left on disk. *)
(***************************************************************************)
EXTENDS Config, PathGuard, TrustedProxy, FiniteSets

CONSTANTS Setups,       \* what an operator may have put in place
          MaxFaults     \* bound: crashes and failures of the machine

ASSUME FaultsAssumption == MaxFaults \in Nat

\* What an operator can write: any text for a secret, any for an address, any for a length.
ASSUME SetupsAssumption ==
    \A s \in Setups :
        /\ DOMAIN s = {"secrets", "hour", "day", "bind", "trusted", "hostOk", "dir", "fs"}
        /\ \A f \in Fields : s.secrets[f] \in Texts
        /\ \A t \in s.trusted :
              /\ t.addr \in Addresses \cup {Garbage}
              /\ t.len \in Seq(Nat) /\ Len(t.len) <= 1
        /\ s.dir \in Names /\ IsTree(s.fs)

VARIABLES setup,        \* the configuration file
          fs,           \* the file tree
          stage,        \* how far main has come
          why,          \* what ended the last process
          opened,       \* history: the store has been opened here before
          strayed,      \* history: it was, by ".." out of a directory it had yet to make
          faults

vars == <<setup, fs, stage, why, opened, strayed, faults>>

Stages == {"stopped", "loaded", "parsed", "opened", "purged", "built", "serving", "refused"}

\* A setup: the text of every secret, the two caps, how bind parses, the
\* trusted_proxies texts, whether the relay's host is well formed, data_dir.
Init ==
    \E s \in Setups :
        /\ setup = [s EXCEPT !.fs = <<>>]
        /\ fs = s.fs
        /\ stage = "stopped"
        /\ why = "none"
        /\ opened = FALSE
        /\ strayed = FALSE
        /\ faults = 0

Secret(f) == ResolveSecretEnv(setup.secrets[f])

Trusted == {ParseRange(t.addr, t.len) : t \in setup.trusted}

CapsOk_Apart == setup.hour >= 1 /\ setup.day > setup.hour

CapsOk == setup.hour >= 1 /\ setup.day >= setup.hour

\* Config::load accepts the file.
Accepted ==
    /\ Refused \notin Trusted
    /\ \A f \in Fields : ~Unresolved(setup.secrets[f]) /\ Strong(Secret(f), MinBytes[f])
    /\ CapsOk
    /\ BindPolicy(setup.bind, Trusted)

Reach(from, to) == stage = from /\ stage' = to

Refuse(from, reason) ==
    /\ Reach(from, "refused")
    /\ why' = reason
    /\ UNCHANGED setup

Fault == faults < MaxFaults /\ faults' = faults + 1

Load ==
    /\ \/ Reach("stopped", "loaded") /\ Accepted /\ UNCHANGED <<setup, why>>
       \/ Refuse("stopped", "config") /\ ~Accepted
    /\ UNCHANGED <<fs, opened, strayed, faults>>

ParseBind ==
    /\ \/ setup.bind # "malformed" /\ Reach("loaded", "parsed") /\ UNCHANGED <<setup, why>>
       \/ setup.bind = "malformed" /\ Refuse("loaded", "bind")
    /\ UNCHANGED <<fs, opened, strayed, faults>>
-----------------------------------------------------------------------------
(* Store::open                                                             *)

ToMake_OwnFolder == <<Append(Locate(fs, setup.dir).at, "partitions")>>

\* What the database makes: the missing directories, then its own folder.
ToMake ==
    LET missing == Missing(fs, setup.dir)
        at == Locate(fs, setup.dir).at
    IN Append(missing, Append(at, "partitions"))

GuardRefuses ==
    /\ Refuse("parsed", "path")
    /\ Verdict(fs, setup.dir) # "clear"
    /\ UNCHANGED <<fs, opened, strayed, faults>>

Open ==
    /\ Reach("parsed", "opened")
    /\ Verdict(fs, setup.dir) = "clear"
    /\ Creatable(fs, setup.dir)
    /\ fs' = MakeDirs(fs, Range(ToMake))
    /\ opened' = TRUE
    /\ strayed' = (strayed \/ BackFromMissing(fs, setup.dir))
    /\ UNCHANGED <<setup, why, faults>>

\* The directory cannot be made, or the database fails: with some of it made.
OpenFails ==
    /\ Refuse("parsed", "database")
    /\ Verdict(fs, setup.dir) = "clear"
    /\ \/ /\ ~Creatable(fs, setup.dir)
          /\ fs' = MakeDirs(fs, Makeable(fs, setup.dir))
          /\ UNCHANGED faults
       \/ /\ Creatable(fs, setup.dir) /\ Fault
          /\ \E n \in 0 .. Len(ToMake) : fs' = MakeDirs(fs, Range(SubSeq(ToMake, 1, n)))
    /\ UNCHANGED <<opened, strayed>>
-----------------------------------------------------------------------------
Purge ==
    /\ \/ Reach("opened", "purged") /\ UNCHANGED <<setup, why, faults>>
       \/ Refuse("opened", "store") /\ Fault
    /\ UNCHANGED <<fs, opened, strayed>>

BuildMailer ==
    /\ \/ setup.hostOk /\ Reach("purged", "built") /\ UNCHANGED <<setup, why>>
       \/ ~setup.hostOk /\ Refuse("purged", "smtp")
    /\ UNCHANGED <<fs, opened, strayed, faults>>

Listen ==
    /\ \/ Reach("built", "serving") /\ UNCHANGED <<setup, why, faults>>
       \/ Refuse("built", "listen") /\ Fault
    /\ UNCHANGED <<fs, opened, strayed>>

Crash ==
    /\ stage \notin {"stopped", "refused"}
    /\ Fault
    /\ stage' = "refused"
    /\ why' = "crash"
    /\ UNCHANGED <<setup, fs, opened, strayed>>

\* The service manager starts the program again, whatever it exited with.
Restart == Reach("refused", "stopped") /\ UNCHANGED <<setup, fs, why, opened, strayed, faults>>

Main == Load \/ ParseBind \/ GuardRefuses \/ Open \/ OpenFails \/ Purge \/ BuildMailer \/ Listen

Next == Main \/ Crash \/ Restart \/ (stage = "serving" /\ UNCHANGED vars)

\* main runs until it serves or exits, and the service manager restarts it.
Spec == Init /\ [][Next]_vars /\ WF_vars(Main) /\ WF_vars(Restart)
-----------------------------------------------------------------------------
BootTypeOK ==
    /\ stage \in Stages
    /\ why \in {"none", "config", "bind", "path", "database", "store", "smtp", "listen", "crash"}
    /\ opened \in BOOLEAN /\ strayed \in BOOLEAN
    /\ faults \in 0 .. MaxFaults
    /\ IsTree(fs)

\* What a secret that ends up in use has to look like: a literal without a
\* reference in it, or the value of the variable the whole text names.
Literal(text) == ~\E i \in 1 .. Len(text) - 1 : text[i] = "$" /\ text[i + 1] = "open"

ValueOf(text) ==
    IF Literal(text) THEN {text}
    ELSE {Env[v] : v \in {n \in DOMAIN Env :
            /\ text = <<"$", "open">> \o n \o <<"close">>
            /\ n # <<>> /\ n[1] = "A" /\ Range(n) \subseteq {"A", "0"}}}

Fit(f) ==
    \E value \in ValueOf(setup.secrets[f]) :
        Len(value) >= MinBytes[f] /\ "todo" \notin Range(value) /\ Secret(f) = value

(***************************************************************************)
(* No process gets past its configuration with a secret that is a          *)
(* misspelt reference, a placeholder, empty or short, in any of the five   *)
(* fields, nor is one with five good secrets turned away for them.         *)
(***************************************************************************)
SecretsAreReal ==
    /\ stage \notin {"stopped", "refused"} => \A f \in Fields : Fit(f)
    /\ (why = "config" /\ \A f \in Fields : Fit(f)) =>
            Refused \in Trusted \/ ~CapsOk \/ (setup.bind = "other" /\ Trusted = {})

(***************************************************************************)
(* A trusted_proxies entry trusts the peers whose leading bits it spells   *)
(* out, at prefix lengths from 0 to the width of the family, whichever of  *)
(* the two shapes of an IPv4 address entry and peer come in; and a server  *)
(* that strangers reach directly has somebody to trust.                    *)
(***************************************************************************)
RangesArePrefixes ==
    stage = "loaded" =>
        /\ \A t \in setup.trusted, peer \in Addresses :
                Covers(ParseRange(t.addr, t.len), peer) <=> SharesPrefix(t.addr, t.len, peer)
        /\ setup.bind = "other" => \E peer \in Addresses : IsTrusted(Trusted, peer)

(***************************************************************************)
(* The guard lets a directory pass just when what is written there stays   *)
(* out of every partitions folder, through chains of links, links that     *)
(* lead nowhere yet, and names that don't exist yet; it gives up only on a *)
(* chain the kernel gives up on too.  A path that goes back out of a name  *)
(* which doesn't exist yet is not judged: the guard drops the "..".        *)
(***************************************************************************)
GuardIsExact ==
    LET verdict == Verdict(fs, setup.dir)
        place == Locate(fs, setup.dir)
    IN (stage = "parsed" /\ place.end = "found" /\ ~BackFromMissing(fs, setup.dir)) =>
           verdict = (IF Nested(place.at) THEN "nested" ELSE "clear")

(***************************************************************************)
(* A directory that the service has once opened is never refused later,    *)
(* whatever the attempts in between have left half made: a restart finds   *)
(* its own store again.  That is so unless it was opened by a ".." out of  *)
(* a directory that didn't exist then: the guard judged another path.      *)
(***************************************************************************)
ReopensWhatItOpened == opened /\ ~strayed => why \notin {"config", "bind", "path"}

(***************************************************************************)
(* What has been opened does not lie in a partitions folder, by the path   *)
(* the kernel takes to it from then on, unless it was opened by such a "..".*)
(***************************************************************************)
OpenedIsOutside == opened /\ ~strayed => ~Nested(Canonicalize(fs, setup.dir).at)

(***************************************************************************)
(* path.rs:8: "Refuse to open a keyspace whose path resolves INSIDE        *)
(* another keyspace's `partitions/` subdirectory."  The guard drops a ".." *)
(* that follows a name which doesn't exist yet; the kernel, once the name  *)
(* has been made, goes back by it, and on through whatever link is there.  *)
(***************************************************************************)
NeverOpensNested == opened => ~Nested(Canonicalize(fs, setup.dir).at)

\* Judged by what the setup says, not by what the checks say about it.
GoodSetup ==
    /\ \A f \in Fields : \E v \in ValueOf(setup.secrets[f]) :
            Len(v) >= MinBytes[f] /\ "todo" \notin Range(v)
    /\ setup.hour \in 1 .. setup.day
    /\ setup.bind # "malformed"
    /\ setup.bind = "other" => setup.trusted # {}
    /\ \A t \in setup.trusted :
            /\ t.addr # Garbage
            /\ t.len # <<>> => t.len[1] <= Width(ToCanonical(t.addr).family)
    /\ Creatable(fs, setup.dir) /\ ~BackFromMissing(fs, setup.dir)
    /\ ~Nested(Locate(fs, setup.dir).at)
    /\ setup.hostOk

(***************************************************************************)
(* A setup with nothing wrong in it gets the service up, in spite of any   *)
(* number of crashes and failures of the machine on the way.               *)
(***************************************************************************)
GoodSetupsServe == GoodSetup ~> stage = "serving"
=============================================================================
