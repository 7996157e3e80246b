---------------------------- MODULE Boot_proofs ----------------------------
(***************************************************************************)
(* No process gets past its configuration with a secret that isn't one, or *)
(* with a trusted range that covers anything but its prefix, whatever the  *)
(* environment, the least lengths, the widths of addresses and the setup.  *)
(* And in every file tree the store is opened outside of all partitions    *)
(* folders, and found again by the next process.                           *)
(***************************************************************************)
EXTENDS Boot, PathGuard_proofs, TrustedProxy_proofs

-----------------------------------------------------------------------------
(* Secrets                                                                 *)

\* The characters at a place.
LEMMA PairAt ==
    ASSUME NEW text \in Texts, NEW i \in Nat, i + 2 <= Len(text)
    PROVE  SubSeq(text, i + 1, i + 2) = <<text[i + 1], text[i + 2]>>
<1>1. Len(text) \in Nat /\ \A j \in 1 .. Len(text) : text[j] \in Characters
  BY DEF Texts
<1>2. /\ i + 1 \in Int /\ i + 2 \in Int /\ (i + 2) - (i + 1) + 1 = 2 /\ i + 1 <= i + 2
      /\ \A j \in i + 1 .. i + 2 : text[j] \in Characters
  BY <1>1
<1> DEFINE sub == SubSeq(text, i + 1, i + 2)
<1>3. /\ sub \in Seq(Characters) /\ Len(sub) = 2
      /\ \A j \in 1 .. 2 : sub[j] = text[(i + 1) + j - 1]
  BY <1>2, SubSeqProperties
<1> HIDE DEF sub
<1>4. sub[1] = text[i + 1] /\ sub[2] = text[i + 2]
  BY <1>3
<1>5. /\ <<text[i + 1], text[i + 2]>> \in Seq(Characters) /\ Len(<<text[i + 1], text[i + 2]>>) = 2
      /\ <<text[i + 1], text[i + 2]>>[1] = text[i + 1] /\ <<text[i + 1], text[i + 2]>>[2] = text[i + 2]
  BY <1>1
<1>6. sub = <<text[i + 1], text[i + 2]>>
  <2> DEFINE pair == <<text[i + 1], text[i + 2]>>
  <2>1. pair \in Seq(Characters) /\ Len(pair) = 2 /\ pair[1] = text[i + 1] /\ pair[2] = text[i + 2]
    BY <1>5
  <2> HIDE DEF pair
  <2>2. \A j \in 1 .. Len(sub) : sub[j] = pair[j]
    BY <2>1, <1>3, <1>4
  <2>3. sub = pair
    BY <2>1, <2>2, <1>3, SeqEqual
  <2> QED
    BY <2>3 DEF pair
<1> QED
  BY <1>6 DEF sub

LEMMA OneAt ==
    ASSUME NEW text \in Texts, NEW i \in Nat, i + 1 <= Len(text)
    PROVE  SubSeq(text, i + 1, i + 1) = <<text[i + 1]>>
<1>1. Len(text) \in Nat /\ \A j \in 1 .. Len(text) : text[j] \in Characters
  BY DEF Texts
<1>2. /\ i + 1 \in Int /\ (i + 1) - (i + 1) + 1 = 1 /\ i + 1 <= i + 1
      /\ \A j \in i + 1 .. i + 1 : text[j] \in Characters
  BY <1>1
<1> DEFINE sub == SubSeq(text, i + 1, i + 1)
           one == <<text[i + 1]>>
<1>3. /\ sub \in Seq(Characters) /\ Len(sub) = 1
      /\ \A j \in 1 .. 1 : sub[j] = text[(i + 1) + j - 1]
  <2> DEFINE k == i + 1
  <2>1. k \in Int /\ k <= k /\ k - k + 1 = 1 /\ \A j \in k .. k : text[j] \in Characters
    BY <1>2
  <2> HIDE DEF k
  <2>2. /\ SubSeq(text, k, k) \in Seq(Characters)
        /\ Len(SubSeq(text, k, k)) = IF k <= k THEN k - k + 1 ELSE 0
        /\ \A j \in 1 .. k - k + 1 : SubSeq(text, k, k)[j] = text[k + j - 1]
    BY <2>1, SubSeqProperties
  <2> QED
    BY <2>1, <2>2 DEF k
<1>4. one \in Seq(Characters) /\ Len(one) = 1 /\ one[1] = text[i + 1]
  BY <1>1
<1> HIDE DEF sub, one
<1>5. \A j \in 1 .. Len(sub) : sub[j] = one[j]
  BY <1>3, <1>4
<1>6. sub = one
  BY <1>3, <1>4, <1>5, SeqEqual
<1> QED
  BY <1>6 DEF sub, one

\* A text is found in another as the sequence of its characters.
LEMMA OccursTwo ==
    ASSUME NEW text \in Texts, NEW a, NEW b
    PROVE  Occurs(<<a, b>>, text) <=> \E i \in 1 .. Len(text) - 1 : text[i] = a /\ text[i + 1] = b
<1>1. Len(text) \in Nat
  BY DEF Texts
<1>2. ASSUME NEW i \in 0 .. Len(text) - 2
      PROVE  SubSeq(text, i + 1, i + 2) = <<a, b>> <=> text[i + 1] = a /\ text[i + 2] = b
  <2>1. SubSeq(text, i + 1, i + 2) = <<text[i + 1], text[i + 2]>>
    BY <1>1, PairAt
  <2> QED
    BY <2>1
<1>3. Occurs(<<a, b>>, text) <=> \E i \in 0 .. Len(text) - 2 : SubSeq(text, i + 1, i + 2) = <<a, b>>
  BY DEF Occurs
<1>4. Occurs(<<a, b>>, text) <=> \E i \in 0 .. Len(text) - 2 : text[i + 1] = a /\ text[i + 2] = b
  BY <1>2, <1>3
<1>5. ASSUME NEW i \in 0 .. Len(text) - 2, text[i + 1] = a, text[i + 2] = b
      PROVE  \E j \in 1 .. Len(text) - 1 : text[j] = a /\ text[j + 1] = b
  <2>1. i + 1 \in 1 .. Len(text) - 1 /\ (i + 1) + 1 = i + 2
    BY <1>1
  <2> QED
    BY <1>5, <2>1
<1>6. ASSUME NEW j \in 1 .. Len(text) - 1, text[j] = a, text[j + 1] = b
      PROVE  \E i \in 0 .. Len(text) - 2 : text[i + 1] = a /\ text[i + 2] = b
  <2>1. j - 1 \in 0 .. Len(text) - 2 /\ (j - 1) + 1 = j /\ (j - 1) + 2 = j + 1
    BY <1>1
  <2> QED
    BY <1>6, <2>1
<1> QED
  BY <1>4, <1>5, <1>6

LEMMA OccursOne ==
    ASSUME NEW text \in Texts, NEW a
    PROVE  Occurs(<<a>>, text) <=> a \in Range(text)
<1>1. Len(text) \in Nat /\ DOMAIN text = 1 .. Len(text)
  BY DEF Texts
<1>2. ASSUME NEW i \in 0 .. Len(text) - 1
      PROVE  SubSeq(text, i + 1, i + 1) = <<a>> <=> text[i + 1] = a
  <2>1. SubSeq(text, i + 1, i + 1) = <<text[i + 1]>>
    BY <1>1, OneAt
  <2> QED
    BY <2>1
<1>3. Occurs(<<a>>, text) <=> \E i \in 0 .. Len(text) - 1 : text[i + 1] = a
  <2>1. Occurs(<<a>>, text) <=> \E i \in 0 .. Len(text) - 1 : SubSeq(text, i + 1, i + 1) = <<a>>
    BY DEF Occurs
  <2> QED
    BY <1>2, <2>1
<1>4. a \in Range(text) <=> \E j \in 1 .. Len(text) : text[j] = a
  BY <1>1 DEF Range
<1>5. ASSUME NEW j \in 1 .. Len(text), text[j] = a
      PROVE  \E i \in 0 .. Len(text) - 1 : text[i + 1] = a
  <2>1. j - 1 \in 0 .. Len(text) - 1 /\ (j - 1) + 1 = j
    BY <1>1
  <2> QED
    BY <1>5, <2>1
<1>6. ASSUME NEW i \in 0 .. Len(text) - 1, text[i + 1] = a
      PROVE  \E j \in 1 .. Len(text) : text[j] = a
  <2>1. i + 1 \in 1 .. Len(text)
    BY <1>1
  <2> QED
    BY <1>6, <2>1
<1> QED
  BY <1>3, <1>4, <1>5, <1>6

\* What stands between the braces of a reference.
LEMMA NameOfRef ==
    ASSUME NEW text \in Texts, NEW n \in Texts,
           text = <<"$", "open">> \o n \o <<"close">>
    PROVE  /\ Len(text) = Len(n) + 3 /\ Name(text) = n
           /\ SubSeq(text, 1, 2) = <<"$", "open">> /\ text[Len(text)] = "close"
           /\ HasRef(text)
<1>1. /\ Len(n) \in Nat /\ Len(text) = Len(n) + 3
      /\ text[1] = "$" /\ text[2] = "open" /\ text[Len(n) + 3] = "close"
      /\ \A i \in 1 .. Len(n) : text[i + 2] = n[i]
  BY DEF Texts
<1>2. Name(text) = n
  <2>1. /\ Len(SubSeq(text, 3, Len(text) - 1)) = Len(n)
        /\ \A i \in 1 .. Len(n) : SubSeq(text, 3, Len(text) - 1)[i] = text[i + 2]
        /\ SubSeq(text, 3, Len(text) - 1) \in Seq(Characters)
    BY <1>1 DEF Texts
  <2>2. n \in Seq(Characters)
    BY DEF Texts
  <2> QED
    BY <1>1, <2>1, <2>2, SeqEqual DEF Name
<1>3. SubSeq(text, 1, 2) = <<"$", "open">>
  <2>0. 0 \in Nat /\ 0 + 2 <= Len(text)
    BY <1>1
  <2>1. SubSeq(text, 0 + 1, 0 + 2) = <<text[0 + 1], text[0 + 2]>>
    BY <2>0, PairAt, Zenon
  <2> QED
    BY <1>1, <2>1
<1>4. HasRef(text)
  <2>1. 1 \in 1 .. Len(text) - 1 /\ text[1] = "$" /\ text[1 + 1] = "open"
    BY <1>1
  <2>2. \E i \in 1 .. Len(text) - 1 : text[i] = "$" /\ text[i + 1] = "open"
    BY <2>1
  <2> QED
    BY <2>2, OccursTwo DEF HasRef
<1> QED
  BY <1>1, <1>2, <1>3, <1>4

\* A valid reference is its name in braces.
LEMMA RefIsItsName ==
    ASSUME NEW text \in Texts, IsValidEnvRef(text)
    PROVE  /\ Name(text) \in Texts /\ Name(text) # <<>>
           /\ text = <<"$", "open">> \o Name(text) \o <<"close">>
<1> DEFINE n == Name(text)
           whole == <<"$", "open">> \o n \o <<"close">>
<1>1. Len(text) \in Nat /\ Len(text) > 3 /\ text[Len(text)] = "close" /\ SubSeq(text, 1, 2) = <<"$", "open">>
  BY DEF IsValidEnvRef, Texts
<1>2. text[1] = "$" /\ text[2] = "open"
  <2>0. 0 \in Nat /\ 0 + 2 <= Len(text)
    BY <1>1
  <2>1. SubSeq(text, 0 + 1, 0 + 2) = <<text[0 + 1], text[0 + 2]>>
    BY <2>0, PairAt, Zenon
  <2>2. <<text[1], text[2]>> = <<"$", "open">>
    BY <1>1, <2>1
  <2> QED
    BY <2>2
<1>3. /\ n \in Texts /\ Len(n) = Len(text) - 3
      /\ \A i \in 1 .. Len(text) - 3 : n[i] = text[i + 2]
  BY <1>1 DEF Name, Texts
<1> HIDE DEF n
<1>4. /\ Len(whole) = Len(text)
      /\ whole \in Seq(Characters)
      /\ whole[1] = "$" /\ whole[2] = "open" /\ whole[Len(text)] = "close"
      /\ \A i \in 1 .. Len(text) - 3 : whole[i + 2] = n[i]
  BY <1>1, <1>3 DEF Texts, Characters
<1> HIDE DEF whole
<1>5. \A i \in 1 .. Len(text) : whole[i] = text[i]
  <2> SUFFICES ASSUME NEW i \in 1 .. Len(text) PROVE whole[i] = text[i]
    OBVIOUS
  <2>1. CASE i = 1 \/ i = 2 \/ i = Len(text)
    BY <1>1, <1>2, <1>4, <2>1
  <2>2. CASE i > 2 /\ i < Len(text)
    <3>1. i - 2 \in 1 .. Len(text) - 3 /\ (i - 2) + 2 = i
      BY <1>1, <2>2
    <3> QED
      BY <1>3, <1>4, <3>1
  <2> QED
    BY <1>1, <2>1, <2>2
<1>6. whole = text
  BY <1>4, <1>5, SeqEqual DEF Texts
<1>7. n # <<>>
  BY <1>1, <1>3
<1> QED
  BY <1>3, <1>6, <1>7 DEF n, whole

\* The checks let a text through just when it is a literal, or the reference of a
\* variable, whose value is long enough and no placeholder.
LEMMA ChecksAreExact ==
    ASSUME NEW text \in Texts, NEW m \in Nat \ {0}
    PROVE  (~Unresolved(text) /\ Strong(ResolveSecretEnv(text), m)) <=>
              \E value \in ValueOf(text) :
                  Len(value) >= m /\ "todo" \notin Range(value) /\ ResolveSecretEnv(text) = value
<1>1. HasRef(text) <=> ~Literal(text)
  BY OccursTwo DEF HasRef, Literal
<1>2. ASSUME NEW value \in Texts
      PROVE  Strong(value, m) <=> Len(value) >= m /\ "todo" \notin Range(value)
  BY OccursOne DEF Strong
<1>3. CASE ~HasRef(text)
  <2>1. ValueOf(text) = {text} /\ ResolveSecretEnv(text) = text /\ ~Unresolved(text)
    BY <1>1, <1>3 DEF ValueOf, ResolveSecretEnv, Unresolved
  <2> QED
    BY <1>2, <2>1
<1>4. CASE HasRef(text)
  <2> DEFINE Named(n) == /\ text = <<"$", "open">> \o n \o <<"close">>
                         /\ n # <<>> /\ n[1] = "A" /\ Range(n) \subseteq {"A", "0"}
  <2>1. ValueOf(text) = {Env[v] : v \in {n \in DOMAIN Env : Named(n)}}
    BY <1>1, <1>4 DEF ValueOf
  <2>2. ASSUME NEW n \in DOMAIN Env, Named(n)
        PROVE  IsValidEnvRef(text) /\ Name(text) = n
    <3>1. n \in Texts
      BY EnvAssumption
    <3>2. /\ Len(text) = Len(n) + 3 /\ Name(text) = n
          /\ SubSeq(text, 1, 2) = <<"$", "open">> /\ text[Len(text)] = "close"
      BY <2>2, <3>1, NameOfRef
    <3>3. Len(n) > 0 /\ Len(n) \in Nat /\ Head(n) = n[1]
      BY <2>2, <3>1 DEF Texts
    <3>4. \A i \in DOMAIN n : n[i] \in {"A", "0"}
      BY <2>2 DEF Range
    <3> QED
      BY <2>2, <3>2, <3>3, <3>4 DEF IsValidEnvRef
  <2>3. ASSUME IsValidEnvRef(text)
        PROVE  Named(Name(text))
    <3>1. Name(text) \in Texts /\ Name(text) # <<>> /\ text = <<"$", "open">> \o Name(text) \o <<"close">>
      BY <2>3, RefIsItsName
    <3>2. Head(Name(text)) = "A" /\ \A i \in DOMAIN Name(text) : Name(text)[i] \in {"A", "0"}
      BY <2>3 DEF IsValidEnvRef
    <3>3. Range(Name(text)) \subseteq {"A", "0"}
      BY <3>2 DEF Range
    <3>4. Head(Name(text)) = Name(text)[1]
      BY <3>1 DEF Texts
    <3> QED
      BY <3>1, <3>2, <3>3, <3>4
  <2> HIDE DEF Named
  <2>4. CASE IsValidEnvRef(text) /\ Name(text) \in DOMAIN Env
    <3>1. ValueOf(text) = {Env[Name(text)]}
      <4>1. {n \in DOMAIN Env : Named(n)} = {Name(text)}
        BY <2>2, <2>3, <2>4
      <4> QED
        BY <2>1, <4>1
    <3>2. ResolveSecretEnv(text) = Env[Name(text)] /\ Env[Name(text)] \in Texts
      BY <1>4, <2>4, EnvAssumption DEF ResolveSecretEnv
    <3>3. Strong(Env[Name(text)], m) => Env[Name(text)] # <<>>
      BY DEF Strong
    <3> QED
      BY <1>2, <1>4, <3>1, <3>2, <3>3 DEF Unresolved
  <2>5. CASE ~(IsValidEnvRef(text) /\ Name(text) \in DOMAIN Env)
    <3>1. ValueOf(text) = {}
      BY <2>1, <2>2, <2>5
    <3>2. Unresolved(text)
      BY <1>4, <2>5 DEF Unresolved, ResolveSecretEnv
    <3> QED
      BY <3>1, <3>2
  <2> QED
    BY <2>4, <2>5
<1> QED
  BY <1>3, <1>4

-----------------------------------------------------------------------------
(* The invariant: the setup stays, and what a process got past, or ended   *)
(* on, still holds of it                                                   *)

SetupTyped ==
    /\ \A f \in Fields : setup.secrets[f] \in Texts
    /\ \A t \in setup.trusted :
          t.addr \in Addresses \cup {Garbage} /\ t.len \in Seq(Nat) /\ Len(t.len) <= 1

Reasons == {"none", "config", "bind", "path", "database", "store", "smtp", "listen", "crash"}

BootInv ==
    /\ SetupTyped /\ stage \in Stages
    /\ why \in Reasons /\ opened \in BOOLEAN /\ strayed \in BOOLEAN /\ faults \in 0 .. MaxFaults
    /\ stage \notin {"stopped", "refused"} \/ opened => Accepted
    /\ stage \notin {"stopped", "refused", "loaded"} \/ opened => setup.bind # "malformed"
    /\ why = "config" => ~Accepted
    /\ why = "bind" => setup.bind = "malformed"

LEMMA InitBootInv == Init => BootInv
<1> SUFFICES ASSUME Init PROVE BootInv
  OBVIOUS
<1>1. PICK s \in Setups : setup = [s EXCEPT !.fs = <<>>]
  BY DEF Init
<1>2. setup.secrets = s.secrets /\ setup.trusted = s.trusted
  BY <1>1, SetupsAssumption
<1>3. SetupTyped
  BY <1>2, SetupsAssumption DEF SetupTyped
<1> QED
  <2>1. stage = "stopped" /\ why = "none" /\ opened = FALSE /\ strayed = FALSE /\ faults = 0
    BY DEF Init
  <2>2. faults \in 0 .. MaxFaults /\ why \in Reasons /\ stage \in Stages
    BY <2>1, FaultsAssumption DEF Reasons, Stages
  <2> QED
    BY <1>3, <2>1, <2>2 DEF BootInv

\* Nothing that the checks look at changes while a process runs or between two.
LEMMA SetupStays ==
    ASSUME setup' = setup
    PROVE  /\ SetupTyped' <=> SetupTyped
           /\ Accepted' <=> Accepted
<1>1. Trusted' = Trusted
  BY DEF Trusted
<1> QED
  BY <1>1 DEF SetupTyped, Accepted, Secret, CapsOk

LEMMA NextKeepsBootInv == BootInv /\ [Next]_vars => BootInv'
<1> SUFFICES ASSUME BootInv, [Next]_vars PROVE BootInv'
  OBVIOUS
<1>1. setup' = setup
  BY DEF Next, Main, Load, ParseBind, GuardRefuses, Open, OpenFails, Purge, BuildMailer, Listen,
         Crash, Restart, Refuse, vars
<1>2. (SetupTyped' <=> SetupTyped) /\ (Accepted' <=> Accepted)
  BY <1>1, SetupStays
<1>14. Fault => faults' \in 0 .. MaxFaults
  BY FaultsAssumption DEF Fault, BootInv
<1> USE DEF BootInv, Stages, Reasons, Reach, Refuse
<1>3. CASE UNCHANGED vars
  BY <1>2, <1>3 DEF vars
<1>4. CASE Load
  BY <1>1, <1>2, <1>4 DEF Load
<1>5. CASE ParseBind
  BY <1>1, <1>2, <1>5 DEF ParseBind
<1>6. CASE GuardRefuses
  BY <1>1, <1>2, <1>6 DEF GuardRefuses
<1>7. CASE Open
  <2>1. strayed' \in BOOLEAN
    BY <1>7 DEF Open
  <2> QED
    BY <1>1, <1>2, <1>7, <2>1 DEF Open
<1>8. CASE OpenFails
  BY <1>1, <1>2, <1>8, <1>14 DEF OpenFails
<1>9. CASE Purge
  BY <1>1, <1>2, <1>9, <1>14 DEF Purge
<1>10. CASE BuildMailer
  BY <1>1, <1>2, <1>10 DEF BuildMailer
<1>11. CASE Listen
  BY <1>1, <1>2, <1>11, <1>14 DEF Listen
<1>12. CASE Crash
  BY <1>1, <1>2, <1>12, <1>14 DEF Crash
<1>13. CASE Restart
  BY <1>1, <1>2, <1>13 DEF Restart
<1> QED
  BY <1>3, <1>4, <1>5, <1>6, <1>7, <1>8, <1>9, <1>10, <1>11, <1>12, <1>13 DEF Next, Main

\* What a process got past, or ended on, goes on being true of its setup.
THEOREM BootInvariance == Spec => []BootInv
BY InitBootInv, NextKeepsBootInv, PTL DEF Spec

-----------------------------------------------------------------------------
(* What the runs check                                                     *)

\* No process gets past its configuration with a secret that is a misspelt reference, a
\* placeholder, empty or short, and none with five good ones is turned away for them.
THEOREM SecretsSafe == Spec => []SecretsAreReal
<1>1. BootInv => SecretsAreReal
  <2> SUFFICES ASSUME BootInv PROVE SecretsAreReal
    OBVIOUS
  <2>1. ASSUME NEW f \in Fields
        PROVE  Fit(f) <=> ~Unresolved(setup.secrets[f]) /\ Strong(Secret(f), MinBytes[f])
    <3>1. setup.secrets[f] \in Texts /\ MinBytes[f] \in Nat \ {0}
      BY MinBytesAssumption DEF BootInv, SetupTyped
    <3> QED
      BY <3>1, ChecksAreExact DEF Fit, Secret
  <2>2. stage \notin {"stopped", "refused"} => \A f \in Fields : Fit(f)
    BY <2>1 DEF BootInv, Accepted
  <2>3. ASSUME why = "config", \A f \in Fields : Fit(f)
        PROVE  Refused \in Trusted \/ ~CapsOk \/ (setup.bind = "other" /\ Trusted = {})
    <3>1. ~Accepted
      BY <2>3 DEF BootInv
    <3> QED
      BY <2>1, <2>3, <3>1 DEF Accepted, BindPolicy
  <2> QED
    BY <2>2, <2>3 DEF SecretsAreReal
<1> QED
  BY <1>1, BootInvariance, PTL

\* A process that got past its configuration trusts the peers whose leading bits its
\* entries spell out and no others, and somebody if strangers reach it directly.
THEOREM RangesSafe == Spec => []RangesArePrefixes
<1>1. BootInv => RangesArePrefixes
  <2> SUFFICES ASSUME BootInv, stage = "loaded"
               PROVE  /\ \A t \in setup.trusted, peer \in Addresses :
                             Covers(ParseRange(t.addr, t.len), peer) <=> SharesPrefix(t.addr, t.len, peer)
                      /\ setup.bind = "other" => \E peer \in Addresses : IsTrusted(Trusted, peer)
    BY DEF RangesArePrefixes
  <2>1. Accepted
    BY DEF BootInv
  <2>2. ASSUME NEW t \in setup.trusted
        PROVE  /\ ParseRange(t.addr, t.len) # Refused /\ ParseRange(t.addr, t.len) \in Trusted
               /\ t.addr \in Addresses /\ t.len \in LengthTexts
    <3>1. ParseRange(t.addr, t.len) \in Trusted /\ ParseRange(t.addr, t.len) # Refused
      BY <2>1 DEF Accepted, Trusted
    <3>2. t.addr \in Addresses \cup {Garbage} /\ t.len \in Seq(Nat) /\ Len(t.len) <= 1
      BY DEF BootInv, SetupTyped
    <3>3. t.addr # Garbage
      BY <3>1 DEF ParseRange
    <3>4. t.len \in LengthTexts
      BY <3>2 DEF LengthTexts
    <3> QED
      BY <3>1, <3>2, <3>3, <3>4
  <2>3. ASSUME NEW t \in setup.trusted, NEW peer \in Addresses
        PROVE  Covers(ParseRange(t.addr, t.len), peer) <=> SharesPrefix(t.addr, t.len, peer)
    BY <2>2, RangesCoverPrefixes
  <2>4. ASSUME setup.bind = "other"
        PROVE  \E peer \in Addresses : IsTrusted(Trusted, peer)
    <3>1. PICK t \in setup.trusted : TRUE
      BY <2>1, <2>4 DEF Accepted, BindPolicy, Trusted
    <3>2. SharesPrefix(t.addr, t.len, t.addr)
      BY DEF SharesPrefix
    <3>3. Covers(ParseRange(t.addr, t.len), t.addr)
      BY <2>2, <2>3, <3>2
    <3> QED
      BY <2>2, <3>3 DEF IsTrusted
  <2> QED
    BY <2>3, <2>4
<1> QED
  BY <1>1, BootInvariance, PTL

-----------------------------------------------------------------------------
(* The directory                                                           *)

\* The file tree stays one, what has been opened is there and in nobody's partitions
\* unless it was reached by ".." out of a missing name, and a path that was refused
\* goes on being refused.
PlaceInv ==
    /\ IsTree(fs) /\ setup.dir \in Names
    /\ opened /\ ~strayed => /\ Canonicalize(fs, setup.dir).end = "found"
                             /\ ~Nested(Canonicalize(fs, setup.dir).at)
    /\ why = "path" => Verdict(fs, setup.dir) # "clear"

LEMMA InitPlaceInv == Init => PlaceInv
<1> SUFFICES ASSUME Init PROVE PlaceInv
  OBVIOUS
<1>1. PICK s \in Setups : setup = [s EXCEPT !.fs = <<>>] /\ fs = s.fs
  BY DEF Init
<1>2. setup.dir = s.dir /\ s.dir \in Names /\ IsTree(s.fs)
  BY <1>1, SetupsAssumption
<1> QED
  BY <1>1, <1>2 DEF Init, PlaceInv

LEMMA ToMakeIsMade == ToMake = Made(fs, setup.dir)
BY DEF ToMake, Made

\* A directory that is there passes the guard just when it lies in no partitions folder.
LEMMA VerdictOfFound ==
    ASSUME IsTree(fs), setup.dir \in Names, Canonicalize(fs, setup.dir).end = "found"
    PROVE  Verdict(fs, setup.dir) = "clear" <=> ~Nested(Canonicalize(fs, setup.dir).at)
BY ExistsClear DEF Verdict, VerdictOn

\* Some of the directories more, and all that is opened is where it was.
LEMMA OpenedStays ==
    ASSUME PlaceInv, opened, ~strayed, Grown(fs, fs'), setup' = setup
    PROVE  Canonicalize(fs', setup.dir) = Canonicalize(fs, setup.dir)
BY CanonicalStays DEF PlaceInv

LEMMA OpenKeepsPlaceInv ==
    ASSUME PlaceInv, Open
    PROVE  PlaceInv'
<1>1. /\ setup' = setup /\ why' = why /\ strayed' = (strayed \/ BackFromMissing(fs, setup.dir))
      /\ Verdict(fs, setup.dir) = "clear" /\ Creatable(fs, setup.dir)
  BY DEF Open, Reach
<1>2. IsTree(fs) /\ setup.dir \in Names
  BY DEF PlaceInv
<1>3. fs' = MakeDirs(fs, Range(Made(fs, setup.dir)))
  BY ToMakeIsMade DEF Open
<1>4. Grown(fs, fs')
  BY <1>1, <1>2, <1>3, TreeKept
<1>5. ASSUME ~strayed'
      PROVE  Canonicalize(fs', setup.dir).end = "found" /\ ~Nested(Canonicalize(fs', setup.dir).at)
  <2>1. ~BackFromMissing(fs, setup.dir)
    BY <1>1, <1>5
  <2>2. Locate(fs, setup.dir).end = "found" /\ Canonicalize(fs', setup.dir) = Locate(fs, setup.dir)
    BY <1>1, <1>2, <1>3, <2>1, MadeWhereJudged
  <2>3. CanonicalizeWithNonexistent(fs, setup.dir) = Locate(fs, setup.dir)
    BY <1>2, <2>1, <2>2, GuardFollowsTheKernel
  <2> QED
    BY <1>1, <2>2, <2>3 DEF Verdict, VerdictOn
<1>6. why # "path"
  BY <1>1 DEF PlaceInv
<1> QED
  BY <1>1, <1>2, <1>4, <1>5, <1>6 DEF PlaceInv, Grown

LEMMA OpenFailsKeepsPlaceInv ==
    ASSUME PlaceInv, OpenFails
    PROVE  PlaceInv'
<1>1. setup' = setup /\ why' = "database" /\ opened' = opened /\ strayed' = strayed
  BY DEF OpenFails, Refuse
<1>2. IsTree(fs) /\ setup.dir \in Names
  BY DEF PlaceInv
<1>3. Grown(fs, fs')
  <2>1. CASE fs' = MakeDirs(fs, Makeable(fs, setup.dir))
    BY <1>2, <2>1, TreeKept
  <2>2. CASE /\ Creatable(fs, setup.dir)
             /\ \E n \in 0 .. Len(ToMake) : fs' = MakeDirs(fs, Range(SubSeq(ToMake, 1, n)))
    <3>1. PICK n \in 0 .. Len(Made(fs, setup.dir)) :
              fs' = MakeDirs(fs, Range(SubSeq(Made(fs, setup.dir), 1, n)))
      BY <2>2, ToMakeIsMade
    <3> QED
      BY <1>2, <2>2, <3>1, TreeKept
  <2> QED
    BY <2>1, <2>2 DEF OpenFails
<1>4. opened /\ ~strayed => Canonicalize(fs', setup.dir) = Canonicalize(fs, setup.dir)
  BY <1>1, <1>3, OpenedStays
<1> QED
  BY <1>1, <1>2, <1>3, <1>4 DEF PlaceInv, Grown

LEMMA NextKeepsPlaceInv == PlaceInv /\ [Next]_vars => PlaceInv'
<1> SUFFICES ASSUME PlaceInv, [Next]_vars PROVE PlaceInv'
  OBVIOUS
<1>1. CASE Open
  BY <1>1, OpenKeepsPlaceInv
<1>2. CASE OpenFails
  BY <1>2, OpenFailsKeepsPlaceInv
<1>3. ASSUME fs' = fs, setup' = setup, opened' = opened, strayed' = strayed,
             why' # "path" \/ why' = why
      PROVE  PlaceInv'
  BY <1>3 DEF PlaceInv, Verdict, VerdictOn
<1>4. CASE GuardRefuses
  BY <1>4 DEF GuardRefuses, Refuse, PlaceInv
<1>5. CASE UNCHANGED vars \/ Load \/ ParseBind \/ Purge \/ BuildMailer \/ Listen \/ Crash \/ Restart
  <2>1. /\ fs' = fs /\ setup' = setup /\ opened' = opened /\ strayed' = strayed
        /\ why' # "path" \/ why' = why
    BY <1>5 DEF Load, ParseBind, Purge, BuildMailer, Listen, Crash, Restart, Refuse, vars
  <2> QED
    BY <1>3, <2>1
<1> QED
  BY <1>1, <1>2, <1>4, <1>5 DEF Next, Main

\* That goes on being true, from every setup.
THEOREM PlaceInvariance == Spec => []PlaceInv
<1>1. Init => PlaceInv
  BY InitPlaceInv
<1> QED
  BY <1>1, NextKeepsPlaceInv, PTL DEF Spec

\* The stages, the reasons and the counter have their types, and the file tree is one:
\* no attempt to open the store, however far it came, leaves an entry outside a directory.
THEOREM BootTyped == Spec => []BootTypeOK
<1>1. BootInv /\ PlaceInv => BootTypeOK
  BY DEF BootInv, Reasons, PlaceInv, BootTypeOK
<1> QED
  BY <1>1, BootInvariance, PlaceInvariance, PTL

\* The guard lets a directory pass just when what is written there stays out of every
\* partitions folder, through chains of links and names that don't exist yet, and gives up
\* on no chain of links that the kernel would follow.
THEOREM GuardExact == Spec => []GuardIsExact
<1>1. PlaceInv => GuardIsExact
  <2> SUFFICES ASSUME PlaceInv, Locate(fs, setup.dir).end = "found", ~BackFromMissing(fs, setup.dir)
               PROVE  Verdict(fs, setup.dir) = IF Nested(Locate(fs, setup.dir).at) THEN "nested" ELSE "clear"
    BY DEF GuardIsExact
  <2>1. CanonicalizeWithNonexistent(fs, setup.dir) = Locate(fs, setup.dir)
    BY GuardFollowsTheKernel DEF PlaceInv
  <2> QED
    BY <2>1 DEF Verdict, VerdictOn
<1> QED
  BY <1>1, PlaceInvariance, PTL

\* No store that has been opened lies in the partitions folder of another, unless it
\* was opened by ".." out of a directory that didn't exist then.
THEOREM OpensOutside == Spec => []OpenedIsOutside
<1>1. PlaceInv => OpenedIsOutside
  BY DEF PlaceInv, OpenedIsOutside
<1> QED
  BY <1>1, PlaceInvariance, PTL

\* A directory that the service has once opened, not by such a "..", is never refused
\* later, whatever the attempts in between have left half made.
THEOREM ReopensSafe == Spec => []ReopensWhatItOpened
<1>1. BootInv /\ PlaceInv => ReopensWhatItOpened
  <2> SUFFICES ASSUME BootInv, PlaceInv, opened, ~strayed PROVE why \notin {"config", "bind", "path"}
    BY DEF ReopensWhatItOpened
  <2>1. why \notin {"config", "bind"}
    BY DEF BootInv
  <2>2. Verdict(fs, setup.dir) = "clear"
    BY VerdictOfFound DEF PlaceInv
  <2> QED
    BY <2>1, <2>2 DEF PlaceInv
<1> QED
  BY <1>1, BootInvariance, PlaceInvariance, PTL
=============================================================================
