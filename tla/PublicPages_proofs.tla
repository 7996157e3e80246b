------------------------- MODULE PublicPages_proofs -------------------------
(***************************************************************************)
(* Whatever the visitors, the widths and the bounds: nobody gets past the  *)
(* limiter on somebody else's account, verify undoes sign and every mailed *)
(* link reads back as it was minted, a preview says what the button will   *)
(* do, and the archive's index is honest about what it leaves out.         *)
(***************************************************************************)
EXTENDS PublicPages, TrustedProxy_proofs, SequenceTheorems, FiniteSetTheorems, TLAPS

-----------------------------------------------------------------------------
(* Tokens: verify undoes sign                                              *)

Texts == Seq(Nat)
Lacks(text, sep) == \A i \in DOMAIN text : text[i] # sep

\* Base64 comes back, and has no separator in it.
LEMMA EncodingInverts ==
    ASSUME NEW text \in Texts
    PROVE  /\ Encode(text) \in Texts
           /\ Decode(Encode(text)) = text
           /\ Encoded(Encode(text))
           /\ Lacks(Encode(text), Bar) /\ Lacks(Encode(text), Dot)
           /\ Len(Encode(text)) = Len(text)
<1>1. /\ Encode(text) \in Texts /\ Len(Encode(text)) = Len(text)
      /\ DOMAIN Encode(text) = DOMAIN text
      /\ \A i \in DOMAIN text : Encode(text)[i] = text[i] + Base /\ text[i] \in Nat
  BY DEF Texts, Encode, Base
<1>2. Decode(Encode(text)) = text
  BY <1>1 DEF Decode, Base, Texts
<1> QED
  BY <1>1, <1>2 DEF Encoded, Lacks, Bar, Dot, Base

\* A text is split where the first separator is...
LEMMA SplitsAtSeparator ==
    ASSUME NEW a \in Texts, NEW b \in Texts, NEW sep \in Nat, Lacks(a, sep)
    PROVE  SplitOnce(a \o <<sep>> \o b, sep) = [found |-> TRUE, part |-> a, rest |-> b]
<1> DEFINE text == a \o <<sep>> \o b
           First(i) == text[i] = sep /\ \A j \in 1 .. i - 1 : text[j] # sep
           n == Len(a) + 1
<1>1. /\ text \in Texts /\ Len(text) = Len(a) + 1 + Len(b)
      /\ \A i \in 1 .. Len(a) : text[i] = a[i]
      /\ text[n] = sep
      /\ \A i \in 1 .. Len(b) : text[n + i] = b[i]
      /\ n \in DOMAIN text /\ Len(a) \in Nat /\ Len(b) \in Nat
      /\ DOMAIN text = 1 .. Len(text)
  BY DEF Texts
<1>2. \A i \in 1 .. Len(a) : text[i] # sep
  BY <1>1 DEF Lacks, Texts
<1> HIDE DEF text
<1>3. First(n)
  BY <1>1, <1>2
<1>4. \A i \in DOMAIN text : First(i) => i = n
  <2> SUFFICES ASSUME NEW i \in DOMAIN text, First(i)
               PROVE  i = n
    OBVIOUS
  <2>1. i \in Nat /\ n \in Nat /\ 1 <= i
    BY <1>1
  <2>2. ~ i < n
    BY <1>1, <1>2, <2>1
  <2>3. ~ n < i
    <3> SUFFICES ASSUME n < i PROVE FALSE
      OBVIOUS
    <3>1. n \in 1 .. i - 1
      BY <2>1, <1>1
    <3> QED
      BY <3>1, <1>1
  <2> QED
    BY <2>1, <2>2, <2>3
<1>5. (CHOOSE i \in DOMAIN text : First(i)) = n
  BY <1>1, <1>3, <1>4
<1>6. SubSeq(text, 1, n - 1) = a
  BY <1>1 DEF Texts
<1>7. SubSeq(text, n + 1, Len(text)) = b
  <2> DEFINE rest == SubSeq(text, n + 1, Len(text))
  <2>1. Len(text) = n + Len(b) /\ n \in Nat /\ n >= 1 /\ Len(b) \in Nat
    BY <1>1
  <2>2. \A i \in n + 1 .. Len(text) : text[i] \in Nat
    BY <2>1, <1>1 DEF Texts
  <2>3. /\ rest \in Seq(Nat) /\ Len(rest) = Len(b)
        /\ \A i \in 1 .. Len(b) : rest[i] = text[n + 1 + i - 1]
    <3>1. n + 1 \in Int /\ Len(text) \in Int /\ Len(text) - (n + 1) + 1 = Len(b)
      BY <2>1
    <3> HIDE DEF n
    <3>2. /\ rest \in Seq(Nat)
          /\ Len(rest) = IF n + 1 <= Len(text) THEN Len(text) - (n + 1) + 1 ELSE 0
          /\ \A i \in 1 .. Len(text) - (n + 1) + 1 : rest[i] = text[n + 1 + i - 1]
      BY <3>1, <2>2, SubSeqProperties
    <3> QED
      BY <3>1, <3>2, <2>1
  <2>4. \A i \in 1 .. Len(b) : rest[i] = b[i]
    <3>1. \A i \in 1 .. Len(b) : n + 1 + i - 1 = n + i
      BY <2>1
    <3> QED
      BY <1>1, <2>3, <3>1
  <2> HIDE DEF rest
  <2> QED
    BY <2>3, <2>4, SeqEqual DEF Texts, rest
<1>8. ~ \A i \in DOMAIN text : text[i] # sep
  BY <1>1
<1>9. SplitOnce(text, sep) = [found |-> TRUE, part |-> a, rest |-> b]
  BY <1>5, <1>6, <1>7, <1>8 DEF SplitOnce
<1> QED
  BY <1>9 DEF text

\* ...and not at all without one.
LEMMA SplitsNowhere ==
    ASSUME NEW text, NEW sep, Lacks(text, sep)
    PROVE  SplitOnce(text, sep).found = FALSE
BY DEF SplitOnce, Lacks

LEMMA KindsAreTexts ==
    ASSUME NEW kind \in DOMAIN KindText
    PROVE  /\ KindText[kind] \in Texts /\ Lacks(KindText[kind], Bar)
           /\ (CHOOSE k \in DOMAIN KindText : KindText[k] = KindText[kind]) = kind
<1>1. DOMAIN KindText = {"confirm", "unsubscribe"}
  BY DEF KindText
<1>2. KindText["confirm"] = <<2>> /\ KindText["unsubscribe"] = <<3>>
  BY DEF KindText
<1>3. <<2>> # <<3>>
  OBVIOUS
<1>4. \A k \in DOMAIN KindText : KindText[k] = KindText[kind] => k = kind
  BY <1>1, <1>2, <1>3
<1>5. <<2>> \in Texts /\ <<3>> \in Texts /\ Lacks(<<2>>, Bar) /\ Lacks(<<3>>, Bar)
  BY DEF Texts, Lacks, Bar
<1> QED
  BY <1>1, <1>2, <1>4, <1>5

LEMMA DecimalsAreTexts ==
    ASSUME NEW n \in Nat
    PROVE  /\ Decimal(n) \in Texts /\ Lacks(Decimal(n), Bar)
           /\ IsDecimal(Decimal(n)) /\ Head(Decimal(n)) - 10 = n
BY DEF Decimal, IsDecimal, Texts, Lacks, Bar

\* Two texts, a bar between them.
Barred(a, b) == a \o <<Bar>> \o b

LEMMA BarredIsAText ==
    ASSUME NEW a \in Texts, NEW b \in Texts
    PROVE  Barred(a, b) \in Texts
BY DEF Barred, Texts, Bar

\* Which fields are put together first makes no difference.
LEMMA BarredAssociates ==
    ASSUME NEW a \in Texts, NEW b \in Texts, NEW c \in Texts
    PROVE  Barred(Barred(a, b), c) = Barred(a, Barred(b, c))
<1> DEFINE bar == <<Bar>>
           Join(x, y) == x \o y
<1>1. bar \in Texts
  BY DEF Bar, Texts
<1>2. \A x, y \in Texts : Join(x, y) \in Texts
  BY DEF Texts
<1>3. ASSUME NEW x \in Texts, NEW y \in Texts, NEW z \in Texts
      PROVE  Join(Join(x, y), z) = Join(x, Join(y, z))
  <2>1. x \in Seq(Nat) /\ y \in Seq(Nat) /\ z \in Seq(Nat)
    BY DEF Texts
  <2>2. (x \o y) \o z = x \o (y \o z)
    BY <2>1, ConcatAssociative
  <2> QED
    BY <2>2
<1>4. \A x, y \in Texts : Barred(x, y) = Join(Join(x, bar), y)
  BY DEF Barred
<1> HIDE DEF bar, Join
<1>5. Join(a, bar) \in Texts /\ Join(b, bar) \in Texts
  BY <1>1, <1>2
<1>6. Join(Join(Join(a, bar), b), bar) = Join(Join(a, bar), Join(b, bar))
  BY <1>5, <1>1, <1>3
<1>7. Join(Join(Join(Join(a, bar), b), bar), c) = Join(Join(a, bar), Join(Join(b, bar), c))
  BY <1>5, <1>6, <1>3
<1> QED
  BY <1>4, <1>7, BarredIsAText

\* The fields of a payload come back out of it.
LEMMA PayloadReadsBack ==
    ASSUME NEW t \in WireTokens
    PROVE  Payload(t) \in Texts /\ Parse(Payload(t)) = t
<1> DEFINE kind == KindText[t.kind]
           email == Encode(t.email)
           exp == Decimal(t.exp)
           gen == Decimal(t.gen)
<1>1. /\ t.kind \in DOMAIN KindText /\ t.email \in Texts /\ t.exp \in Nat /\ t.gen \in Nat
      /\ t = WireToken(t.kind, t.email, t.exp, t.gen)
  BY DEF WireTokens, WireToken, Texts
<1>2. /\ kind \in Texts /\ Lacks(kind, Bar)
      /\ (CHOOSE k \in DOMAIN KindText : KindText[k] = kind) = t.kind
  BY <1>1, KindsAreTexts
<1>3. email \in Texts /\ Lacks(email, Bar) /\ Encoded(email) /\ Decode(email) = t.email
  BY <1>1, EncodingInverts
<1>4. exp \in Texts /\ Lacks(exp, Bar) /\ IsDecimal(exp) /\ Head(exp) - 10 = t.exp
  BY <1>1, DecimalsAreTexts
<1>5. gen \in Texts /\ IsDecimal(gen) /\ Head(gen) - 10 = t.gen
  BY <1>1, DecimalsAreTexts
<1>6. kind \in {KindText[k] : k \in DOMAIN KindText}
  BY <1>1
<1>7. Payload(t) = Barred(Barred(Barred(kind, email), exp), gen)
  BY DEF Payload, Barred
<1> HIDE DEF kind, email, exp, gen
<1> DEFINE rest2 == Barred(exp, gen)
           rest1 == Barred(email, rest2)
<1>8. rest2 \in Texts /\ rest1 \in Texts /\ Barred(email, exp) \in Texts
  BY <1>3, <1>4, <1>5, BarredIsAText
<1>9. Payload(t) = Barred(kind, rest1)
  <2>1. Barred(Barred(kind, email), exp) = Barred(kind, Barred(email, exp))
    BY <1>2, <1>3, <1>4, BarredAssociates
  <2>2. Barred(Barred(kind, Barred(email, exp)), gen) = Barred(kind, Barred(Barred(email, exp), gen))
    BY <1>2, <1>5, <1>8, BarredAssociates
  <2>3. Barred(Barred(email, exp), gen) = rest1
    BY <1>3, <1>4, <1>5, BarredAssociates
  <2> QED
    BY <2>1, <2>2, <2>3, <1>7
<1>10. Payload(t) \in Texts
  BY <1>2, <1>8, <1>9, BarredIsAText
<1>11. SplitOnce(Payload(t), Bar) = [found |-> TRUE, part |-> kind, rest |-> rest1]
  BY <1>2, <1>8, <1>9, SplitsAtSeparator DEF Bar, Barred
<1>12. SplitOnce(rest1, Bar) = [found |-> TRUE, part |-> email, rest |-> rest2]
  BY <1>3, <1>8, SplitsAtSeparator DEF Bar, Barred
<1>13. SplitOnce(rest2, Bar) = [found |-> TRUE, part |-> exp, rest |-> gen]
  BY <1>4, <1>5, SplitsAtSeparator DEF Bar, Barred
<1> HIDE DEF rest1, rest2
<1>14. Parse(Payload(t)) = WireToken(t.kind, t.email, t.exp, t.gen)
  <2> DEFINE p == Payload(t)
             first == SplitOnce(p, Bar)
             second == SplitOnce(first.rest, Bar)
             third == SplitOnce(second.rest, Bar)
  <2>1. first.found /\ first.part = kind /\ first.rest = rest1
    BY <1>11
  <2>2. second.found /\ second.part = email /\ second.rest = rest2
    BY <2>1, <1>12
  <2>3. third.found /\ third.part = exp /\ third.rest = gen
    BY <2>2, <1>13
  <2>4. Parse(p) =
          IF /\ first.found /\ second.found /\ third.found
             /\ first.part \in {KindText[k] : k \in DOMAIN KindText}
             /\ Encoded(second.part) /\ IsDecimal(third.part) /\ IsDecimal(third.rest)
          THEN WireToken(CHOOSE k \in DOMAIN KindText : KindText[k] = first.part,
                         Decode(second.part), Head(third.part) - 10, Head(third.rest) - 10)
          ELSE InvalidToken
    BY Zenon DEF Parse
  <2> HIDE DEF p, first, second, third
  <2>5. Parse(p) = WireToken(CHOOSE k \in DOMAIN KindText : KindText[k] = kind,
                             Decode(email), Head(exp) - 10, Head(gen) - 10)
    BY <2>1, <2>2, <2>3, <2>4, <1>3, <1>4, <1>5, <1>6, Zenon
  <2>6. p = Payload(t)
    BY Zenon DEF p
  <2> QED
    BY <2>5, <2>6, <1>2, <1>3, <1>4, <1>5, Zenon
<1> QED
  BY <1>1, <1>14, <1>10

\* A payload of three fields, as an earlier release wrote it, has nothing to parse as a
\* generation.
LEMMA LegacyPayloadUnread ==
    ASSUME NEW t \in WireTokens
    PROVE  LET old == KindText[t.kind] \o <<Bar>> \o Encode(t.email) \o <<Bar>> \o Decimal(t.exp)
           IN old \in Texts /\ Parse(old) = InvalidToken
<1> DEFINE kind == KindText[t.kind]
           email == Encode(t.email)
           exp == Decimal(t.exp)
           rest1 == Barred(email, exp)
           old == Barred(Barred(kind, email), exp)
<1>1. t.kind \in DOMAIN KindText /\ t.email \in Texts /\ t.exp \in Nat
  BY DEF WireTokens, Texts
<1>2. /\ kind \in Texts /\ Lacks(kind, Bar)
      /\ email \in Texts /\ Lacks(email, Bar)
      /\ exp \in Texts /\ Lacks(exp, Bar)
  BY <1>1, KindsAreTexts, EncodingInverts, DecimalsAreTexts
<1> HIDE DEF kind, email, exp
<1>3. rest1 \in Texts /\ old = Barred(kind, rest1)
  BY <1>2, BarredIsAText, BarredAssociates
<1>4. old \in Texts
  BY <1>2, <1>3, BarredIsAText
<1>5. SplitOnce(old, Bar) = [found |-> TRUE, part |-> kind, rest |-> rest1]
  BY <1>2, <1>3, SplitsAtSeparator DEF Bar, Barred
<1>6. SplitOnce(rest1, Bar) = [found |-> TRUE, part |-> email, rest |-> exp]
  BY <1>2, SplitsAtSeparator DEF Bar, Barred
<1>7. SplitOnce(exp, Bar).found = FALSE
  BY <1>2, SplitsNowhere
<1> HIDE DEF old, rest1
<1>8. Parse(old) = InvalidToken
  BY <1>5, <1>6, <1>7 DEF Parse
<1> QED
  BY <1>4, <1>8 DEF old, kind, email, exp, Barred

\* What is signed under one secret is opened by the same secret only, and then says
\* what its payload says until it expires.
LEMMA SignedOpens ==
    ASSUME NEW payload \in Texts, NEW key \in Nat, NEW other \in Nat, NEW time \in Nat
    PROVE  Verify(Signed(payload, key), other, time) =
              IF key = other /\ Parse(payload).exp >= time THEN Parse(payload) ELSE InvalidToken
<1> DEFINE left == Encode(payload)
           right == Encode(Hmac(key, payload))
<1>1. left \in Texts /\ Lacks(left, Dot) /\ Encoded(left) /\ Decode(left) = payload
  BY EncodingInverts
<1>2. Hmac(key, payload) \in Texts
  BY DEF Hmac, Texts
<1>3. right \in Texts /\ Encoded(right) /\ Decode(right) = Hmac(key, payload)
  BY <1>2, EncodingInverts
<1>4. Hmac(key, payload) = Hmac(other, payload) <=> key = other
  <2>1. Hmac(key, payload)[1] = key /\ Hmac(other, payload)[1] = other
    BY DEF Hmac, Texts
  <2> QED
    BY <2>1
<1>5. Signed(payload, key) = left \o <<Dot>> \o right
  BY DEF Signed
<1> HIDE DEF left, right
<1>6. SplitOnce(Signed(payload, key), Dot) = [found |-> TRUE, part |-> left, rest |-> right]
  BY <1>1, <1>3, <1>5, SplitsAtSeparator DEF Dot
<1> QED
  BY <1>1, <1>3, <1>4, <1>6 DEF Verify

\* verify undoes sign, for every address whatever characters it has, every expiry,
\* generation and secret, up to and including the second of the expiry, and under no
\* other secret.
THEOREM VerifyUndoesSign ==
    ASSUME NEW t \in WireTokens, NEW key \in Nat, NEW other \in Nat, NEW time \in Nat
    PROVE  Verify(Sign(t, key), other, time) =
              IF key = other /\ t.exp >= time THEN t ELSE InvalidToken
BY PayloadReadsBack, SignedOpens DEF Sign

\* A token of a release without generations is invalid under every secret, and so
\* cannot be replayed after an unsubscribe.
THEOREM LegacyNeverVerifies ==
    ASSUME NEW t \in WireTokens, NEW key \in Nat, NEW other \in Nat, NEW time \in Nat
    PROVE  Verify(SignLegacy(t, key), other, time) = InvalidToken
BY LegacyPayloadUnread, SignedOpens DEF SignLegacy

-----------------------------------------------------------------------------
(* The inductive invariant                                                 *)

\* A link in the mail was made by sign, under a secret this service has had.
LinksInv ==
    \A l \in links :
        \/ l = LegacyLink
        \/ l.token \in WireTokens /\ l.secret \in Nat /\ l = Link(l.token, l.secret)

\* A visitor's bucket and what it has let in since the process started.
LimiterInv ==
    \A v \in Visitors :
        /\ served[v] + tokens[v.addr] \in Burst .. Burst + now - 1
        /\ v \in denied => served[v] >= Burst

\* The index has finitely many ids to put in order.
IdsInv == IsFiniteSet(sends) /\ sends \subseteq Nat

PagesInv == PagesTypeOK /\ LinksInv /\ LimiterInv /\ IdsInv

-----------------------------------------------------------------------------
(* The limiter's key                                                       *)

\* What a proxy appends is what counts.
LEMMA LastIsForwarded ==
    ASSUME NEW S, NEW s \in Seq(S), NEW a \in S
    PROVE  Forwarded(s \o <<a>>) = a
<1> DEFINE t == s \o <<a>>
<1>1. <<a>> \in Seq(S) /\ Len(<<a>>) = 1 /\ <<a>>[1] = a
  OBVIOUS
<1>2. /\ Len(t) = Len(s) + 1 /\ Len(s) \in Nat /\ t \in Seq(S)
      /\ t[Len(s) + 1] = IF Len(s) + 1 <= Len(s) THEN s[Len(s) + 1] ELSE <<a>>[Len(s) + 1 - Len(s)]
  BY <1>1, ConcatProperties
<1> HIDE DEF t
<1>3. t # <<>> /\ t[Len(t)] = a
  BY <1>1, <1>2
<1> QED
  BY <1>3 DEF Forwarded, t

\* Whatever X-Forwarded-For a visitor sends, and in whichever shape the peer is
\* reported, the request is counted under the visitor's own address.
LEMMA KeyIsOwn ==
    ASSUME NEW v \in Visitors
    PROVE  Keys(v) = {v.addr}
<1>1. /\ v.addr \in Addresses /\ ToCanonical(v.addr) = v.addr /\ v.addr # Garbage
      /\ v.proxied \in BOOLEAN
  BY VisitorsAssumption, CanonicalIsStable
<1>2. Peers(v) # {}
  <2>1. (IF v.proxied THEN Proxy ELSE v.addr) \in Peers(v)
    BY VisitorsAssumption DEF Peers
  <2> QED
    BY <2>1
<1>3. Headers(v) # {}
  BY DEF Headers
<1>4. ASSUME NEW peer \in Peers(v), NEW xff \in Headers(v)
      PROVE  ExtractKey({ProxyRange}, peer, xff) = v.addr
  <2>1. CASE v.proxied
    <3>1. ToCanonical(peer) = Proxy
      BY <2>1 DEF Peers
    <3>2. IsTrusted({ProxyRange}, Proxy)
      BY VisitorsAssumption DEF IsTrusted
    <3>3. Forwarded(xff) = v.addr
      <4>1. PICK forged \in {<<>>} \cup {<<f>> : f \in Forgeries} : xff = forged \o <<v.addr>>
        BY <2>1 DEF Headers
      <4>2. forged \in Seq(Forgeries \cup {v.addr}) /\ v.addr \in Forgeries \cup {v.addr}
        <5>1. CASE forged = <<>>
          BY <5>1
        <5>2. CASE forged # <<>>
          <6>1. PICK f \in Forgeries : forged = <<f>>
            BY <4>1, <5>2
          <6> QED
            BY <6>1
        <5> QED
          BY <5>1, <5>2
      <4> QED
        BY <4>1, <4>2, LastIsForwarded
    <3> QED
      BY <1>1, <3>1, <3>2, <3>3 DEF ExtractKey
  <2>2. CASE ~v.proxied
    <3>1. ToCanonical(peer) = v.addr
      BY <2>2 DEF Peers
    <3>2. ~IsTrusted({ProxyRange}, v.addr)
      BY <2>2, VisitorsAssumption DEF IsTrusted
    <3> QED
      BY <3>1, <3>2 DEF ExtractKey
  <2> QED
    BY <1>1, <2>1, <2>2
<1> QED
  BY <1>2, <1>3, <1>4 DEF Keys

-----------------------------------------------------------------------------
(* Links                                                                   *)

\* What a link verifies as.
LEMMA LinkVerifies ==
    ASSUME LinksInv, secret \in Nat, now \in Nat \ {0}, NEW l \in links
    PROVE  /\ Verify(l.raw, secret, now) =
                 IF l.secret = secret /\ now <= l.token.exp THEN l.token ELSE InvalidToken
           /\ Verify(l.raw, secret, now) \in WireTokens \cup {InvalidToken}
<1>1. CASE l = LegacyLink
  <2> DEFINE t == WireToken("unsubscribe", Email, MaxNow, 0)
  <2>1. t \in WireTokens
    BY EmailAssumption, BoundsAssumption DEF WireToken, WireTokens, KindText
  <2>2. l.raw = SignLegacy(t, 1) /\ l.token = InvalidToken
    BY <1>1 DEF LegacyLink
  <2>3. Verify(l.raw, secret, now) = InvalidToken
    BY <2>1, <2>2, LegacyNeverVerifies
  <2> QED
    BY <2>2, <2>3
<1>2. CASE l.token \in WireTokens /\ l.secret \in Nat /\ l = Link(l.token, l.secret)
  <2>1. l.raw = Sign(l.token, l.secret)
    BY <1>2 DEF Link
  <2>2. Verify(l.raw, secret, now) =
          IF l.secret = secret /\ l.token.exp >= now THEN l.token ELSE InvalidToken
    BY <1>2, <2>1, VerifyUndoesSign
  <2>3. l.token.exp \in Nat
    BY <1>2 DEF WireTokens
  <2> QED
    BY <1>2, <2>2, <2>3
<1> QED
  BY <1>1, <1>2 DEF LinksInv

-----------------------------------------------------------------------------
(* The archive                                                             *)

\* Finitely many ids can be listed in falling order: the place of one is the number
\* of those above it.
LEMMA NewestFirstLists ==
    ASSUME NEW ids \in SUBSET Nat, IsFiniteSet(ids)
    PROVE  /\ Cardinality(ids) \in Nat
           /\ NewestFirst(ids) \in [1 .. Cardinality(ids) -> ids]
           /\ \A i, j \in 1 .. Cardinality(ids) :
                 i < j => NewestFirst(ids)[i] > NewestFirst(ids)[j]
           /\ \A id \in ids : \E i \in 1 .. Cardinality(ids) : NewestFirst(ids)[i] = id
<1> DEFINE n == Cardinality(ids)
           Above(x) == {y \in ids : y > x}
           rank == [x \in ids |-> Cardinality(Above(x)) + 1]
           s == [i \in 1 .. n |-> CHOOSE x \in ids : rank[x] = i]
<1>0. \A x \in ids : x \in Nat
  OBVIOUS
<1>1. n \in Nat
  BY FS_CardinalityType
<1>2. ASSUME NEW x \in ids
      PROVE  IsFiniteSet(Above(x)) /\ Cardinality(Above(x)) \in Nat /\ Cardinality(Above(x)) < n
  <2>1. IsFiniteSet(Above(x)) /\ Cardinality(Above(x)) <= n /\ (n = Cardinality(Above(x)) => ids = Above(x))
    BY FS_Subset
  <2>2. ids # Above(x)
    <3>1. x \notin Above(x)
      OBVIOUS
    <3> QED
      BY <3>1
  <2> QED
    BY <1>1, <2>1, <2>2, FS_CardinalityType
<1>3. ASSUME NEW x \in ids, NEW y \in ids, x < y
      PROVE  rank[y] < rank[x]
  <2>1. Above(y) \cup {y} \in SUBSET Above(x) /\ y \notin Above(y)
    <3>1. x \in Nat /\ y \in Nat /\ \A z \in ids : z \in Nat
      BY <1>0
    <3> HIDE DEF rank, n
    <3>2. \A z \in Above(y) : z \in ids /\ z > x
      BY <1>3, <3>1
    <3>3. \A z \in Above(y) : z \in Above(x)
      BY <3>2
    <3>4. y \in Above(x) /\ y \notin Above(y)
      BY <1>3, <3>1
    <3> HIDE DEF Above
    <3> QED
      BY <3>3, <3>4
  <2>2. IsFiniteSet(Above(y) \cup {y}) /\ Cardinality(Above(y) \cup {y}) = Cardinality(Above(y)) + 1
    BY <1>2, <2>1, FS_AddElement
  <2>3. Cardinality(Above(y) \cup {y}) <= Cardinality(Above(x))
    BY <1>2, <2>1, FS_Subset
  <2> QED
    BY <1>2, <2>2, <2>3
<1>4. rank \in [ids -> 1 .. n]
  BY <1>1, <1>2
<1> HIDE DEF rank
<1>5. rank \in Injection(ids, 1 .. n)
  <2>1. \A x, y \in ids : rank[x] = rank[y] => x = y
    <3> SUFFICES ASSUME NEW x \in ids, NEW y \in ids, rank[x] = rank[y], x # y
                 PROVE  FALSE
      OBVIOUS
    <3>1. x < y \/ y < x
      OBVIOUS
    <3>2. rank[x] \in Nat /\ rank[y] \in Nat
      BY <1>4
    <3> QED
      BY <1>3, <3>1, <3>2
  <2> QED
    BY <1>4, <2>1 DEF Injection, IsInjective
<1>6. IsFiniteSet(1 .. n) /\ Cardinality(1 .. n) = n
  <2> HIDE DEF n
  <2>1. IsFiniteSet(1 .. n) /\ Cardinality(1 .. n) = IF 1 > n THEN 0 ELSE n - 1 + 1
    BY <1>1, FS_Interval
  <2> QED
    BY <1>1, <2>1
<1>7. rank \in Surjection(ids, 1 .. n)
  <2> DEFINE T == 1 .. n
  <2>1. rank \in Injection(ids, T) /\ IsFiniteSet(T) /\ Cardinality(ids) = Cardinality(T)
    BY <1>5, <1>6
  <2> HIDE DEF T
  <2>2. rank \in Surjection(ids, T)
    BY <2>1, FS_Injection
  <2> QED
    BY <2>2 DEF T
<1>8. \A i \in 1 .. n : s[i] \in ids /\ rank[s[i]] = i
  BY <1>7 DEF Surjection
<1> HIDE DEF s
<1>9. s \in [1 .. n -> ids]
  BY <1>8 DEF s
<1>10. \A i, j \in 1 .. n : i < j => s[i] > s[j]
  <2> SUFFICES ASSUME NEW i \in 1 .. n, NEW j \in 1 .. n, i < j, ~(s[i] > s[j])
               PROVE  FALSE
    OBVIOUS
  <2>1. s[i] \in ids /\ s[j] \in ids /\ rank[s[i]] = i /\ rank[s[j]] = j
    BY <1>8
  <2>2. s[i] < s[j] \/ s[i] = s[j]
    <3>1. s[i] \in Nat /\ s[j] \in Nat
      BY <1>0, <2>1
    <3> QED
      BY <3>1
  <2>3. i \in Nat /\ j \in Nat
    OBVIOUS
  <2>4. ASSUME s[i] < s[j]
        PROVE  rank[s[j]] < rank[s[i]]
    BY <1>3, <2>1, <2>4
  <2> QED
    BY <2>1, <2>2, <2>3, <2>4
<1>11. \A id \in ids : \E i \in 1 .. n : s[i] = id
  <2> SUFFICES ASSUME NEW id \in ids
               PROVE  s[rank[id]] = id /\ rank[id] \in 1 .. n
    OBVIOUS
  <2>1. rank[id] \in 1 .. n
    BY <1>4
  <2>2. s[rank[id]] \in ids /\ rank[s[rank[id]]] = rank[id]
    BY <1>8, <2>1
  <2> QED
    BY <1>5, <2>1, <2>2 DEF Injection, IsInjective
<1> DEFINE Lists(t) == /\ \A i, j \in DOMAIN t : i < j => t[i] > t[j]
                       /\ \A id \in ids : \E i \in DOMAIN t : t[i] = id
<1>12. DOMAIN s = 1 .. n
  BY <1>9
<1>13. Lists(s)
  BY <1>10, <1>11, <1>12
<1>14. NewestFirst(ids) = CHOOSE t \in [1 .. n -> ids] : Lists(t)
  BY DEF NewestFirst
<1> HIDE DEF Lists, n
<1>15. NewestFirst(ids) \in [1 .. n -> ids] /\ Lists(NewestFirst(ids))
  BY <1>9, <1>13, <1>14
<1>16. DOMAIN NewestFirst(ids) = 1 .. n
  BY <1>15
<1> QED
  BY <1>1, <1>15, <1>16 DEF Lists, n

-----------------------------------------------------------------------------
(* It holds at first, and every step keeps it                              *)

LEMMA InitPagesInv == Init => PagesInv
<1> SUFFICES ASSUME Init PROVE PagesInv
  OBVIOUS
<1>1. PagesTypeOK
  BY BoundsAssumption DEF Init, PagesTypeOK
<1>2. LinksInv
  BY DEF Init, LinksInv
<1>3. LimiterInv
  BY BoundsAssumption, VisitorsAssumption DEF Init, LimiterInv
<1>4. IdsInv
  BY FS_EmptySet DEF Init, IdsInv
<1> QED
  BY <1>1, <1>2, <1>3, <1>4 DEF PagesInv

\* A request let in takes a token from its visitor's bucket and from no other.
LEMMA AdmitKeepsLimiter ==
    ASSUME PagesInv, NEW v \in Visitors, Admit(v), now' = now
    PROVE  /\ tokens' \in [Addresses -> 0 .. Burst] /\ served' \in [Visitors -> Nat]
           /\ denied' = {} /\ LimiterInv'
<1>1. /\ tokens \in [Addresses -> 0 .. Burst] /\ served \in [Visitors -> Nat]
      /\ Burst \in Nat /\ now \in Nat
      /\ v.addr \in Addresses
      /\ \A u \in Visitors : u.addr \in Addresses /\ (u.addr = v.addr => u = v)
  BY BoundsAssumption, VisitorsAssumption DEF PagesInv, PagesTypeOK
<1>2. /\ tokens[v.addr] > 0
      /\ tokens' = [tokens EXCEPT ![v.addr] = @ - 1]
      /\ served' = [served EXCEPT ![v] = @ + 1]
      /\ denied' = {}
  BY KeyIsOwn DEF Admit, Calm
<1>3. tokens' \in [Addresses -> 0 .. Burst]
  BY <1>1, <1>2
<1>4. served' \in [Visitors -> Nat]
  BY <1>1, <1>2
<1>5. ASSUME NEW u \in Visitors
      PROVE  served'[u] + tokens'[u.addr] = served[u] + tokens[u.addr]
  <2>1. CASE u = v
    <3>1. served'[v] = served[v] + 1 /\ tokens'[v.addr] = tokens[v.addr] - 1
      BY <1>1, <1>2
    <3>2. served[v] \in Nat /\ tokens[v.addr] \in Nat
      BY <1>1
    <3> QED
      BY <2>1, <3>1, <3>2
  <2>2. CASE u # v
    BY <1>1, <1>2, <2>2
  <2> QED
    BY <2>1, <2>2
<1>6. LimiterInv'
  BY <1>2, <1>5 DEF PagesInv, LimiterInv
<1> QED
  BY <1>2, <1>3, <1>4, <1>6

LEMMA TickKeepsInv ==
    ASSUME PagesInv, Tick
    PROVE  PagesInv'
<1>1. /\ tokens \in [Addresses -> 0 .. Burst] /\ served \in [Visitors -> Nat]
      /\ Burst \in Nat /\ now \in Nat /\ now >= 1 /\ MaxNow \in Nat
      /\ \A u \in Visitors : u.addr \in Addresses
  BY BoundsAssumption, VisitorsAssumption DEF PagesInv, PagesTypeOK
<1>2. /\ now < MaxNow /\ now' = now + 1 /\ denied' = {}
      /\ tokens' = [k \in Addresses |-> IF tokens[k] < Burst THEN tokens[k] + 1 ELSE Burst]
      /\ secret' = secret /\ sends' = sends
      /\ row' = row /\ links' = links /\ served' = served
  BY DEF Tick, Calm, consent
<1>3. PagesTypeOK'
  <2>1. tokens' \in [Addresses -> 0 .. Burst]
    BY <1>1, <1>2
  <2>2. now' \in 1 .. MaxNow
    BY <1>1, <1>2
  <2> QED
    BY <1>2, <2>1, <2>2 DEF PagesInv, PagesTypeOK
<1>4. LimiterInv'
  <2> SUFFICES ASSUME NEW u \in Visitors
               PROVE  served[u] + tokens'[u.addr] \in Burst .. Burst + now'- 1
    BY <1>2 DEF LimiterInv
  <2>1. /\ served[u] + tokens[u.addr] \in Burst .. Burst + now - 1
        /\ served[u] \in Nat /\ tokens[u.addr] \in 0 .. Burst
    BY <1>1 DEF PagesInv, LimiterInv
  <2>2. tokens'[u.addr] = IF tokens[u.addr] < Burst THEN tokens[u.addr] + 1 ELSE Burst
    BY <1>1, <1>2
  <2> QED
    BY <1>1, <1>2, <2>1, <2>2
<1>5. LinksInv' /\ IdsInv'
  BY <1>2 DEF PagesInv, LinksInv, IdsInv
<1> QED
  BY <1>3, <1>4, <1>5 DEF PagesInv

LEMMA DenyKeepsInv ==
    ASSUME PagesInv, NEW v \in Visitors, Deny(v)
    PROVE  PagesInv'
<1>1. /\ tokens[v.addr] = 0 /\ denied' = {v}
      /\ now' = now /\ secret' = secret /\ sends' = sends
      /\ row' = row /\ links' = links /\ tokens' = tokens /\ served' = served
  BY KeyIsOwn DEF Deny, consent
<1>2. PagesTypeOK'
  BY <1>1 DEF PagesInv, PagesTypeOK
<1>3. LinksInv' /\ IdsInv'
  BY <1>1 DEF PagesInv, LinksInv, IdsInv
<1>4. LimiterInv'
  <2>1. served[v] \in Nat /\ Burst \in Nat /\ served[v] + 0 \in Burst .. Burst + now - 1
    BY <1>1, BoundsAssumption DEF PagesInv, PagesTypeOK, LimiterInv
  <2>2. served[v] >= Burst
    BY <2>1
  <2>3. \A u \in denied' : u = v
    BY <1>1
  <2> QED
    BY <1>1, <2>2, <2>3 DEF PagesInv, LimiterInv
<1> QED
  BY <1>2, <1>3, <1>4 DEF PagesInv

LEMMA ViewKeepsInv ==
    ASSUME PagesInv, NEW v \in Visitors, View(v)
    PROVE  PagesInv'
<1>1. /\ Admit(v) /\ now' = now /\ secret' = secret /\ sends' = sends
      /\ row' = row /\ links' = links
  BY DEF View, consent
<1>2. /\ tokens' \in [Addresses -> 0 .. Burst] /\ served' \in [Visitors -> Nat]
      /\ denied' = {} /\ LimiterInv'
  BY <1>1, AdmitKeepsLimiter
<1>3. PagesTypeOK'
  BY <1>1, <1>2 DEF PagesInv, PagesTypeOK
<1>4. LinksInv' /\ IdsInv'
  BY <1>1 DEF PagesInv, LinksInv, IdsInv
<1> QED
  BY <1>2, <1>3, <1>4 DEF PagesInv

\* A link signed now is one the invariant knows.
LEMMA MailKeepsLinks ==
    ASSUME LinksInv, secret \in {1, 2}, NEW t \in WireTokens, links' = links \cup {Link(t, secret)}
    PROVE  LinksInv'
<1>1. Link(t, secret).token = t /\ Link(t, secret).secret = secret
  BY DEF Link
<1>2. ASSUME NEW l \in links \cup {Link(t, secret)}
      PROVE  \/ l = LegacyLink
             \/ l.token \in WireTokens /\ l.secret \in Nat /\ l = Link(l.token, l.secret)
  BY <1>1, <1>2 DEF LinksInv
<1> QED
  BY <1>2 DEF LinksInv, LegacyLink

LEMMA SubscribeKeepsInv ==
    ASSUME PagesInv, NEW v \in Visitors, Subscribe(v)
    PROVE  PagesInv'
<1> DEFINE t == WireToken("confirm", Email, now + ConfirmTtl, row.gen)
<1>1. /\ Admit(v) /\ now' = now /\ secret' = secret /\ sends' = sends
      /\ row' = row /\ links' = links \cup {Link(t, secret)}
  BY DEF Subscribe, Mail
<1>2. /\ tokens' \in [Addresses -> 0 .. Burst] /\ served' \in [Visitors -> Nat]
      /\ denied' = {} /\ LimiterInv'
  BY <1>1, AdmitKeepsLimiter
<1>3. PagesTypeOK'
  BY <1>1, <1>2 DEF PagesInv, PagesTypeOK
<1>4. IdsInv'
  BY <1>1 DEF PagesInv, IdsInv
<1>5. t \in WireTokens
  <2>1. now + ConfirmTtl \in Nat /\ row.gen \in Nat
    BY BoundsAssumption DEF PagesInv, PagesTypeOK
  <2> QED
    BY <2>1, EmailAssumption DEF WireToken, WireTokens, KindText
<1> HIDE DEF t
<1>6. LinksInv'
  BY <1>1, <1>5, MailKeepsLinks DEF PagesInv, PagesTypeOK
<1> QED
  BY <1>2, <1>3, <1>4, <1>6 DEF PagesInv

\* Whatever a link does to the row leaves a row.
LEMMA AppliedIsARow ==
    ASSUME PagesInv, NEW l \in links, NEW kind \in DOMAIN KindText
    PROVE  Applied(l, kind) \in [state : {"Absent", "Pending", "Active", "Unsubscribed"}, gen : Nat]
<1> DEFINE t == Verify(l.raw, secret, now)
<1>1. /\ row \in [state : {"Absent", "Pending", "Active", "Unsubscribed"}, gen : 0 .. MaxGen]
      /\ now \in Nat \ {0} /\ secret \in Nat /\ MaxGen \in Nat
  BY BoundsAssumption DEF PagesInv, PagesTypeOK
<1>2. t.gen \in Nat
  <2>1. t \in WireTokens \cup {InvalidToken}
    BY <1>1, LinkVerifies DEF PagesInv
  <2> QED
    BY <2>1 DEF WireTokens, InvalidToken, WireToken
<1> HIDE DEF t
<1>3. Confirmed(t) \in [state : {"Absent", "Pending", "Active", "Unsubscribed"}, gen : Nat]
  BY <1>1, <1>2 DEF Confirmed
<1>4. Unsubscribed(t) \in [state : {"Absent", "Pending", "Active", "Unsubscribed"}, gen : Nat]
  BY <1>1 DEF Unsubscribed
<1> QED
  BY <1>1, <1>3, <1>4 DEF Applied, t

LEMMA PostKeepsInv ==
    ASSUME PagesInv, NEW v \in Visitors, Post(v)
    PROVE  PagesInv'
<1>1. /\ Admit(v) /\ now' = now /\ secret' = secret /\ sends' = sends
      /\ links' = links /\ row'.gen <= MaxGen
  BY DEF Post
<1>2. /\ tokens' \in [Addresses -> 0 .. Burst] /\ served' \in [Visitors -> Nat]
      /\ denied' = {} /\ LimiterInv'
  BY <1>1, AdmitKeepsLimiter
<1>3. row' \in [state : {"Absent", "Pending", "Active", "Unsubscribed"}, gen : 0 .. MaxGen]
  <2>1. row' \in [state : {"Absent", "Pending", "Active", "Unsubscribed"}, gen : Nat]
    BY AppliedIsARow DEF Post
  <2> QED
    BY <1>1, <2>1, BoundsAssumption
<1>4. PagesTypeOK'
  BY <1>1, <1>2, <1>3 DEF PagesInv, PagesTypeOK
<1>5. LinksInv' /\ IdsInv'
  BY <1>1 DEF PagesInv, LinksInv, IdsInv
<1> QED
  BY <1>2, <1>4, <1>5 DEF PagesInv

LEMMA PublishKeepsInv ==
    ASSUME PagesInv, NEW id \in SendIds, Publish(id)
    PROVE  PagesInv'
<1> DEFINE t == WireToken("unsubscribe", Email, now + UnsubscribeTtl, row.gen)
<1>1. /\ now' = now /\ secret' = secret /\ row' = row /\ tokens' = tokens /\ served' = served
      /\ denied' = {} /\ sends' = sends \cup {id}
      /\ links' = links \cup {Link(t, secret)} \/ links' = links
  BY DEF Publish, ResolveSend, MailWayOut, Mail, Calm
<1>2. PagesTypeOK'
  BY <1>1 DEF PagesInv, PagesTypeOK
<1>3. LimiterInv'
  BY <1>1 DEF PagesInv, LimiterInv
<1>4. LinksInv'
  <2>1. t \in WireTokens
    <3>1. now + UnsubscribeTtl \in Nat /\ row.gen \in Nat
      BY BoundsAssumption DEF PagesInv, PagesTypeOK
    <3> QED
      BY <3>1, EmailAssumption DEF WireToken, WireTokens, KindText
  <2> HIDE DEF t
  <2>2. CASE links' = links
    BY <1>1, <2>2 DEF PagesInv, LinksInv
  <2>3. CASE links' = links \cup {Link(t, secret)}
    BY <2>1, <2>3, MailKeepsLinks DEF PagesInv, PagesTypeOK
  <2> QED
    BY <1>1, <2>2, <2>3 DEF t
<1>5. IdsInv'
  BY <1>1, SendIdsAssumption, FS_AddElement DEF PagesInv, IdsInv
<1> QED
  BY <1>2, <1>3, <1>4, <1>5 DEF PagesInv

LEMMA RestartKeepsInv ==
    ASSUME PagesInv, Restart
    PROVE  PagesInv'
<1>1. /\ secret' \in {secret, 2} /\ tokens' = [k \in Addresses |-> Burst]
      /\ served' = [v \in Visitors |-> 0] /\ denied' = {}
      /\ now' = now /\ row' = row /\ links' = links /\ sends' = sends
  BY DEF Restart, Calm, consent
<1>2. Burst \in Nat /\ now \in 1 .. MaxNow /\ \A u \in Visitors : u.addr \in Addresses
  BY BoundsAssumption, VisitorsAssumption DEF PagesInv, PagesTypeOK
<1>3. PagesTypeOK'
  BY <1>1, <1>2 DEF PagesInv, PagesTypeOK
<1>4. LimiterInv'
  BY <1>1, <1>2, BoundsAssumption DEF LimiterInv
<1>5. LinksInv'
  BY <1>1 DEF PagesInv, LinksInv
<1>6. IdsInv'
  BY <1>1 DEF PagesInv, IdsInv
<1> QED
  BY <1>3, <1>4, <1>5, <1>6 DEF PagesInv

LEMMA NextKeepsPagesInv == PagesInv /\ [Next]_vars => PagesInv'
<1> SUFFICES ASSUME PagesInv, [Next]_vars PROVE PagesInv'
  OBVIOUS
<1>1. CASE UNCHANGED vars
  BY <1>1 DEF vars, consent, limiter, PagesInv, PagesTypeOK, LinksInv, LimiterInv, IdsInv
<1>2. CASE Tick
  BY <1>2, TickKeepsInv
<1>3. CASE \E id \in SendIds : Publish(id)
  BY <1>3, PublishKeepsInv
<1>4. CASE Restart
  BY <1>4, RestartKeepsInv
<1>5. CASE \E v \in Visitors : Deny(v)
  BY <1>5, DenyKeepsInv
<1>6. CASE \E v \in Visitors : View(v)
  BY <1>6, ViewKeepsInv
<1>7. CASE \E v \in Visitors : Subscribe(v)
  BY <1>7, SubscribeKeepsInv
<1>8. CASE \E v \in Visitors : Post(v)
  BY <1>8, PostKeepsInv
<1> QED
  BY <1>1, <1>2, <1>3, <1>4, <1>5, <1>6, <1>7, <1>8 DEF Next

\* The limiter's buckets, the mailed links and the ids stay what the properties below
\* rest on.
THEOREM PagesInvariance == Spec => []PagesInv
BY InitPagesInv, NextKeepsPagesInv, PTL DEF Spec

\* The state of the public side has its type.
THEOREM PagesTypeCorrect == Spec => []PagesTypeOK
<1>1. PagesInv => PagesTypeOK
  BY DEF PagesInv
<1> QED
  BY <1>1, PagesInvariance, PTL

-----------------------------------------------------------------------------
(* What the runs check                                                     *)

\* Nobody gets more requests through than a burst and a token for every tick, in
\* whatever shape a peer is reported and whatever is forged.
THEOREM BudgetSafe == Spec => []BudgetKept
<1>1. PagesInv => BudgetKept
  <2> SUFFICES ASSUME PagesInv, NEW v \in Visitors
               PROVE  served[v] <= Burst + now - 1
    BY DEF BudgetKept
  <2>1. /\ served[v] + tokens[v.addr] \in Burst .. Burst + now - 1
        /\ served[v] \in Nat /\ tokens[v.addr] \in Nat /\ Burst \in Nat /\ now \in Nat
    BY BoundsAssumption, VisitorsAssumption DEF PagesInv, PagesTypeOK, LimiterInv
  <2> QED
    BY <2>1
<1> QED
  BY <1>1, PagesInvariance, PTL

\* Who is turned away has had a burst of requests let in.
THEOREM OwnBucketSafe == Spec => []OwnBucket
<1>1. PagesInv => OwnBucket
  BY DEF PagesInv, PagesTypeOK, LimiterInv, OwnBucket
<1> QED
  BY <1>1, PagesInvariance, PTL

\* Every mailed link verifies as what it was minted for, until it expires or the secret
\* is another one, and a link of an earlier release never does.
THEOREM LinksSafe == Spec => []LinksReadBack
<1>1. PagesInv => LinksReadBack
  <2> SUFFICES ASSUME PagesInv PROVE LinksReadBack
    OBVIOUS
  <2>1. LinksInv /\ secret \in Nat /\ now \in Nat \ {0}
    BY BoundsAssumption DEF PagesInv, PagesTypeOK
  <2> QED
    BY <2>1, LinkVerifies DEF LinksReadBack
<1> QED
  BY <1>1, PagesInvariance, PTL

\* The page a GET shows is the page a POST of the same link would act on.
THEOREM PreviewSafe == Spec => []PreviewIsHonest
<1>1. PagesInv => PreviewIsHonest
  <2> SUFFICES ASSUME PagesInv, NEW l \in links, NEW kind \in DOMAIN KindText
               PROVE  LET reached == IF kind = "confirm" THEN "Active" ELSE "Unsubscribed"
                          valid == Verify(l.raw, secret, now).kind = kind
                      IN Preview(l, kind) =
                            IF Applied(l, kind) # row THEN "button"
                            ELSE IF valid /\ row.state = reached THEN "done" ELSE "invalid"
    BY DEF PreviewIsHonest
  <2> DEFINE t == Verify(l.raw, secret, now)
  <2>1. kind \in {"confirm", "unsubscribe"}
    BY DEF KindText
  <2>2. row \in [state : {"Absent", "Pending", "Active", "Unsubscribed"}, gen : 0 .. MaxGen]
    BY DEF PagesInv, PagesTypeOK
  <2>3. row.gen \in Nat /\ row.gen + 1 # row.gen
    BY <2>2, BoundsAssumption
  <2> HIDE DEF t
  <2>4. Confirmed(t) # row <=> row.state = "Absent" \/ (row.state # "Active" /\ row.gen = t.gen)
    BY <2>2 DEF Confirmed
  <2>5. Unsubscribed(t) # row <=> row.state \in {"Pending", "Active"} /\ row.gen = t.gen
    BY <2>2, <2>3 DEF Unsubscribed
  <2>6. CASE t.kind # kind
    BY <2>6 DEF Preview, Applied, t
  <2>7. CASE t.kind = kind /\ kind = "confirm"
    <3>1. Preview(l, kind) = PreviewConfirm(t) /\ Applied(l, kind) = Confirmed(t)
      BY <2>7 DEF Preview, Applied, t
    <3>2. PreviewConfirm(t) = IF Confirmed(t) # row THEN "button"
                              ELSE IF row.state = "Active" THEN "done" ELSE "invalid"
      BY <2>2, <2>4 DEF PreviewConfirm
    <3> QED
      BY <2>7, <3>1, <3>2 DEF t
  <2>8. CASE t.kind = kind /\ kind = "unsubscribe"
    <3>1. Preview(l, kind) = PreviewUnsubscribe(t) /\ Applied(l, kind) = Unsubscribed(t)
      BY <2>8 DEF Preview, Applied, t
    <3>2. PreviewUnsubscribe(t) = IF Unsubscribed(t) # row THEN "button"
                                  ELSE IF row.state = "Unsubscribed" THEN "done" ELSE "invalid"
      BY <2>2, <2>5 DEF PreviewUnsubscribe
    <3> QED
      BY <2>8, <3>1, <3>2 DEF t
  <2> QED
    BY <2>1, <2>6, <2>7, <2>8
<1> QED
  BY <1>1, PagesInvariance, PTL

\* The index lists the newest ids, at most a page of them, and says whether there are
\* more.
LEMMA IndexIsNewest ==
    ASSUME IdsInv
    PROVE  LET n == Cardinality(sends)
               size == IF n > IndexLimit THEN IndexLimit ELSE n
           IN /\ n \in Nat /\ DOMAIN Index.listed = 1 .. size /\ Len(Index.listed) = size
              /\ \A i \in 1 .. size : Index.listed[i] = NewestFirst(sends)[i]
              /\ Index.truncated <=> n > IndexLimit
<1> DEFINE n == Cardinality(sends)
           all == NewestFirst(sends)
           size == IF n > IndexLimit THEN IndexLimit ELSE n
           want == IF n < IndexLimit + 1 THEN n ELSE IndexLimit + 1
           found == SubSeq(all, 1, want)
<1>1. n \in Nat /\ all \in [1 .. n -> sends]
  BY NewestFirstLists DEF IdsInv
<1>2. IndexLimit \in Nat
  BY BoundsAssumption
<1> HIDE DEF n, all
<1>3. Len(all) = n /\ all \in Seq(sends)
  BY <1>1
<1>4. RecentSends(IndexLimit + 1) = found
  BY <1>3 DEF RecentSends, all
<1>5. want \in 0 .. n /\ want <= IndexLimit + 1
  BY <1>1, <1>2
<1>6. /\ found \in Seq(sends) /\ Len(found) = want
      /\ \A i \in 1 .. want : found[i] = all[i]
  <2>1. \A i \in 1 .. want : all[i] \in sends
    BY <1>1, <1>5
  <2> HIDE DEF want
  <2>2. /\ found \in Seq(sends)
        /\ Len(found) = IF 1 <= want THEN want - 1 + 1 ELSE 0
        /\ \A i \in 1 .. want - 1 + 1 : found[i] = all[1 + i - 1]
    BY <2>1, <1>5, <1>1, SubSeqProperties
  <2> HIDE DEF found
  <2> QED
    BY <2>2, <1>5, <1>1
<1> DEFINE page == SubSeq(found, 1, IndexLimit)
<1>7. Index = [listed |-> IF Len(found) > IndexLimit THEN page ELSE found,
               truncated |-> Len(found) > IndexLimit]
  BY <1>4 DEF Index
<1>8. (Len(found) > IndexLimit) <=> (n > IndexLimit)
  BY <1>1, <1>2, <1>6
<1>9. CASE n > IndexLimit
  <2>1. want = IndexLimit + 1 /\ size = IndexLimit
    BY <1>1, <1>2, <1>9
  <2>2. \A i \in 1 .. IndexLimit : found[i] \in sends /\ found[i] = all[i]
    BY <1>1, <1>2, <1>5, <1>6, <2>1
  <2> HIDE DEF found
  <2>3. /\ page \in Seq(sends)
        /\ Len(page) = IF 1 <= IndexLimit THEN IndexLimit - 1 + 1 ELSE 0
        /\ \A i \in 1 .. IndexLimit - 1 + 1 : page[i] = found[1 + i - 1]
    BY <2>2, <1>2, SubSeqProperties
  <2>4. Index.listed = page
    BY <1>7, <1>8, <1>9
  <2> HIDE DEF page
  <2>5. Len(page) = IndexLimit /\ DOMAIN page = 1 .. IndexLimit
    BY <2>3, <1>2
  <2>6. \A i \in 1 .. IndexLimit : page[i] = all[i]
    BY <2>2, <2>3, <1>2
  <2> HIDE DEF size
  <2> QED
    BY <1>1, <1>7, <1>8, <1>9, <2>1, <2>4, <2>5, <2>6 DEF n, all, size
<1>10. CASE ~(n > IndexLimit)
  <2>1. want = n /\ size = n
    BY <1>1, <1>2, <1>10
  <2>2. Index.listed = found
    BY <1>7, <1>8, <1>10
  <2>3. DOMAIN found = 1 .. n /\ Len(found) = n
    BY <1>1, <1>6, <2>1
  <2> HIDE DEF found, size
  <2> QED
    BY <1>1, <1>6, <1>7, <1>8, <1>10, <2>1, <2>2, <2>3 DEF n, all, size
<1> QED
  BY <1>9, <1>10

\* The index says that there is more exactly when it leaves a send out, and shows at
\* most a page.
THEOREM TruncationSafe == Spec => []TruncationTold
<1>1. PagesInv => TruncationTold
  <2> SUFFICES ASSUME PagesInv PROVE TruncationTold
    OBVIOUS
  <2> DEFINE n == Cardinality(sends)
             all == NewestFirst(sends)
             size == IF n > IndexLimit THEN IndexLimit ELSE n
  <2>1. /\ n \in Nat /\ DOMAIN Index.listed = 1 .. size /\ Len(Index.listed) = size
        /\ \A k \in 1 .. size : Index.listed[k] = all[k]
        /\ Index.truncated <=> n > IndexLimit
    BY IndexIsNewest DEF PagesInv
  <2>2. /\ \A k, m \in 1 .. n : k < m => all[k] > all[m]
        /\ \A id \in sends : \E k \in 1 .. n : all[k] = id
        /\ \A k \in 1 .. n : all[k] \in Nat /\ all[k] \in sends
    <3>1. sends \in SUBSET Nat /\ IsFiniteSet(sends)
      BY DEF PagesInv, IdsInv
    <3>2. all \in [1 .. n -> sends]
      BY <3>1, NewestFirstLists
    <3> QED
      BY <3>1, <3>2, NewestFirstLists
  <2> HIDE DEF all
  <2>3. IndexLimit \in Nat /\ Len(Index.listed) <= IndexLimit
    BY <2>1, BoundsAssumption
  <2>4. CASE n > IndexLimit
    <3> DEFINE id == all[IndexLimit + 1]
    <3>1. IndexLimit + 1 \in 1 .. n /\ size = IndexLimit
      BY <2>1, <2>3, <2>4
    <3>2. id \in sends /\ id \in Nat
      BY <2>2, <3>1
    <3>3. \A k \in 1 .. IndexLimit : all[k] # id
      <4> SUFFICES ASSUME NEW k \in 1 .. IndexLimit PROVE all[k] # id
        OBVIOUS
      <4>1. k \in 1 .. n /\ k < IndexLimit + 1
        BY <2>1, <2>3, <2>4
      <4>2. all[k] > id /\ all[k] \in Nat
        BY <2>2, <3>1, <4>1
      <4> QED
        BY <3>2, <4>2
    <3> HIDE DEF id
    <3>4. \A k \in DOMAIN Index.listed : Index.listed[k] # id
      BY <2>1, <3>1, <3>3
    <3> QED
      BY <2>1, <2>3, <2>4, <3>2, <3>4 DEF TruncationTold, Detail
  <2>5. CASE ~(n > IndexLimit)
    <3>1. size = n
      BY <2>5
    <3>2. \A id \in sends : \E k \in DOMAIN Index.listed : Index.listed[k] = id
      BY <2>1, <2>2, <3>1
    <3> QED
      BY <2>1, <2>3, <2>5, <3>2 DEF TruncationTold, Detail
  <2> QED
    BY <2>4, <2>5
<1> QED
  BY <1>1, PagesInvariance, PTL
=============================================================================
