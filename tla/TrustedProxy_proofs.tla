------------------------- MODULE TrustedProxy_proofs -------------------------
(***************************************************************************)
(* An entry of trusted_proxies covers the peers that share its prefix, for *)
(* every pair of widths, every entry and every peer; and the shape an      *)
(* address is reported in makes no difference to anything.                 *)
(***************************************************************************)
EXTENDS TrustedProxy, TLAPS

\* What follows the slash: nothing, or one text that is a number or isn't.
LengthTexts == {len \in Seq(Nat) : Len(len) <= 1}

LEMMA WidthsAreNumbers ==
    /\ \A f : Width(f) \in Nat /\ Width(f) > 0
    /\ \A w \in Nat : \A i \in Positions(w) : i \in Nat /\ i < w
BY WidthAssumption DEF Width, Positions

\* An address in canonical shape stays as it is; every address has one.
LEMMA CanonicalIsStable ==
    ASSUME NEW a \in Addresses
    PROVE  /\ ToCanonical(a) \in Addresses
           /\ ToCanonical(ToCanonical(a)) = ToCanonical(a)
           /\ ToCanonical(a) # Garbage
<1>1. CASE a.family = "v6" /\ a.bits \ Positions(W4) = MappedPrefix
  <2>1. ToCanonical(a) = V4(a.bits \cap Positions(W4))
    BY <1>1 DEF ToCanonical
  <2>2. ToCanonical(a) \in Addresses
    BY <2>1 DEF Addresses
  <2>3. ToCanonical(a).family = "v4"
    BY <2>1 DEF V4, Address
  <2> QED
    BY <2>2, <2>3 DEF ToCanonical, Garbage, Address
<1>2. CASE ~(a.family = "v6" /\ a.bits \ Positions(W4) = MappedPrefix)
  <2>1. ToCanonical(a) = a
    BY <1>2 DEF ToCanonical
  <2>2. a.family \in {"v4", "v6"}
    BY DEF Addresses, V4, V6, Address
  <2> QED
    BY <2>1, <2>2 DEF Garbage, Address
<1> QED
  BY <1>1, <1>2

\* An IPv4 address reported by an IPv6 socket is that IPv4 address.
LEMMA MappedIsItself ==
    ASSUME NEW b \in SUBSET Positions(W4)
    PROVE  ToCanonical(Mapped(b)) = V4(b) /\ Mapped(b) \in Addresses
<1>1. Mapped(b).family = "v6" /\ Mapped(b).bits = MappedPrefix \cup b
  BY DEF Mapped, V6, Address
<1>2. (MappedPrefix \cup b) \ Positions(W4) = MappedPrefix
  BY MappedAssumption
<1>3. (MappedPrefix \cup b) \cap Positions(W4) = b
  BY MappedAssumption
<1>4. MappedPrefix \cup b \subseteq Positions(W6)
  BY MappedAssumption, WidthAssumption DEF Positions
<1> QED
  BY <1>1, <1>2, <1>3, <1>4 DEF ToCanonical, Addresses, Mapped

\* The mask of a prefix: its leading bits, from none of them to all.
LEMMA MaskIsLeadingBits ==
    ASSUME NEW w \in Nat, NEW len \in 0 .. w
    PROVE  Mask(w, len) = {i \in Positions(w) : i >= w - len}
<1>1. CASE len = 0
  BY <1>1 DEF Mask, Positions
<1>2. CASE len # 0
  <2>1. Mask(w, len) = {i + (w - len) : i \in Positions(w)} \cap Positions(w)
    BY <1>2 DEF Mask, ShiftLeft
  <2>2. ASSUME NEW i \in Positions(w)
        PROVE  i \in {j + (w - len) : j \in Positions(w)} <=> i >= w - len
    <3>1. ASSUME i >= w - len
          PROVE  i \in {j + (w - len) : j \in Positions(w)}
      <4>1. i - (w - len) \in Positions(w) /\ (i - (w - len)) + (w - len) = i
        BY <3>1 DEF Positions
      <4> QED
        BY <4>1
    <3>2. ASSUME i \in {j + (w - len) : j \in Positions(w)}
          PROVE  i >= w - len
      BY <3>2 DEF Positions
    <3> QED
      BY <3>1, <3>2
  <2> QED
    BY <2>1, <2>2
<1> QED
  BY <1>1, <1>2

\* A range that from_str accepts covers exactly the peers whose leading prefix_len bits
\* are the entry's, in whichever of the two shapes of an IPv4 address the entry and the
\* peer come; a length of 0 covers the family and none at all one address.
THEOREM RangesCoverPrefixes ==
    ASSUME NEW addr \in Addresses, NEW len \in LengthTexts, NEW peer \in Addresses,
           ParseRange(addr, len) # Refused
    PROVE  Covers(ParseRange(addr, len), peer) <=> SharesPrefix(addr, len, peer)
<1> DEFINE n == ToCanonical(addr)
           p == ToCanonical(peer)
           w == Width(n.family)
           prefix == IF len = <<>> THEN w ELSE Head(len)
           rest == IF len = <<>> THEN 0 ELSE w - Head(len)
<1>1. w \in Nat
  BY WidthsAreNumbers
<1>2. ParseRange(addr, len) = [network |-> n, prefix_len |-> prefix] /\ ~(prefix > w)
  BY DEF ParseRange
<1>3. prefix \in 0 .. w /\ rest = w - prefix
  <2>1. CASE len = <<>>
    BY <2>1, <1>1
  <2>2. CASE len # <<>>
    <3>1. Head(len) \in Nat
      BY <2>2 DEF LengthTexts
    <3> QED
      BY <2>2, <3>1, <1>1, <1>2
  <2> QED
    BY <2>1, <2>2
<1>4. SharesPrefix(addr, len, peer) <=>
        /\ n.family = p.family
        /\ \A i \in Positions(w) : i >= rest => (i \in n.bits <=> i \in p.bits)
  BY DEF SharesPrefix
<1>5. Covers(ParseRange(addr, len), peer) <=>
        /\ n.family = p.family
        /\ n.bits \cap Mask(Width(p.family), prefix) = p.bits \cap Mask(Width(p.family), prefix)
  BY <1>2 DEF Covers
<1>6. Mask(w, prefix) = {i \in Positions(w) : i >= rest}
  BY <1>1, <1>3, MaskIsLeadingBits
<1> HIDE DEF n, p, prefix, rest
<1>7. ASSUME n.family = p.family
      PROVE  (n.bits \cap Mask(w, prefix) = p.bits \cap Mask(w, prefix)) <=>
                \A i \in Positions(w) : i >= rest => (i \in n.bits <=> i \in p.bits)
  BY <1>6
<1> QED
  BY <1>4, <1>5, <1>7

\* A request is limited under the canonical address of its peer when the peer is in no
\* trusted range, whatever it puts into X-Forwarded-For.
THEOREM StrangersCannotChoose ==
    ASSUME NEW trusted, NEW peer \in Addresses, NEW xff, ~IsTrusted(trusted, peer)
    PROVE  ExtractKey(trusted, peer, xff) = ToCanonical(peer)
<1>1. \A range : Covers(range, ToCanonical(peer)) <=> Covers(range, peer)
  BY CanonicalIsStable DEF Covers
<1> QED
  BY <1>1 DEF ExtractKey, IsTrusted
=============================================================================
