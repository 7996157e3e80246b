---------------------------- MODULE TrustedProxy ----------------------------
(***************************************************************************)
(* Which address a request is rate-limited under: the ranges of            *)
(* trusted_proxies, whether a peer is in one of them, and whose address    *)
(* the limiter keys on.  An address is its family and the positions of its *)
(* one bits, 0 the lowest; the widths of the two families are constants    *)
(* (32 and 128 in the code), and MappedPrefix stands for the one bits that *)
(* ::ffff:0:0 has above an IPv4 address that an IPv6 socket reports.       *)
(***************************************************************************)
EXTENDS Naturals, Sequences

CONSTANTS W4, W6,         \* address widths
          MappedPrefix    \* the one bits above the lowest W4 of an IPv4-mapped address

Positions(w) == 0 .. w - 1

ASSUME WidthAssumption == W4 \in Nat /\ W6 \in Nat /\ 0 < W4 /\ W4 < W6 /\ W6 < 256
ASSUME MappedAssumption == MappedPrefix \subseteq Positions(W6) \ Positions(W4)

Address(f, b) == [family |-> f, bits |-> b]
V4(b) == Address("v4", b)
V6(b) == Address("v6", b)
Mapped(b) == V6(MappedPrefix \cup b)

Width(f) == IF f = "v4" THEN W4 ELSE W6
Addresses == {V4(b) : b \in SUBSET Positions(W4)} \cup {V6(b) : b \in SUBSET Positions(W6)}

\* Text that does not parse: as an address, and as a u8.
Garbage == Address("none", {})
NoNumber == 256

\* IpAddr::to_canonical
ToCanonical(a) ==
    IF a.family = "v6" /\ a.bits \ Positions(W4) = MappedPrefix
    THEN V4(a.bits \cap Positions(W4)) ELSE a
-----------------------------------------------------------------------------
(* TrustedProxyRange                                                       *)

Refused == [network |-> Garbage, prefix_len |-> NoNumber]

\* from_str, of an address and, after a slash, the sequence of length texts.
ParseRange(addr, len) ==
    LET network == ToCanonical(addr)
        max_len == Width(network.family)
        prefix_len == IF len = <<>> THEN max_len ELSE Head(len)
    IN IF addr = Garbage \/ prefix_len > max_len THEN Refused
       ELSE [network |-> network, prefix_len |-> prefix_len]

\* mask32 and mask128: all ones shifted left, in the width of the family.
ShiftLeft(bits, n, w) == {i + n : i \in bits} \cap Positions(w)

\* A shift by the whole width is a shift by none.
Mask_Unguarded(w, prefix_len) == ShiftLeft(Positions(w), (w - prefix_len) % w, w)

Mask(w, prefix_len) ==
    IF prefix_len = 0 THEN {} ELSE ShiftLeft(Positions(w), w - prefix_len, w)

Covers(range, peer) ==
    LET p == ToCanonical(peer)
        mask == Mask(Width(p.family), range.prefix_len)
    IN /\ range.network.family = p.family
       /\ range.network.bits \cap mask = p.bits \cap mask

\* What a prefix says: the leading prefix_len bits of both agree.
SharesPrefix(addr, len, peer) ==
    LET n == ToCanonical(addr)
        p == ToCanonical(peer)
        rest == IF len = <<>> THEN 0 ELSE Width(n.family) - Head(len)
    IN /\ n.family = p.family
       /\ \A i \in Positions(Width(n.family)) : i >= rest => (i \in n.bits <=> i \in p.bits)
-----------------------------------------------------------------------------
(* TrustedProxyExtractor                                                   *)

IsTrusted(trusted, peer) == \E range \in trusted : Covers(range, peer)

Forwarded_First(xff) == IF xff = <<>> THEN Garbage ELSE xff[1]

\* The last entry of the X-Forwarded-For header, if there is one and it parses.
Forwarded(xff) == IF xff = <<>> THEN Garbage ELSE xff[Len(xff)]

ExtractKey_AnyPeer(trusted, peer, xff) ==
    IF Forwarded(xff) = Garbage THEN ToCanonical(peer) ELSE Forwarded(xff)

ExtractKey(trusted, peer, xff) ==
    LET p == ToCanonical(peer)
    IN IF ~IsTrusted(trusted, p) \/ Forwarded(xff) = Garbage THEN p
       ELSE Forwarded(xff)
=============================================================================
