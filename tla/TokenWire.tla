------------------------------ MODULE TokenWire ------------------------------
(***************************************************************************)
(* sign and verify: the text of a token.  A text is a sequence of numbers, *)
(* one for each character that parsing tells apart: the two separators,    *)
(* the two kinds, the letters of an address, and a decimal number, which   *)
(* counts as one character.  Base64 maps every character to another, above *)
(* Base, so its output holds no separator.  The keyed hash is ideal: it    *)
(* maps different keys or payloads to different texts.                     *)
(***************************************************************************)
EXTENDS Naturals, Sequences

Bar == 0                    \* "|", between the fields of the payload
Dot == 1                    \* ".", between payload and signature
KindText == [confirm |-> <<2>>, unsubscribe |-> <<3>>]
Letters == 4 .. 9
Decimal(n) == <<10 + n>>    \* format!("{}") of a number
Base == 1000

WireToken(kind, email, exp, gen) == [kind |-> kind, email |-> email, exp |-> exp, gen |-> gen]
InvalidToken == WireToken("invalid", <<>>, 0, 0)

\* What sign is called with.
WireTokens == [kind : DOMAIN KindText, email : Seq(Nat), exp : Nat, gen : Nat]

\* URL_SAFE_NO_PAD.encode and decode; a text that is not base64 decodes to none.
Encode(text) == [i \in DOMAIN text |-> text[i] + Base]
Encoded(text) == \A i \in DOMAIN text : text[i] >= Base
Decode(text) == [i \in DOMAIN text |-> text[i] - Base]

Hmac(secret, payload) == <<secret>> \o payload

Payload_PlainEmail(t) ==
    KindText[t.kind] \o <<Bar>> \o t.email \o <<Bar>> \o
    Decimal(t.exp) \o <<Bar>> \o Decimal(t.gen)

Payload(t) ==
    KindText[t.kind] \o <<Bar>> \o Encode(t.email) \o <<Bar>> \o
    Decimal(t.exp) \o <<Bar>> \o Decimal(t.gen)

Signed(payload, secret) == Encode(payload) \o <<Dot>> \o Encode(Hmac(secret, payload))

Sign(t, secret) == Signed(Payload(t), secret)

\* The text an earlier release signed, before tokens had a generation.
SignLegacy(t, secret) ==
    Signed(KindText[t.kind] \o <<Bar>> \o Encode(t.email) \o <<Bar>> \o Decimal(t.exp), secret)

\* split_once: at the first separator, if there is one.
SplitOnce(text, sep) ==
    LET cut == CHOOSE i \in DOMAIN text :
                  text[i] = sep /\ \A j \in 1 .. i - 1 : text[j] # sep
    IN IF \A i \in DOMAIN text : text[i] # sep
       THEN [found |-> FALSE, part |-> text, rest |-> <<>>]
       ELSE [found |-> TRUE, part |-> SubSeq(text, 1, cut - 1),
             rest |-> SubSeq(text, cut + 1, Len(text))]

IsDecimal(text) == Len(text) = 1 /\ Head(text) >= 10

\* The fields of a payload, which is split at its first three separators (splitn);
\* InvalidToken if there are not four good ones.
Parse(payload) ==
    LET kind == SplitOnce(payload, Bar)
        email == SplitOnce(kind.rest, Bar)
        exp == SplitOnce(email.rest, Bar)
        gen == exp.rest
    IN IF /\ kind.found /\ email.found /\ exp.found
          /\ kind.part \in {KindText[k] : k \in DOMAIN KindText}
          /\ Encoded(email.part) /\ IsDecimal(exp.part) /\ IsDecimal(gen)
       THEN WireToken(CHOOSE k \in DOMAIN KindText : KindText[k] = kind.part,
                      Decode(email.part), Head(exp.part) - 10, Head(gen) - 10)
       ELSE InvalidToken

Verify(raw, secret, now) ==
    LET halves == SplitOnce(raw, Dot)
        payload == Decode(halves.part)
        t == Parse(payload)
    IN IF /\ halves.found /\ Encoded(halves.part) /\ Encoded(halves.rest)
          /\ Decode(halves.rest) = Hmac(secret, payload)
          /\ t.exp >= now
       THEN t ELSE InvalidToken
=============================================================================
