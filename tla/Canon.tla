-------------------------------- MODULE Canon --------------------------------
(***************************************************************************)
(* The canonical encoding of internal/canon/canon.go, which everything     *)
(* that is hashed or signed is built from: a Hasher absorbs fields, each   *)
(* framed by a tag and, where its length varies, by its length.            *)
(*                                                                         *)
(* An encoding is a sequence of symbols.  A symbol is an octet, or 32 of   *)
(* them that mean nothing taken apart: a digest or a nonce.  SHA-256 is    *)
(* ideal, so a digest is as good as the encoding it was computed from.     *)
(***************************************************************************)
EXTENDS Integers, SequencesExt

CONSTANTS
  Hashers,     \* encodings in progress
  Domains,     \* domain labels, texts
  Texts,       \* contents of byte and string fields, sequences of symbols
  Numbers,     \* contents of integer fields
  Lists,       \* contents of list fields, sequences of texts
  Digests,     \* contents of Raw32 fields, symbols
  UintOctets,  \* octets of an integer; the code's are 8
  Budgets      \* bounds: what a behaviour may do at most, one of these records

Radix == 256

\* What an octet counts for, k places from the right.
Weight[k \in 0 .. UintOctets] == IF k = 0 THEN 1 ELSE Radix * Weight[k - 1]

Uints == 0 .. Weight[UintOctets] - 1

\* A length fits into an integer.
IsText(s) == s \in Seq(Range(s)) /\ Len(s) \in Uints

ASSUME UintAssumption == UintOctets \in Nat \ {0}
ASSUME FieldsAssumption == \A g \in Budgets : g.fields \in Nat
ASSUME ContentsAssumption ==
  /\ Numbers \subseteq Uints
  /\ \A s \in Texts \cup Domains : IsText(s)
  /\ \A ss \in Lists : IsText(ss) /\ \A s \in Range(ss) : IsText(s)

VARIABLES
  budget,    \* the bounds of this behaviour; its fields are those of all hashers together
  absorbed,  \* per hasher: what was written to it; nothing before New
  fields     \* history, per hasher: the fields it was given

canonVars == <<budget, absorbed, fields>>

Octet(n) == [octet |-> n]

\* Tags are letters: they may well be octets of a content.
tagOctets == <<Octet(111)>>
tagUint   == <<Octet(117)>>
tagBool   == <<Octet(98)>>
tagList   == <<Octet(108)>>
tagRaw32  == <<Octet(114)>>

\* Fixed width, big endian.
uint(v) == [k \in 1 .. UintOctets |-> Octet((v \div Weight[UintOctets - k]) % Radix)]

Uint64(v) == tagUint \o uint(v)
Bool(v)   == Append(tagBool, Octet(IF v THEN 1 ELSE 0))
Bytes(b)  == tagOctets \o uint(Len(b)) \o b
String(s) == Bytes(s)
Raw32(d)  == Append(tagRaw32, d)

\* A slip: the number of strings is not written.
StringsUncounted(ss) == tagList \o FlattenSeq([k \in DOMAIN ss |-> String(ss[k])])

Strings(ss) == tagList \o uint(Len(ss)) \o FlattenSeq([k \in DOMAIN ss |-> String(ss[k])])

New(domain) == String(domain)

Sum(written) == [sum |-> written]

-----------------------------------------------------------------------------

CInit ==
  /\ budget \in Budgets
  /\ absorbed = [h \in Hashers |-> <<>>]
  /\ fields = [h \in Hashers |-> <<>>]

\* h is given one more field.
Absorb(h, framed, field) ==
  /\ MapThenSumSet(LAMBDA k : Len(fields[k]), Hashers) < budget.fields
  /\ absorbed' = [absorbed EXCEPT ![h] = @ \o framed]
  /\ fields' = [fields EXCEPT ![h] = Append(@, field)]
  /\ UNCHANGED budget

Begin(h, domain) == absorbed[h] = <<>> /\ Absorb(h, New(domain), [octets |-> domain])

AbsorbField(h) ==
  /\ absorbed[h] # <<>>
  /\ \/ \E v \in Numbers : Absorb(h, Uint64(v), [uint |-> v])
     \/ \E v \in BOOLEAN : Absorb(h, Bool(v), [bool |-> v])
     \/ \E s \in Texts : Absorb(h, String(s), [octets |-> s])
     \/ \E ss \in Lists : Absorb(h, Strings(ss), [list |-> ss])
     \/ \E d \in Digests : Absorb(h, Raw32(d), [raw |-> d])

CNext == \E h \in Hashers : AbsorbField(h) \/ \E domain \in Domains : Begin(h, domain)

\* "Distinct inputs cannot produce identical encodings": two encodings have one
\* digest only if they were given the same fields, domain first, whatever their
\* types and lengths and whatever tags, lengths and other fields the contents
\* imitate.
EncodingsAreInjective ==
  \A h, k \in Hashers : Sum(absorbed[h]) = Sum(absorbed[k]) => fields[h] = fields[k]
=============================================================================
