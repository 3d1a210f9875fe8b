------------------------------ MODULE Canonical ------------------------------
(***************************************************************************)
(* The byte layouts that are hashed: packages/canonical (TypeScript) and   *)
(* crates/canonical (Rust).  The other modules take an intent hash, a      *)
(* decision id and a memo for injective constructors of their fields;      *)
(* CanonicalProofs shows that the preimages are, so that what they take on *)
(* trust is SHA-256 alone.  Also the one formatter and the one parser of   *)
(* amounts.                                                                *)
(*                                                                         *)
(* A string is the sequence of bytes UTF-8 makes of it.                    *)
(***************************************************************************)
EXTENDS Integers, Sequences

CONSTANT Nfc(_)        \* Unicode normalization form C

Byte == 0..255
Bytes32 == {b \in Seq(Byte) : Len(b) = 32}

\* "AEGIS-INTENT-v1" and "AEGIS-DECISION-v1".
INTENT_DOMAIN == <<65, 69, 71, 73, 83, 45, 73, 78, 84, 69, 78, 84, 45, 118, 49>>
DECISION_DOMAIN == <<65, 69, 71, 73, 83, 45, 68, 69, 67, 73, 83, 73, 79, 78, 45, 118, 49>>

Two8 == 256
Two16 == Two8 * Two8
Two32 == Two16 * Two16
Two64 == Two32 * Two32
Two128 == Two64 * Two64
MAX_I128 == 128 * (Two128 \div Two8) - 1

-----------------------------------------------------------------------------
(* Integers, big-endian: the high half, then the low half.                  *)

U16(n) == <<n \div Two8, n % Two8>>
U32(n) == U16(n \div Two16) \o U16(n % Two16)
U64(n) == U32(n \div Two32) \o U32(n % Two32)
U128(n) == U64(n \div Two64) \o U64(n % Two64)

\* Two's complement.
I128(v) == U128(IF v < 0 THEN v + Two128 ELSE v)

\* Strings, with their length in front of them.
Str8(s) == <<Len(s)>> \o s
Str16(s) == U16(Len(s)) \o s

-----------------------------------------------------------------------------
(* TypeScript *)

\* What canonicalIntent does not throw on.
Encodable(i) ==
    /\ i.amount \in 1..MAX_I128
    /\ \A s \in {Nfc(i.agentId), Nfc(i.serviceId), Nfc(i.asset), Nfc(i.clientRef)} : Len(s) < Two8
    /\ Len(Nfc(i.purpose)) < Two16

CanonicalIntent(i) ==
    INTENT_DOMAIN \o (Str8(Nfc(i.agentId)) \o (Str8(Nfc(i.serviceId)) \o (Str8(Nfc(i.asset))
        \o (I128(i.amount) \o (Str16(Nfc(i.purpose)) \o Str8(Nfc(i.clientRef)))))))

\* No domain: the three fields are of fixed width.
MemoPreimage(intentHash, policyVersion, decisionId) == intentHash \o (U32(policyVersion) \o decisionId)

DecisionPreimage(intentHash, policyVersion) == DECISION_DOMAIN \o (intentHash \o U32(policyVersion))

-----------------------------------------------------------------------------
(* Rust: it appends to one buffer, and leaves normalization to its caller.  *)

RustAccepts(i) ==
    /\ i.amount > 0
    /\ \A s \in {i.agentId, i.serviceId, i.asset, i.clientRef} : Len(s) < Two8
    /\ Len(i.purpose) < Two16

RustCanonicalIntent(i) ==
    INTENT_DOMAIN \o Str8(i.agentId) \o Str8(i.serviceId) \o Str8(i.asset) \o I128(i.amount)
        \o Str16(i.purpose) \o Str8(i.clientRef)

RustMemoPreimage(intentHash, policyVersion, decisionId) == intentHash \o U32(policyVersion) \o decisionId

RustDecisionPreimage(intentHash, policyVersion) == DECISION_DOMAIN \o intentHash \o U32(policyVersion)

\* The contract has its own, over the decision it stores.
ContractMemoPreimage(d) == d.intent_hash \o U32(d.policy_version) \o d.decision_id

ContractDecisionPreimage(intent_hash, version) == DECISION_DOMAIN \o intent_hash \o U32(version)

-----------------------------------------------------------------------------
(* Amounts: a decimal is its sign, its whole part and the digits after the  *)
(* point, none when there is no point.                                      *)

STROOPS_PER_UNIT == 10 * (10 * (10 * (10 * (10 * (10 * 10)))))

\* Seven digits, zeros in front.
Padded(f) ==
    LET f6 == f \div 10  f5 == f6 \div 10  f4 == f5 \div 10
        f3 == f4 \div 10 f2 == f3 \div 10  f1 == f2 \div 10
    IN  <<f1, f2 % 10, f3 % 10, f4 % 10, f5 % 10, f6 % 10, f % 10>>

LastNonZero(digits) ==
    CHOOSE k \in 0..7 : (k > 0 => digits[k] # 0) /\ \A j \in k+1..7 : digits[j] = 0

FormatAmount(stroops) ==
    LET a == IF stroops < 0 THEN -stroops ELSE stroops
        digits == Padded(a % STROOPS_PER_UNIT)
    IN  [negative |-> stroops < 0, whole |-> a \div STROOPS_PER_UNIT,
         frac |-> SubSeq(digits, 1, LastNonZero(digits))]

\* No sign, at most seven decimals.
ParseAccepts(text) == ~text.negative /\ Len(text.frac) <= 7

\* Seven digits, zeros behind.
Number(d) == 10 * (10 * (10 * (10 * (10 * (10 * d[1] + d[2]) + d[3]) + d[4]) + d[5]) + d[6]) + d[7]

ParseAmount(text) ==
    text.whole * STROOPS_PER_UNIT
        + Number([k \in 1..7 |-> IF k <= Len(text.frac) THEN text.frac[k] ELSE 0])
=============================================================================
