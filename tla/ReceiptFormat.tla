---------------------------- MODULE ReceiptFormat ----------------------------
(***************************************************************************)
(* The receipt as a document: what the executor writes (receipt.ts) and    *)
(* what the shared validator (packages/receipt) accepts.  A JSON value is  *)
(* abstracted to its kind and, for a string, to the form the validator's   *)
(* patterns tell apart; `is` is what it stands for.                        *)
(***************************************************************************)
EXTENDS Integers, Sequences

CONSTANTS MAX_U32,
          G            \* account addresses; the other addresses are contracts

RECEIPT_VERSION == "aegis-receipt/1"

Json(kind, form, is) == [kind |-> kind, form |-> form, is |-> is]
Absent == Json("nothing", "", "")

\* Forms of strings: hexadecimal of so many bytes, an account, a contract, an http(s) URL,
\* CODE:ISSUER, decimal digits without sign or leading zero, or other text; "" is empty.
ToHex(bytes, is) == Json("string", <<"hex", bytes>>, is)
Str(form, is) == Json("string", <<form, 0>>, is)
ToStrkey(address) == Str(IF address \in G THEN "G" ELSE "C", address)

-----------------------------------------------------------------------------
(* The validator: one predicate per method of its context.                  *)

Hex(v, bytes) == v.kind = "string" /\ v.form = <<"hex", bytes>>
Strkey(v, prefix) == v.kind = "string" /\ v.form = <<prefix, 0>>
Address(v) == Strkey(v, "G") \/ Strkey(v, "C")
NonEmptyString(v) == v.kind = "string" /\ v.form # <<"empty", 0>>
Url(v) == NonEmptyString(v) /\ v.form = <<"url", 0>>
U32(v) == v.kind = "number" /\ v.is \in 0..MAX_U32
\* A decimal string, never a number: a JSON number cannot hold an i128.
Stroops(v) == v.kind = "string" /\ v.form = <<"digits", 0>> /\ v.is > 0
CodeIssuer(v) == NonEmptyString(v) /\ v.form = <<"code:issuer", 0>>

\* The blocks, each with exactly the keys it may have; a missing block or an unknown key is
\* an issue, and so is every field that fails its predicate.
ReceiptNetwork(o) ==
    /\ DOMAIN o = {"passphrase", "contract_id", "horizon", "rpc"}
    /\ NonEmptyString(o.passphrase) /\ Strkey(o.contract_id, "C") /\ Url(o.horizon) /\ Url(o.rpc)

ReceiptChain(o) ==
    /\ DOMAIN o = {"decision_id", "intent_hash", "policy_version", "agent", "service_id", "asset", "amount"}
    /\ Hex(o.decision_id, 32) /\ Hex(o.intent_hash, 32) /\ U32(o.policy_version) /\ Address(o.agent)
    /\ NonEmptyString(o.service_id) /\ Strkey(o.asset, "C") /\ Stroops(o.amount)

ReceiptSettlement(o) ==
    /\ DOMAIN o = {"tx_hash", "memo_hash", "memo_preimage", "source", "destination", "asset"}
    /\ Hex(o.tx_hash, 32) /\ Hex(o.memo_hash, 32) /\ Hex(o.memo_preimage, 68)
    /\ Strkey(o.source, "G") /\ Strkey(o.destination, "G") /\ CodeIssuer(o.asset)

SafeParseReceipt(doc) ==
    /\ DOMAIN doc = {"version", "network", "chain", "settlement", "issued_at"}
    /\ doc.version = RECEIPT_VERSION /\ doc.issued_at.kind \in {"nothing", "string"}
    /\ ReceiptNetwork(doc.network) /\ ReceiptChain(doc.chain) /\ ReceiptSettlement(doc.settlement)

-----------------------------------------------------------------------------
(* The writer.  `input` is ReceiptInputs with the values' forms.            *)

\* Mutant: the amount is written as the bigint it is, which JSON makes a number.
ChainBlockMutant(d) ==
    [decision_id |-> ToHex(32, d.id), intent_hash |-> ToHex(32, d.hash),
     policy_version |-> Json("number", "", d.version), agent |-> ToStrkey(d.agent),
     service_id |-> Str("text", d.service), asset |-> Str("C", d.asset),
     amount |-> Json("number", "", d.amount)]

ChainBlock(d) ==
    [decision_id |-> ToHex(32, d.id), intent_hash |-> ToHex(32, d.hash),
     policy_version |-> Json("number", "", d.version), agent |-> ToStrkey(d.agent),
     service_id |-> Str("text", d.service), asset |-> Str("C", d.asset),
     amount |-> Str("digits", d.amount)]

BuildReceipt(input) ==
    [version |-> RECEIPT_VERSION,
     network |-> [passphrase |-> Str("text", input.passphrase), contract_id |-> ToStrkey(input.contractId),
                  horizon |-> Str("url", "horizon"), rpc |-> Str("url", "rpc")],
     chain |-> ChainBlock(input.decision),
     settlement |-> [tx_hash |-> ToHex(32, input.txHash), memo_hash |-> ToHex(32, input.memo),
                     memo_preimage |-> ToHex(68, input.preimage), source |-> ToStrkey(input.source),
                     destination |-> ToStrkey(input.destination), asset |-> Str("code:issuer", input.asset)],
     issued_at |-> Str("text", "now")]
=============================================================================
