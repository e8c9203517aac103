----------------------------- MODULE BodyDecode -----------------------------
(***************************************************************************)
(* decode_tx_body (decode.rs): the signer and the nonce of a transaction   *)
(* from its borsh bytes, without its type.  A body is a sequence of bytes, *)
(* after base64 and before bech32m, which are the libraries' business.     *)
(* The widths of the fields are constants.                                 *)
(***************************************************************************)
EXTENDS Integers, Sequences, FiniteSetsExt

CONSTANTS
  Base,       \* values of a byte
  PrefixLen,  \* bytes of the length in the wrapper
  SigLen,     \* SIG_LEN
  PubLen,     \* PUBKEY_LEN
  AddrLen,    \* ADDRESS_LEN
  NonceLen,   \* UNIQ_NONCE_LEN
  PrioLen,    \* PRIORITY_FEE_LEN
  FeeLen,     \* MAX_FEE_LEN
  GasLen,     \* GAS_SOME_WIDTH
  ChainLen,   \* CHAIN_ID_LEN
  ChainId     \* the api's own chain id, as bytes

Byte == 0..(Base - 1)
Bytes(n) == [1..n -> Byte]

\* As in the code: a signature is longer than the wrapper's length, an
\* address is a part of the key, a gas limit is as wide as a nonce and a
\* priority fee together, and the fee is wider than a nonce.
ASSUME WidthAssumption ==
  /\ Base \in Nat \ {0, 1}
  /\ {SigLen, PubLen, FeeLen, ChainLen} \subseteq Nat
  /\ PrefixLen \in 1..(SigLen - 1)
  /\ AddrLen \in 1..PubLen
  /\ GasLen = NonceLen + PrioLen
  /\ NonceLen \in 1..FeeLen
  /\ PrioLen \in Nat \ {0}
  /\ ChainId \in Bytes(ChainLen)

V0Tag       == 0
NonceTag    == 0
GasNoneTag  == 0
GasSomeTag  == 1
WrapperLen  == 1 + PrefixLen
InnerPubkeyStart == 1 + SigLen
InnerPubkeyEnd   == InnerPubkeyStart + PubLen

\* u32::from_le_bytes.
FromLe(s) ==
  LET n == Len(s)
      value[k \in 0..n] ==   \* of the last k bytes
        IF k = 0 THEN 0 ELSE s[n + 1 - k] + Base * value[k - 1]
  IN value[n]

\* Mutant: the length is not compared.
StripWrapperLoosely(raw) ==
  IF Len(raw) > WrapperLen /\ raw[1] = V0Tag /\ raw[WrapperLen + 1] = V0Tag
  THEN SubSeq(raw, WrapperLen + 1, Len(raw)) ELSE raw

\* strip_authenticator_wrapper.
StripAuthenticatorWrapper(raw) ==
  IF /\ Len(raw) > WrapperLen
     /\ raw[1] = V0Tag
     /\ FromLe(SubSeq(raw, 2, WrapperLen)) = Len(raw) - WrapperLen
     /\ raw[WrapperLen + 1] = V0Tag
  THEN SubSeq(raw, WrapperLen + 1, Len(raw)) ELSE raw

\* Mutant: a gas limit is looked for first.
GasFieldLensSwapped == <<1 + GasLen, 1>>

\* The widths of gas_limit that are tried, in this order.
GasFieldLens == <<1, 1 + GasLen>>

\* Offsets from the end of the body, for a gas_limit of g bytes.
UniqTagOff(inner, g) ==
  Len(inner) - (PrioLen + FeeLen + g + ChainLen) - (1 + NonceLen)
GasTagOff(inner, g) == Len(inner) - (ChainLen + g)

\* A body fits this shape of the tail.
Fits(inner, g) ==
  /\ UniqTagOff(inner, g) >= InnerPubkeyEnd
  /\ inner[GasTagOff(inner, g) + 1] = IF g = 1 THEN GasNoneTag ELSE GasSomeTag
  /\ inner[UniqTagOff(inner, g) + 1] = NonceTag

\* parse_nonce: the bytes of the nonce in a sequence of length one, or the
\* empty sequence.
ParseNonce(inner) ==
  LET m    == Len(inner)
      fits == {i \in DOMAIN GasFieldLens : Fits(inner, GasFieldLens[i])}
      from == UniqTagOff(inner, GasFieldLens[Min(fits)]) + 2
  IN IF \/ m < ChainLen
        \/ SubSeq(inner, m - ChainLen + 1, m) # ChainId
        \/ fits = {}
     THEN <<>>
     ELSE << SubSeq(inner, from, from + NonceLen - 1) >>

\* decode_tx_body: none for an empty body, for another version and for one
\* that is too short.
DecodeTxBody(raw) ==
  LET inner  == StripAuthenticatorWrapper(raw)
      pubkey == SubSeq(inner, InnerPubkeyStart + 1, InnerPubkeyEnd)
  IN IF inner = <<>> \/ Head(inner) # V0Tag \/ Len(inner) < InnerPubkeyEnd
     THEN <<>>
     ELSE << [sender        |-> SubSeq(pubkey, 1, AddrLen),
              sender_pubkey |-> pubkey,
              nonce         |-> ParseNonce(inner)] >>

-----------------------------------------------------------------------------
(***************************************************************************)
(* What the chain writes (external): the borsh form of a signed            *)
(* transaction, bare or in the wrapper of the authenticator.  `gas` is     *)
(* empty when there is no limit.                                           *)
(***************************************************************************)
SignedTx ==
  [wrapped : BOOLEAN,
   sig : Bytes(SigLen), pubkey : Bytes(PubLen), call : Seq(Byte),
   uniq : Byte, nonce : Bytes(NonceLen), prio : Bytes(PrioLen),
   fee : Bytes(FeeLen), gas : {<<>>} \cup Bytes(GasLen),
   chain : Bytes(ChainLen)]

\* What a byte counts that has i bytes before it.
Weight[i \in 0..PrefixLen] == IF i = 0 THEN 1 ELSE Base * Weight[i - 1]

ToLe(n) == [i \in 1..PrefixLen |-> (n \div Weight[i - 1]) % Base]

Inner(t) ==
  <<V0Tag>> \o t.sig \o t.pubkey \o t.call \o <<t.uniq>> \o t.nonce \o t.prio
    \o t.fee \o (IF t.gas = <<>> THEN <<GasNoneTag>>
                 ELSE <<GasSomeTag>> \o t.gas)
    \o t.chain

Body(t) ==
  IF t.wrapped THEN <<V0Tag>> \o ToLe(Len(Inner(t))) \o Inner(t) ELSE Inner(t)
=============================================================================
