----------------------------- MODULE WireFormat -----------------------------
(***************************************************************************)
(* The protobuf messages that validators, attestors and clients exchange,  *)
(* as src/src/generated/push/block_pb.js writes and reads them.            *)
(*                                                                         *)
(* A message is a record, its bytes a sequence of <<field number, value>>  *)
(* in the order they are written, where the value of a submessage is again *)
(* such a sequence.  Tags, varints and lengths are left out: they can be   *)
(* undone, so they tell no two messages apart.  What matters is kept: a    *)
(* writer omits a scalar at its default and writes the fields in an order  *)
(* of its own; a reader takes any order, skips the fields it does not      *)
(* know, and of a repeated scalar or submessage keeps the last.            *)
(***************************************************************************)
EXTENDS Naturals, Sequences, FiniteSets, SequencesExt

CONSTANT
  \* The empty string or byte array, the default of such a field.
  Empty

\* A submessage or a signature that is not set: no message has this field.
Null == [unset |-> TRUE]

\* The bytes of a message without fields, and bytes that are not there.
NoBytes == <<>>

\* Writing: the entries of one field.
Scalar(n, v, default) == IF v = default THEN <<>> ELSE << <<n, v>> >>
Single(n, v, Serialize(_)) == IF v = Null THEN <<>> ELSE << <<n, Serialize(v)>> >>
Repeated(n, vs, Serialize(_)) == [i \in DOMAIN vs |-> <<n, Serialize(vs[i])>>]

\* Reading: the values of field n in the order they come in.
Values(wire, n) ==
  LET at == {i \in DOMAIN wire : wire[i][1] = n}
      Place(k) == CHOOSE i \in at : Cardinality({j \in at : j <= i}) = k
  IN  [k \in 1..Cardinality(at) |-> wire[Place(k)][2]]

LastValue(wire, n, default) ==
  LET values == Values(wire, n) IN IF values = <<>> THEN default ELSE Last(values)

LastMessage(wire, n, Deserialize(_)) ==
  LET values == Values(wire, n)
  IN  IF values = <<>> THEN Null ELSE Deserialize(Last(values))

Messages(wire, n, Deserialize(_)) ==
  LET values == Values(wire, n) IN [i \in DOMAIN values |-> Deserialize(values[i])]

Itself(v) == v
-----------------------------------------------------------------------------
SerializeTransaction(m) ==
  Scalar(1, m.type, 0) \o Scalar(2, m.category, Empty) \o Scalar(3, m.sender, Empty)
    \o Repeated(4, m.recipients, Itself) \o Scalar(5, m.data, Empty)
    \o Scalar(6, m.salt, Empty) \o Scalar(7, m.apitoken, Empty)
    \o Scalar(8, m.signature, Null) \o Scalar(9, m.fee, Empty)

DeserializeTransaction(wire) ==
  [ type |-> LastValue(wire, 1, 0), category |-> LastValue(wire, 2, Empty),
    sender |-> LastValue(wire, 3, Empty), recipients |-> Values(wire, 4),
    data |-> LastValue(wire, 5, Empty), salt |-> LastValue(wire, 6, Empty),
    apitoken |-> LastValue(wire, 7, Empty), signature |-> LastValue(wire, 8, Null),
    fee |-> LastValue(wire, 9, Empty) ]

\* Nothing in the program sets or reads the field didmapping: it is passed on.
SerializeTxValidatorData(m) ==
  Scalar(1, m.vote, 0) \o Single(2, m.didmapping, Itself)

DeserializeTxValidatorData(wire) ==
  [ vote |-> LastValue(wire, 1, 0), didmapping |-> LastMessage(wire, 2, Itself) ]

SerializeTxAttestorData(m) == Scalar(1, m.vote, 0)

\* Mutant: the reader does not know the vote.
MutDeserializeTxAttestorData(wire) == [vote |-> 0]

DeserializeTxAttestorData(wire) == [vote |-> LastValue(wire, 1, 0)]

SerializeTransactionObj(m) ==
  Single(1, m.tx, SerializeTransaction)
    \o Single(2, m.validatordata, SerializeTxValidatorData)
    \o Repeated(3, m.attestordata, SerializeTxAttestorData)

DeserializeTransactionObj(wire) ==
  [ tx |-> LastMessage(wire, 1, DeserializeTransaction),
    validatordata |-> LastMessage(wire, 2, DeserializeTxValidatorData),
    attestordata |-> Messages(wire, 3, DeserializeTxAttestorData) ]

SerializeSigner(m) == Scalar(1, m.sig, Null)

DeserializeSigner(wire) == [sig |-> LastValue(wire, 1, Null)]

\* The fields of a block are written in the order of the schema: 1, 4, 2, 3.
SerializeBlock(m) ==
  Scalar(1, m.ts, 0) \o Scalar(4, m.attesttoken, Empty)
    \o Repeated(2, m.txobj, SerializeTransactionObj)
    \o Repeated(3, m.signers, SerializeSigner)

DeserializeBlock(wire) ==
  [ ts |-> LastValue(wire, 1, 0), attesttoken |-> LastValue(wire, 4, Empty),
    txobj |-> Messages(wire, 2, DeserializeTransactionObj),
    signers |-> Messages(wire, 3, DeserializeSigner) ]
-----------------------------------------------------------------------------
SerializeAttestBlockResult(m) ==
  Repeated(1, m.attestordata, SerializeTxAttestorData) \o Single(2, m.signer, SerializeSigner)

DeserializeAttestBlockResult(wire) ==
  [ attestordata |-> Messages(wire, 1, DeserializeTxAttestorData),
    signer |-> LastMessage(wire, 2, DeserializeSigner) ]

SerializeAttestSignaturesRequest(m) ==
  Repeated(1, m.attestations, SerializeAttestBlockResult)
    \o Scalar(2, m.initialblockhash, Empty) \o Scalar(3, m.finalblockhash, Empty)

DeserializeAttestSignaturesRequest(wire) ==
  [ attestations |-> Messages(wire, 1, DeserializeAttestBlockResult),
    initialblockhash |-> LastValue(wire, 2, Empty),
    finalblockhash |-> LastValue(wire, 3, Empty) ]

SerializeAttestorReport(m) ==
  Scalar(1, m.nodeid, Empty) \o Scalar(2, m.transactionhash, Empty) \o Scalar(3, m.vote, 0)
    \o Scalar(4, m.dataforsc, Empty) \o Scalar(5, m.datasigforsc, Empty)

DeserializeAttestorReport(wire) ==
  [ nodeid |-> LastValue(wire, 1, Empty), transactionhash |-> LastValue(wire, 2, Empty),
    vote |-> LastValue(wire, 3, 0), dataforsc |-> LastValue(wire, 4, Empty),
    datasigforsc |-> LastValue(wire, 5, Empty) ]

SerializeAttestSignaturesResponse(m) == Repeated(1, m.attestations, SerializeAttestorReport)

DeserializeAttestSignaturesResponse(wire) ==
  [attestations |-> Messages(wire, 1, DeserializeAttestorReport)]
-----------------------------------------------------------------------------
(***************************************************************************)
(* The data of an INIT_DID transaction.  Validators read it and pass the   *)
(* bytes on as they are, so only its reader is here.  A map field is a     *)
(* repeated message of a key and a value; the last entry of a key counts.  *)
(***************************************************************************)
DeserializeWalletToEncDerivedKey(wire) ==
  [ encderivedprivkey |-> LastMessage(wire, 1, Itself), signature |-> LastValue(wire, 2, Null) ]

DeserializeInitDid(wire) ==
  LET entries == Values(wire, 4)
      Key(entry) == LastValue(entry, 1, Empty)
      Value(entry) == LastValue(entry, 2, <<>>)
      keys == {Key(entries[i]) : i \in DOMAIN entries}
      Of(key) == Last(SelectSeq(entries, LAMBDA entry : Key(entry) = key))
  IN  [ masterpubkey |-> LastValue(wire, 1, Empty), derivedkeyindex |-> LastValue(wire, 2, 0),
        derivedpubkey |-> LastValue(wire, 3, Empty),
        wallettoencderivedkey |->
          [key \in keys |-> DeserializeWalletToEncDerivedKey(Value(Of(key)))] ]
=============================================================================
