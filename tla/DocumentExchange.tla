-------------------------- MODULE DocumentExchange --------------------------
(***************************************************************************)
(* A publisher marshals a document, the bytes travel and may be altered,   *)
(* and a consumer reads them with the parser of the kind it expects        *)
(* (ValidateDocument, src/internal/dataplane/document.go, and the readers  *)
(* of the evidence packages).  A document is known by the digest of its    *)
(* bytes, so the bytes have to be a function of the document and the       *)
(* document of the bytes.                                                  *)
(***************************************************************************)
EXTENDS EvidenceDocuments

CONSTANTS
  Samples,      \* kind -> the documents a publisher may hold of that kind
  Originals,    \* kind -> those of them whose bytes are also altered on the way
  OtherTexts,   \* the texts an alteration puts in the place of a text
  OtherNumbers  \* the numbers it puts in the place of a number or a count

VARIABLES
  held,        \* the publisher's document, with its kind
  wire,        \* the bytes in flight, and whether they were altered
  received     \* what the consumer made of them

exchangeVars == <<held, wire, received>>

DocumentKinds == {"batch", "delta", "economic-event", "frame", "mapping-claim", "materialization", "ontology-module",
                  "packet", "query", "query-result", "snapshot", "subscription", "universe"}
EvidenceKinds == {"observation", "transport", "result", "bundle"}
Kinds == DocumentKinds \cup EvidenceKinds

(***************************************************************************)
(* The writers: each validates before it encodes.                          *)
(***************************************************************************)
Valid(kind, d) ==
  CASE kind = "packet" -> PacketValid(d) [] kind = "batch" -> BatchValid(d) [] kind = "delta" -> DeltaValid(d)
    [] kind = "query" -> QueryValid(d) [] kind = "subscription" -> SubscriptionValid(d)
    [] kind = "query-result" -> ResultValid(d) [] kind = "materialization" -> MaterializationValid(d)
    [] kind = "economic-event" -> EventValid(d) [] kind = "snapshot" -> SnapshotValid(d)
    [] kind = "frame" -> FrameValid(d) [] kind = "mapping-claim" -> MappingValid(d)
    [] kind = "ontology-module" -> ModuleValid(d) [] kind = "universe" -> UniverseValid(d)
    [] kind = "observation" -> EnvelopeValid(d) [] kind = "transport" -> TransportValid(d)
    [] kind = "result" -> TypedResultValid(d) [] kind = "bundle" -> ManifestValid(d)
Marshal(kind, d) ==
  CASE kind = "packet" -> MarshalPacket(d) [] kind = "batch" -> MarshalBatchManifest(d)
    [] kind = "delta" -> MarshalDelta(d) [] kind = "query" -> MarshalQuery(d)
    [] kind = "subscription" -> MarshalSubscription(d) [] kind = "query-result" -> MarshalQueryResult(d)
    [] kind = "materialization" -> MarshalMaterializationManifest(d)
    [] kind = "economic-event" -> MarshalEconomicEvent(d) [] kind = "snapshot" -> MarshalSnapshotManifest(d)
    [] kind = "frame" -> MarshalFrame(d) [] kind = "mapping-claim" -> MarshalMappingClaim(d)
    [] kind = "ontology-module" -> MarshalOntologyModule(d) [] kind = "universe" -> MarshalSemanticUniverse(d)
    [] kind = "observation" -> MarshalEnvelope(d) [] kind = "transport" -> MarshalTransport(d)
    [] kind = "result" -> MarshalResult(d) [] kind = "bundle" -> MarshalManifest(d)

(***************************************************************************)
(* The readers: one exact parser for a kind, none for anything else.       *)
(***************************************************************************)
ValidateDocument(kind, tokens) ==
  CASE kind = "packet" -> UnmarshalPacket(tokens) [] kind = "batch" -> UnmarshalBatchManifest(tokens)
    [] kind = "delta" -> UnmarshalDelta(tokens) [] kind = "query" -> UnmarshalQuery(tokens)
    [] kind = "subscription" -> UnmarshalSubscription(tokens)
    [] kind = "query-result" -> UnmarshalQueryResult(tokens)
    [] kind = "materialization" -> UnmarshalMaterializationManifest(tokens)
    [] kind = "economic-event" -> UnmarshalEconomicEvent(tokens)
    [] kind = "snapshot" -> UnmarshalSnapshotManifest(tokens)
    [] kind = "frame" -> UnmarshalFrame(tokens) [] kind = "mapping-claim" -> UnmarshalMappingClaim(tokens)
    [] kind = "ontology-module" -> UnmarshalOntologyModule(tokens)
    [] kind = "universe" -> UnmarshalSemanticUniverse(tokens)
    [] OTHER -> Refused
Unmarshal(kind, tokens) ==
  CASE kind = "observation" -> UnmarshalEnvelope(tokens) [] kind = "transport" -> UnmarshalTransport(tokens)
    [] kind = "result" -> UnmarshalResult(tokens) [] kind = "bundle" -> UnmarshalManifest(tokens)
    [] OTHER -> ValidateDocument(kind, tokens)

(***************************************************************************)
(* What may happen to the bytes on the way, one token at a time.           *)
(***************************************************************************)
Substitutes(t) ==
  CASE "text" \in DOMAIN t -> {TextOf(w) : w \in OtherTexts} \cup {[t EXCEPT !.width = @ + 1], Nil, UintOf(0)}
    [] "uint" \in DOMAIN t -> {UintOf(n) : n \in OtherNumbers} \cup {[t EXCEPT !.width = @ + 1], Nil, TextOf("a")}
    [] "array" \in DOMAIN t ->
         {ArrayOf(n) : n \in OtherNumbers \cup {t.array + 1, IF t.array = 0 THEN 0 ELSE t.array - 1}}
           \cup {[t EXCEPT !.width = @ + 1], Nil}
    [] "bytes" \in DOMAIN t ->
         {DigestOf(0), DigestOf(t.bytes + 1), BytesOf(t.bytes, 31), BytesOf(t.bytes, 33), Nil, TextOf("a"),
          [t EXCEPT !.width = @ + 1]}
    [] "nil" \in DOMAIN t -> {TextOf(w) : w \in OtherTexts} \cup {DigestOf(0), DigestOf(1), UintOf(0), ArrayOf(0)}
Without(s, i) == SubSeq(s, 1, i - 1) \o SubSeq(s, i + 1, Len(s))
Repeated(s, i) == SubSeq(s, 1, i) \o SubSeq(s, i, Len(s))
Exchanged(s, i) == [s EXCEPT ![i] = s[i + 1], ![i + 1] = s[i]]
Alterations(s) ==
  UNION {{[s EXCEPT ![i] = t] : t \in Substitutes(s[i])} : i \in DOMAIN s}
    \cup {Without(s, i) : i \in DOMAIN s} \cup {Repeated(s, i) : i \in DOMAIN s}
    \cup {Exchanged(s, i) : i \in 1..(Len(s) - 1)}
    \cup {Append(s, Nil), Append(s, ArrayOf(0)), <<>>} \cup {SubSeq(s, 1, Len(s) - 1)}

(***************************************************************************)
(* The exchange.                                                           *)
(***************************************************************************)
Waiting == [stage |-> "waiting"]
ExchangeInit ==
  /\ \E kind \in Kinds : \E d \in Samples[kind] : held = [kind |-> kind, doc |-> d]
  /\ wire = Waiting /\ received = Waiting

Publish ==
  /\ wire = Waiting
  /\ wire' = IF Valid(held.kind, held.doc)
             THEN [stage |-> "sent", tokens |-> Marshal(held.kind, held.doc), altered |-> FALSE]
             ELSE [stage |-> "refused"]
  /\ UNCHANGED <<held, received>>

Alter ==
  /\ wire.stage = "sent" /\ ~wire.altered /\ received = Waiting
  /\ held.doc \in Originals[held.kind]
  /\ \E s \in Alterations(wire.tokens) \ {wire.tokens} :
       wire' = [wire EXCEPT !.tokens = s, !.altered = TRUE]
  /\ UNCHANGED <<held, received>>

Accept ==
  /\ wire.stage = "sent" /\ received = Waiting
  /\ received' = [stage |-> "read", answer |-> Unmarshal(held.kind, wire.tokens)]
  /\ UNCHANGED <<held, wire>>

ExchangeNext == Publish \/ Alter \/ Accept

(***************************************************************************)
(* Properties.                                                             *)
(***************************************************************************)
Accepted == received.stage = "read" /\ received.answer.ok

\* Whatever bytes a reader accepts, altered or not, are exactly the bytes the
\* writer produces for the document it returns, and no other kind's reader
\* accepts them: two different byte strings, hence two digests, never stand
\* for one document, and one digest never for two kinds (document.go:36-38,
\* cborlite.go head, common.go finish and expectEmptyExtensions).
AcceptedIsCanonical ==
  Accepted => /\ Valid(held.kind, received.answer.doc)
              /\ Marshal(held.kind, received.answer.doc) = wire.tokens
              /\ \A kind \in Kinds \ {held.kind} : ~Unmarshal(kind, wire.tokens).ok

\* The fields a writer bounds less than its reader does: money amounts
\* (128 bytes), semantic versions (64), the policy of a transport artifact
\* (256) and the names and reference of a bundle manifest (255, valid UTF-8).
PastReadersBound(kind, d) ==
  CASE kind = "query" -> Size(d.economics.maximumPrice.value) > 128
    [] kind = "economic-event" -> Size(d.cost.amount) > 128 \/ Size(d.revenue.amount) > 128
    [] kind \in {"ontology-module", "universe"} -> Size(d.semanticVersion) > 64
    [] kind = "transport" -> Size(d.policyID) > 256
    [] kind = "bundle" -> \E i \in DOMAIN d.entries : Size(d.entries[i].name) > 255 \/ ~ValidUTF8(d.entries[i].name)
    [] OTHER -> FALSE

\* A document a writer agrees to publish is read back as the same document,
\* field for field: the bounds, the order and the optional fields of Marshal
\* and Unmarshal agree, and reading loses nothing (TestRoundTripEveryDocument,
\* dataplane_test.go, one document of each kind).
WrittenIsRead ==
  received.stage = "read" /\ ~wire.altered /\ ~PastReadersBound(held.kind, held.doc)
    => received.answer = [ok |-> TRUE, doc |-> held.doc]

\* The same without the exception.
EveryDocumentIsRead ==
  received.stage = "read" /\ ~wire.altered => received.answer = [ok |-> TRUE, doc |-> held.doc]
==============================================================================
