---------------------------- MODULE CaptureSpool ----------------------------
(***************************************************************************)
(* internal/archiveimport: the sealed Common Crawl work order, the two     *)
(* parsers that untrusted bytes go through, and what makes a spool, the    *)
(* directory of one capture, verify offline.                               *)
(*                                                                         *)
(* Abstractions.  A digest is the thing digested.  A selected capture is   *)
(* known by its collection and route; a line of an index response either   *)
(* is exactly one of them or Other.  The bytes of a range are whole or     *)
(* not, and hold the record of a capture or Other; total is the size       *)
(* Content-Range claims for the archive file.                              *)
(***************************************************************************)
EXTENDS Naturals, Sequences, FiniteSets

CONSTANTS Collections, Routes,      \* of the work order, in its order
          IndexRequestBudget,
          Order,                    \* the bytes of the work order
          Other, Absent

CapturesPerCollection == 1

\* WorkOrder.Validate: every collection and route has one selected capture, and
\* the budget covers a request for each.
ASSUME OrderAssumption ==
    /\ Len(Collections) \in Nat \ {0} /\ Len(Routes) \in Nat \ {0}
    /\ IndexRequestBudget \in Nat
    /\ Len(Collections) * Len(Routes) <= IndexRequestBudget

Entries == 1..(Len(Collections) * Len(Routes))

\* The selected capture of an entry, in the order of Acquire's two loops.
Selected(k) == <<Collections[((k - 1) \div Len(Routes)) + 1], Routes[((k - 1) % Len(Routes)) + 1]>>

\* ParseIndexResponse: an index response confirms the selected capture or nothing.
IndexAccepted(index, k) ==
    /\ Len(index.lines) \in 1..CapturesPerCollection
    /\ \A i \in DOMAIN index.lines : index.lines[i] = Selected(k)

\* validateRangeMetadata, of a range response that is asked for in full.
RangeAccepted(body) == body.whole

\* ParseCompressedRecord: the member holds the record of the capture.
RecordAccepted(body, capture) == body.whole /\ body.of = capture

RawFiles == {"work-order", "index-record", "range-response", "warc-record"}
SealedFiles == RawFiles \cup {"evidence-manifest", "representation", "capture"}
SpoolFiles == SealedFiles \cup {"manifest"}

Range(capture, total, body) == [capture |-> capture, total |-> total, body |-> body]
Metadata(range) == [of |-> range, text |-> range.capture]     \* capture.json

\* The entries to which a spooled index record resolves.
Resolved(index) == {k \in Entries : IndexAccepted(index, k)}

\* verifyRawEvidence, of a spool d.
RawVerified(d) ==
    /\ d["evidence-manifest"] # Absent
    /\ \A f \in RawFiles : d[f] # Absent /\ d[f] = d["evidence-manifest"][f]
    /\ d["work-order"] = Order
    /\ \E k \in Entries : /\ Resolved(d["index-record"]) = {k}
                          /\ d["range-response"].capture = Selected(k)
    /\ d["range-response"].body = d["warc-record"]
    /\ RangeAccepted(d["warc-record"])

\* VerifySpool.
SpoolVerified(d) ==
    /\ d["manifest"] # Absent
    /\ \A f \in SealedFiles : d[f] # Absent /\ d[f] = d["manifest"][f]
    /\ RawVerified(d)
    /\ LET range == d["range-response"]
       IN /\ RecordAccepted(d["warc-record"], range.capture)
          /\ d["representation"] = [text |-> range.capture]
          /\ d["capture"] = Metadata(range)
=============================================================================
