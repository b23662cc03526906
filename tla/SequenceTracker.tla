-------------------------- MODULE SequenceTracker --------------------------
(***************************************************************************)
(* SequenceTracker of crates/cefi-ingest/src/lib.rs: decides which deltas  *)
(* of an exchange's order book stream may be applied.  The exchange        *)
(* (external) numbers its events and sends them in batches first..final;   *)
(* the network delivers a batch any number of times, in any order or not   *)
(* at all; a snapshot of the book, taken at some point of the past, can    *)
(* arrive at any time.  The local book is the set of events in it.         *)
(***************************************************************************)
EXTENDS Naturals

CONSTANTS MaxSeq         \* bound: events of the exchange

ASSUME MaxSeqAssumption == MaxSeq \in Nat

VARIABLES last_sequence, status, expected, received,   \* SequenceTracker
          published, batches,    \* the exchange: last event, batches sent
          book                   \* events the caller has in its book

tracker == <<last_sequence, status, expected, received>>
trackerVars == <<tracker, published, batches, book>>

TrackerInit ==
  /\ last_sequence = 0 /\ status = "Synchronizing" /\ expected = 0 /\ received = 0
  /\ published = 0 /\ batches = {} /\ book = {}

\* The exchange sends its next n events as one batch (external).
Publish(n) ==
  /\ published + n <= MaxSeq
  /\ published' = published + n
  /\ batches' = batches \cup {[first |-> published + 1, final |-> published + n]}
  /\ UNCHANGED <<tracker, book>>

\* on_snapshot: a book as of event s; last_sequence follows it, forward or back.
OnSnapshot(s) ==
  /\ last_sequence' = s /\ status' = "InSync"
  /\ book' = 1..s
  /\ UNCHANGED <<expected, received, published, batches>>

\* Mutant: any batch that ends beyond what is known is applied.
Accepts_AnyNewer(d) == status # "Synchronizing" /\ d.final > last_sequence

\* The batch holds the next event.
Accepts(d) ==
  /\ status # "Synchronizing"
  /\ d.first <= last_sequence + 1 /\ d.final >= last_sequence + 1

NewLast(d) == d.final

\* validate_sequence returned true: the caller applies the batch.
Apply(d) ==
  /\ Accepts(d)
  /\ last_sequence' = NewLast(d)
  /\ book' = book \cup (d.first..d.final)
  /\ UNCHANGED <<status, expected, received, published, batches>>

\* Mutant: a batch wholly in the past is taken for a gap.
IsGap_StaleToo(d) == status # "Synchronizing" /\ ~Accepts(d)

\* Neither the next one nor wholly in the past.
IsGap(d) == status # "Synchronizing" /\ ~Accepts(d) /\ d.final > last_sequence

\* validate_sequence found a gap: false, and the caller is to fetch a snapshot.
Gap(d) ==
  /\ IsGap(d)
  /\ status' = "GapDetected" /\ expected' = last_sequence + 1 /\ received' = d.first
  /\ UNCHANGED <<last_sequence, published, batches, book>>

\* A stale batch, or one that comes before any snapshot, changes nothing.
TrackerNext == \/ \E n \in 1..MaxSeq : Publish(n)
        \/ \E s \in 0..published : OnSnapshot(s)
        \/ \E d \in batches : Apply(d) \/ Gap(d)

TrackerSpec == TrackerInit /\ [][TrackerNext]_trackerVars

-----------------------------------------------------------------------------
(* Properties                                                              *)

\* The types of the state.
TrackerTypeOK ==
  /\ last_sequence \in 0..published /\ status \in {"Synchronizing", "InSync", "GapDetected"}
  /\ expected \in 0..MaxSeq /\ received \in 0..MaxSeq /\ published \in 0..MaxSeq
  /\ batches \subseteq [first : 1..MaxSeq, final : 1..MaxSeq] /\ book \subseteq 1..MaxSeq

\* The book has no hole: it is exactly the exchange's events up to last_sequence, through
\* lost, repeated and reordered batches and snapshots older than the stream.
BookIsPrefix == book = 1..last_sequence

\* A gap is reported only if events are missing: what was received starts beyond what
\* was expected.
GapIsReal == status = "GapDetected" => received > expected
=============================================================================
