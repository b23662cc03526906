------------------------------ MODULE ShmRing ------------------------------
(***************************************************************************)
(* The single-writer multi-reader ring of crates/distribution/src/shm.rs   *)
(* (ShmRingBuffer<N> and ElasticShmRing share the protocol): the writer    *)
(* overwrites the oldest slot without asking, and every reader keeps its   *)
(* own cursor.  Messages are numbered; a slot is its sequence field and    *)
(* two halves of payload, each of which holds the number of the message it *)
(* belongs to.                                                             *)
(*                                                                         *)
(* Today the ring lives on the heap of one process and publishing borrows  *)
(* it exclusively (&mut self), so a publish and a read exclude each other: *)
(* that is ~shared.  With shared, the ring is as the documentation of the  *)
(* module designs it, in memory shared with reader processes.  The payload *)
(* is plain memory, copied word by word.                                   *)
(***************************************************************************)
EXTENDS Naturals, Sequences

CONSTANTS Readers,
          Requested,     \* the capacities a configuration may ask for
          Modes,         \* the values of shared to consider, a set of Booleans
          MaxPublish     \* bound: messages published

MaxLog == 16             \* bound: the largest ring is 2^16, that of tier 3

ASSUME ShmAssumption ==
  /\ Requested \subseteq 0..2^MaxLog
  /\ Modes \subseteq BOOLEAN /\ MaxPublish \in Nat

VARIABLES
  shared, backend, capacity,
  head_sequence, slots,
  wpc,                      \* the writer's next store
  rpc, reader_cursor,       \* per reader: its next step and its cursor
  head, out,                \* per reader: the head it loaded, the copy so far
  got, missed               \* histories per reader: messages returned with Ok, and the
                            \* number reported by Overrun

ring == <<shared, backend, capacity>>
writerVars == <<head_sequence, slots, wpc, ring>>
readerVars == <<rpc, reader_cursor, head, out, got, missed>>
vars == <<writerVars, readerVars>>

Empty == [sequence |-> 0, first |-> 0, second |-> 0]     \* ShmMessageSlot::default()

\* s as usize & mask, where mask = capacity - 1
Slot(s) ==
  LET bit(n, k) == (n \div 2^k) % 2 = 1
  IN  CHOOSE i \in 0..capacity-1 : \A k \in 0..MaxLog : bit(i, k) <=> bit(s, k) /\ bit(capacity - 1, k)

-----------------------------------------------------------------------------
(* ElasticShmRing::create_or_fallback                                      *)

Tiers == 1..3

\* ElasticShmConfig::for_tier, whose capacity the caller may change.  A path is known by
\* the directory it is in.
ForTier(tier, n) ==
  [capacity |-> n, enable_hugetlb |-> tier = 3,
   preferred_path |-> CASE tier = 3 -> "hugepages" [] tier = 2 -> "shm" [] tier = 1 -> "none"]

\* Mutant: the capacity is taken as it was asked for.
RingCapacity_AsAsked(config) == config.capacity

\* is_power_of_two, next_power_of_two
RingCapacity(config) ==
  LET fits == {k \in 0..MaxLog : 2^k >= config.capacity}
  IN  2^(CHOOSE k \in fits : \A j \in fits : k <= j)

\* The first stage that works: dirs are the directories there are, files the paths that
\* could be opened and sized in each stage (external).
Backend(config, dirs, files) ==
  LET or(path) == IF config.preferred_path = "none" THEN path ELSE config.preferred_path
      works(stage, path) == <<stage, path>> \in files
  IN  IF config.enable_hugetlb /\ "hugepages" \in dirs /\ works(1, or("hugepages"))
        THEN [kind |-> "HugeTLB", path |-> or("hugepages")]
      ELSE IF "shm" \in dirs /\ works(2, or("shm"))
        THEN [kind |-> "PosixShm", path |-> or("shm")]
      ELSE IF works(3, "tmp") THEN [kind |-> "AnonymousOrTmpfs", path |-> "tmp"]
      ELSE [kind |-> "InMemory", path |-> "none"]

\* A path can be opened only in a directory that is there.
Hosts ==
  {h \in [dirs : SUBSET {"hugepages", "shm"}, files : SUBSET ({1, 2, 3} \X {"hugepages", "shm", "tmp"})] :
     \A f \in h.files : f[2] \in h.dirs \cup {"tmp"}}

Init ==
  /\ shared \in Modes
  /\ \E tier \in Tiers, n \in Requested :
       LET config == ForTier(tier, n)
       IN  /\ capacity = RingCapacity(config)
           /\ backend \in {Backend(config, h.dirs, h.files) : h \in Hosts}
  /\ head_sequence = 0 /\ slots = [i \in 0..capacity-1 |-> Empty] /\ wpc = "idle"
  /\ rpc = [r \in Readers |-> "idle"] /\ reader_cursor = [r \in Readers |-> 0]
  /\ head = [r \in Readers |-> 0] /\ out = [r \in Readers |-> Empty]
  /\ got = [r \in Readers |-> << >>] /\ missed = [r \in Readers |-> 0]

-----------------------------------------------------------------------------
(* publish_bbo, publish_trade: the payload fields, then sequence, then the head *)

next_seq == head_sequence + 1

Store(field, from, to) ==
  /\ wpc = from /\ wpc' = to
  /\ slots' = [slots EXCEPT ![Slot(next_seq)][field] = next_seq]
  /\ UNCHANGED <<head_sequence, ring, readerVars>>

PublishBegin ==
  /\ wpc = "idle" /\ head_sequence < MaxPublish
  /\ shared \/ \A r \in Readers : rpc[r] = "idle"
  /\ wpc' = "first"
  /\ UNCHANGED <<head_sequence, slots, ring, readerVars>>

PublishPayload == Store("first", "first", "second") \/ Store("second", "second", "sequence")

PublishSequence == Store("sequence", "sequence", "head")

\* Release store of head_sequence.
PublishHead ==
  /\ wpc = "head" /\ wpc' = "idle"
  /\ head_sequence' = next_seq
  /\ UNCHANGED <<slots, ring, readerVars>>

-----------------------------------------------------------------------------
(* try_read                                                                *)

\* Where an overrun reader goes on.
CatchUp == head_sequence - capacity

Overrun(cursor) == head_sequence > cursor + capacity

\* Acquire load of head_sequence: Empty, Overrun, or on to the copy.
ReadBegin(r) ==
  /\ rpc[r] = "idle" /\ (shared \/ wpc = "idle")
  /\ reader_cursor[r] < head_sequence
  /\ head' = [head EXCEPT ![r] = head_sequence]
  /\ IF Overrun(reader_cursor[r])
       THEN /\ missed' = [missed EXCEPT ![r] = @ + (head_sequence - (reader_cursor[r] + capacity))]
            /\ reader_cursor' = [reader_cursor EXCEPT ![r] = CatchUp]
            /\ UNCHANGED rpc
       ELSE rpc' = [rpc EXCEPT ![r] = "sequence"] /\ UNCHANGED <<missed, reader_cursor>>
  /\ UNCHANGED <<out, got, writerVars>>

\* *out = *slot, one field at a time.
Copy(r, field, to) ==
  /\ rpc[r] = field
  /\ rpc' = [rpc EXCEPT ![r] = to]
  /\ out' = [out EXCEPT ![r][field] = slots[Slot(reader_cursor[r] + 1)][field]]
  /\ UNCHANGED <<reader_cursor, head, got, missed, writerVars>>

ReadCopy(r) ==
  Copy(r, "sequence", "first") \/ Copy(r, "first", "second") \/ Copy(r, "second", "check")

\* Mutant: the cursor stays where it was after Ok.
AfterOk_NoAdvance(cursor) == cursor

AfterOk(cursor) == cursor + 1

\* The copy's own sequence decides: Ok, or jump to the head and report Empty.
ReadCheck(r) ==
  /\ rpc[r] = "check"
  /\ rpc' = [rpc EXCEPT ![r] = "idle"]
  /\ out' = [out EXCEPT ![r] = Empty] /\ head' = [head EXCEPT ![r] = 0]
  /\ IF out[r].sequence = reader_cursor[r] + 1
       THEN /\ reader_cursor' = [reader_cursor EXCEPT ![r] = AfterOk(@)]
            /\ got' = [got EXCEPT ![r] = Append(@, out[r])]
       ELSE /\ reader_cursor' = [reader_cursor EXCEPT ![r] = head[r]]
            /\ UNCHANGED got
  /\ UNCHANGED <<missed, writerVars>>

Next == \/ PublishBegin \/ PublishPayload \/ PublishSequence \/ PublishHead
        \/ \E r \in Readers : ReadBegin(r) \/ ReadCopy(r) \/ ReadCheck(r)

Spec == Init /\ [][Next]_vars

-----------------------------------------------------------------------------
(* Properties                                                              *)

Fields == [sequence : 0..MaxPublish, first : 0..MaxPublish, second : 0..MaxPublish]

\* The types of the state; a reader is never ahead of the writer.
TypeOK ==
  /\ head_sequence \in 0..MaxPublish /\ slots \in [0..capacity-1 -> Fields]
  /\ wpc \in {"idle", "first", "second", "sequence", "head"}
  /\ rpc \in [Readers -> {"idle", "sequence", "first", "second", "check"}]
  /\ out \in [Readers -> Fields] /\ head \in [Readers -> 0..MaxPublish]
  /\ \A r \in Readers : reader_cursor[r] \in 0..head_sequence /\ missed[r] \in 0..MaxPublish

Accounted(r) == reader_cursor[r] = Len(got[r]) + missed[r]

Whole(m) == m.first = m.sequence /\ m.second = m.sequence

\* Nothing is lost or damaged without being reported, as built, whatever capacity was
\* asked for: a reader's cursor is the messages it got plus the ones Overrun counted, and
\* what it got with Ok is one message, not parts of two.
NothingLostSilently ==
  ~shared => \A r \in Readers : Accounted(r) /\ \A i \in DOMAIN got[r] : Whole(got[r][i])

\* Messages come in the order they were published, each at most once, even from a writer
\* that runs during the read and laps the reader.
ReadInOrder ==
  \A r \in Readers : \A i, j \in DOMAIN got[r] : i < j => got[r][i].sequence < got[r][j].sequence

\* shm.rs, of reader processes: "overrun detection without data corruption".
NoTornReadAcrossProcesses == \A r \in Readers : \A i \in DOMAIN got[r] : Whole(got[r][i])

\* shm.rs, of reader processes: Empty means "no new messages", a lap is reported.
LapsReportedAcrossProcesses == \A r \in Readers : Accounted(r)

\* shm.rs, of the fallback pipeline "HugeTLB -> POSIX SHM -> tmpfs": POSIX shared memory is
\* a file in /dev/shm.
PosixShmInShm == backend.kind = "PosixShm" => backend.path = "shm"
=============================================================================
