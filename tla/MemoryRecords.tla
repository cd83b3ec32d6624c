----------------------------- MODULE MemoryRecords -----------------------------
(* The records of the memory package, made and read back by pure functions:    *)
(*   createEpisodeDigest        one episode (T031, packages/memory/src/        *)
(*                              digest.ts),                                    *)
(*   createWorkingMemoryUpdate  facts to keep in mind (T030, working.ts),      *)
(*   createArchivePack          records in a compressed pack (T032, packer.ts),*)
(*   retrieveMemoryContext      what of them answers a query within a budget   *)
(*                              of tokens (T033, retrieval.ts).                *)
(* An id is a number, which keeps the order of ids; a text stands for a title  *)
(* and a summary; the hash of a thing is that thing.  What is asked of single  *)
(* fields, and that no field looks like a secret, is one flag, "formed".       *)
EXTENDS Integers, Sequences, FiniteSets, SequencesExt

CONSTANTS
  Texts, Blank,       \* texts, and the empty one
  Cost,               \* tokens of a text, a fourth of its characters
  Relevance           \* how much of a query a text covers

ASSUME TextsAreCosted ==
  /\ Blank \in Texts /\ Cost \in [Texts -> Nat \ {0}]
  /\ \A query \in DOMAIN Relevance : Relevance[query] \in [Texts -> Nat]

(* What a function returns for an input it refuses. *)
Refused == [is |-> "refused"]

DistinctIds(records) == \A i, j \in DOMAIN records : records[i].id = records[j].id => i = j
(* What is sorted has its place from the number of those ahead of it; of equals *)
(* the first is ahead.                                                         *)
SortedById(records) ==
  LET ahead(i) == {j \in DOMAIN records :
                     records[j].id < records[i].id \/ (records[j].id = records[i].id /\ j < i)}
  IN [n \in DOMAIN records |-> records[CHOOSE i \in DOMAIN records : Cardinality(ahead(i)) = n - 1]]
IsSortedById(records) == \A i, j \in DOMAIN records : i < j => records[i].id <= records[j].id

(***************************************************************************)
(* Episode digests                                                         *)
(***************************************************************************)
EpisodeTypes == {"accepted", "rejected", "blocked", "quarantined", "failed", "reverted", "unknown"}
Reliabilities == {"high", "medium", "low", "unknown"}
(* There is no type for a stale episode, and no reliable unknown one.  Every   *)
(* digest says that rejected and blocked episodes are kept.                    *)
DigestIsValid(d) ==
  /\ d.formed /\ d.type \in EpisodeTypes /\ d.reliability \in Reliabilities /\ d.text # Blank
  /\ d.type = "unknown" => d.reliability = "unknown"
  /\ d.preserves = {"rejected", "blocked"}
CreateDigest(d) ==
  LET digest == [is |-> "digest", id |-> d.id, formed |-> d.formed, type |-> d.type,
                 reliability |-> d.reliability, text |-> d.text, preserves |-> {"rejected", "blocked"}]
  IN IF DigestIsValid(digest) THEN digest ELSE Refused

(***************************************************************************)
(* Working memory                                                          *)
(***************************************************************************)
(* The first fact of each id is kept, in the order of the ids. *)
Deduped(facts) ==
  LET first == {i \in DOMAIN facts : \A j \in 1..i - 1 : facts[j].id # facts[i].id}
      ahead(i) == {j \in first : facts[j].id < facts[i].id}
  IN [n \in 1..Cardinality(first) |-> facts[CHOOSE i \in first : Cardinality(ahead(i)) = n - 1]]
UpdateIsValid(u) ==
  /\ u.formed /\ u.facts # <<>> /\ u.limit > 0 /\ Len(u.facts) <= u.limit
  /\ IsSortedById(u.facts) /\ DistinctIds(u.facts)
  /\ \A i \in DOMAIN u.facts : u.facts[i].text # Blank
CreateUpdate(id, facts, limit, formed) ==
  LET update == [is |-> "update", id |-> id, formed |-> formed, facts |-> Deduped(facts), limit |-> limit]
  IN IF UpdateIsValid(update) THEN update ELSE Refused

(***************************************************************************)
(* Archive packs                                                           *)
(***************************************************************************)
RecordKinds ==
  {"episode_digest", "working_memory_update", "mutation_artifact", "eval_artifact", "provenance_artifact", "other"}
(* A payload is any JSON value; its text is what a retrieval will show of it.  *)
RecordIsValid(r) == r.formed /\ r.kind \in RecordKinds /\ r.hash = r.payload
HeaderRecord(category, records) == [category |-> category, count |-> Len(records)]
Header(category, records) ==
  LET raw == <<HeaderRecord(category, records), records>> IN
  [path |-> <<category, raw>>, count |-> Len(records), raw |-> raw]
PackIsValid(p) ==
  /\ p.formed /\ p.records # <<>>
  /\ IsSortedById(p.records) /\ DistinctIds(p.records)
  /\ \A i \in DOMAIN p.records : RecordIsValid(p.records[i])
  /\ p.headerRecord = HeaderRecord(p.category, p.records)
  /\ p.header = Header(p.category, p.records)
CreatePack(category, records, formed) ==
  LET sorted == SortedById(records)
      pack == [is |-> "pack", formed |-> formed, category |-> category, records |-> sorted,
               headerRecord |-> HeaderRecord(category, sorted), header |-> Header(category, sorted)]
  IN IF PackIsValid(pack) THEN pack ELSE Refused

DigestRecord(d) ==
  [id |-> d.id, formed |-> TRUE, kind |-> "episode_digest", payload |-> d, hash |-> d, text |-> d.text]

(***************************************************************************)
(* Retrieval                                                               *)
(***************************************************************************)
(* The candidates of a value: each record of a pack, each fact of an update,   *)
(* the value itself.  A pack is taken as it is, its hashes are not checked.    *)
Item(kind, id, text) == [kind |-> kind, id |-> id, text |-> text]
Candidates(value) ==
  CASE value.is = "pack" ->
         [i \in DOMAIN value.records |-> Item("archive_record", <<value.records[i].id>>, value.records[i].text)]
    [] value.is = "update" ->
         [i \in DOMAIN value.facts |-> Item("working_memory_fact", <<value.id, value.facts[i].id>>, value.facts[i].text)]
    [] value.is = "digest" -> <<Item("episode_digest", <<value.id>>, value.text)>>
AllCandidates(values) == FlattenSeq([i \in DOMAIN values |-> Candidates(values[i])])

(* One candidate that occurs twice, or has no summary, fails all of them.      *)
Name(item) == <<item.kind, item.id>>
CandidatesAreValid(items) ==
  /\ \A i, j \in DOMAIN items : Name(items[i]) = Name(items[j]) => i = j
  /\ \A i \in DOMAIN items : items[i].text # Blank

KindOrder(kind) == CASE kind = "archive_record" -> 0 [] kind = "episode_digest" -> 1 [] OTHER -> 2
IdBefore(a, b) == a[1] < b[1] \/ (a[1] = b[1] /\ Len(a) = 2 /\ Len(b) = 2 /\ a[2] < b[2])
NameBefore(a, b) ==
  KindOrder(a.kind) < KindOrder(b.kind) \/ (a.kind = b.kind /\ IdBefore(a.id, b.id))
(* The more relevant first, then in the order of the ids.                      *)
RanksAhead(a, b, query) ==
  LET s == Relevance[query][a.text]  t == Relevance[query][b.text] IN s > t \/ (s = t /\ NameBefore(a, b))

RankedFor(items, query) ==
  LET ahead(i) == {j \in DOMAIN items : RanksAhead(items[j], items[i], query)}
  IN [n \in DOMAIN items |-> items[CHOOSE i \in DOMAIN items : Cardinality(ahead(i)) = n - 1]]

Tokens(items) ==
  LET sum[n \in 0..Len(items)] == IF n = 0 THEN 0 ELSE sum[n - 1] + Cost[items[n].text]
  IN sum[Len(items)]
(* Mutant: the first candidate that does not fit ends the selection. *)
SelectUntilFull(items, budget) ==
  LET fits(n) == Tokens(SubSeq(items, 1, n)) <= budget
  IN SubSeq(items, 1, CHOOSE n \in 0..Len(items) : fits(n) /\ (n = Len(items) \/ ~fits(n + 1)))
SelectWithinBudget(items, budget) ==
  LET selected[n \in 0..Len(items)] ==
        IF n = 0 THEN <<>>
        ELSE LET before == selected[n - 1] IN
             IF Tokens(before) + Cost[items[n].text] <= budget THEN Append(before, items[n]) ELSE before
  IN selected[Len(items)]

ContextIsValid(c) ==
  /\ c.budget > 0 /\ c.used + c.remaining = c.budget /\ c.used = Tokens(c.items) /\ c.remaining >= 0
  /\ \A i, j \in DOMAIN c.items : i < j => ~RanksAhead(c.items[j], c.items[i], c.query)
  /\ CandidatesAreValid(c.items) /\ c.count >= Len(c.items)
  /\ c.status = "empty" => c.count = 0
  /\ c.status = "ok" => c.count = Len(c.items)
Retrieve(values, query, budget) ==
  LET candidates == AllCandidates(values)
      selected == SelectWithinBudget(RankedFor(candidates, query), budget)
      context == [query |-> query, budget |-> budget, items |-> selected, count |-> Len(candidates),
                  used |-> Tokens(selected), remaining |-> budget - Tokens(selected),
                  status |-> IF candidates = <<>> THEN "empty"
                             ELSE IF Len(candidates) > Len(selected) THEN "truncated" ELSE "ok"]
  IN IF CandidatesAreValid(candidates) /\ ContextIsValid(context) THEN context ELSE Refused
=============================================================================
