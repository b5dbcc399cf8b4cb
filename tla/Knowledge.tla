------------------------------ MODULE Knowledge ------------------------------
(***************************************************************************)
(* The knowledge base: notes that agents contribute, use and flag, and the *)
(* housekeeping that compacts, prunes and resolves them.                   *)
(*                                                                         *)
(* Each entry is a file, and a write compares the hash of the file it was  *)
(* read from, so a call that loads and saves one entry is one step.        *)
(* Housekeeping is not: it decides on a snapshot of all entries and then   *)
(* writes them one by one (kpend), while other calls go on.  A merged      *)
(* entry is written with every field of the snapshot.                      *)
(*                                                                         *)
(* An entry's id is its place in kb.  A topic and a content are sets of    *)
(* words.  Confidence is in thousandths.  Time is counted in periods of 30 *)
(* days: idle since the entry was used or made, since its last update.     *)
(***************************************************************************)
EXTENDS Naturals, Sequences, FiniteSets, SequencesExt

CONSTANTS
    KnowledgeScenes, \* [notes, tiers, calls, entries, uses]: what may be contributed,
                     \* the calls made, bounds on the entries and the uses reported
    Scopes,          \* where a note applies
    MaxSurfaced,     \* the entries handed to one task at most
    MaxHits,         \* bound on the hits counted
    MaxCount         \* bound on the counts that merges add up

VARIABLES
    kscene,   \* one of KnowledgeScenes
    kb,       \* the entries, by id
    kpend,    \* the calls that are under way
    surfacer, \* the server's copy of the entries: [token, entries]
    caphits   \* scope -> consecutive assemblies that hit the cap

kvars == <<kscene, kb, kpend, surfacer, caphits>>

KCalls(name) == name \in kscene.calls
Ids == 1..Len(kb)
Live(e) == e.st # "retired"
NoCopy == [token |-> "none", entries |-> <<>>]

(* One call at a time is under way between its steps. *)
Idle == kpend = {}
Undertake(p) == kpend' = {p}
GoOn(p, q) == kpend' = (kpend \ {p}) \cup {q}
Leave(p) == kpend' = kpend \ {p}

(* The surfacer's token is the modification time of the directory, which    *)
(* every write changes.                                                    *)
OutdatedByNewFiles(c) ==
    IF c.token = "current" /\ Len(kb') # Len(kb) THEN [c EXCEPT !.token = "old"] ELSE c
Outdated(c) == IF c.token = "current" THEN [c EXCEPT !.token = "old"] ELSE c
Restamped == /\ surfacer' = Outdated(surfacer)
             /\ UNCHANGED <<kscene, caphits>>
Store(i, e) == /\ kb' = [kb EXCEPT ![i] = e]
               /\ Restamped

(* A call that writes one entry and is over. *)
Saves(i, e) ==
    /\ Store(i, [e EXCEPT !.since = 0])
    /\ kpend' = {IF p.op = "surface" THEN Outdated(p) ELSE p : p \in kpend}

-----------------------------------------------------------------------------
(* Words, confidence, statuses. *)

(* Jaccard similarity as a pair of numbers; two empty sets are the same.   *)
Shared(a, b) == IF a \cup b = {} THEN 1 ELSE Cardinality(a \cap b)
All(a, b) == IF a \cup b = {} THEN 1 ELSE Cardinality(a \cup b)
AboveNear(a, b) == 100 * Shared(a, b) > 65 * All(a, b)
Contrary(a, b) == /\ 10 * Shared(a, b) >= 3 * All(a, b)
                  /\ 10 * Shared(a, b) <= 6 * All(a, b)

(* The lower bound of the Wilson interval with z = 1.96: the root is of     *)
(* u m / n + z z / 4, in thousandths.                                      *)
Root(n) == CHOOSE r \in 0..2000 : r * r <= n /\ (r + 1) * (r + 1) > n

WilsonScore ==
    [u, m \in 0..MaxCount |->
        LET n == u + m
            spread == Root((u * m * 1000000) \div n + 960400) IN
        IF n = 0 THEN 500
        ELSE (1000 * (10000 * u + 19208 - (196 * spread) \div 10)) \div (10000 * n + 38416)]

(* The file holds the confidence as a quoted number, which the packages    *)
(* that compact and prune do not take for a number.                        *)
GetConfidence(e) == 500

KnowledgeTransitions ==
    [contributed |-> {"confirmed", "disputed", "retired"},
     confirmed |-> {"disputed", "stale", "retired"},
     disputed |-> {"confirmed", "retired"},
     stale |-> {"confirmed", "retired"},
     retired |-> {}]

CanTransitionKnowledge(from, to) == to \in KnowledgeTransitions[from]

-----------------------------------------------------------------------------
(* Calls on one entry.  A new entry is checked against the entries of its  *)
(* scope and written in a second step.                                     *)

NewEntry(note, tier) ==
    [topic |-> note.topic, scope |-> note.scope, content |-> note.content, tier |-> tier,
     st |-> "contributed", use |-> 0, miss |-> 0, conf |-> 500, merged |-> FALSE,
     idle |-> 0, since |-> 0]

Duplicates(note) ==
    {i \in Ids : /\ kb[i].scope = note.scope /\ Live(kb[i])
                 /\ \/ kb[i].topic = note.topic
                    \/ AboveNear(kb[i].content, note.content)}

Writers == {p \in kpend : p.op = "contribute"}

ContributeChecked(note, tier) ==
    /\ Duplicates(note) = {}
    /\ Len(kb) + Cardinality(Writers) < kscene.entries
    /\ kpend' = kpend \cup {[op |-> "contribute", e |-> NewEntry(note, tier)]}
    /\ UNCHANGED <<kscene, kb, surfacer, caphits>>

ContributeWritten(p) ==
    /\ p.op = "contribute"
    /\ kb' = Append(kb, p.e)
    /\ kpend' = {IF q.op = "surface" THEN Outdated(q) ELSE q : q \in kpend \ {p}}
    /\ Restamped

KnowledgeUpdate(i, content) ==
    Saves(i, [kb[i] EXCEPT !.content = content, !.use = 0, !.miss = 0, !.conf = 500])

KnowledgeConfirm(i) ==
    /\ CanTransitionKnowledge(kb[i].st, "confirmed")
    /\ Saves(i, [kb[i] EXCEPT !.st = "confirmed"])

(* kbz knowledge confirm stamps the entry and only brings back a stale one. *)
CliConfirm(i) ==
    Saves(i, [kb[i] EXCEPT !.st = IF @ = "stale" THEN "confirmed" ELSE @])

KnowledgeRetire(i) ==
    /\ CanTransitionKnowledge(kb[i].st, "retired")
    /\ Saves(i, [kb[i] EXCEPT !.st = "retired"])

Flagged(e) ==
    [e EXCEPT !.miss = @ + 1, !.conf = WilsonScore[e.use, e.miss + 1],
              !.st = IF e.miss + 1 >= 2 THEN "retired"
                     ELSE IF CanTransitionKnowledge(@, "disputed") THEN "disputed" ELSE @]

KnowledgeFlag(i) ==
    /\ Live(kb[i]) /\ kb[i].use + kb[i].miss < MaxCount
    /\ Saves(i, Flagged(kb[i]))

Promote(i) ==
    /\ kb[i].tier = 3
    /\ Saves(i, [kb[i] EXCEPT !.tier = 2])

(* What a finished task says of the entries it was given: retired entries   *)
(* are counted too.                                                        *)
UsedOldCount(e) ==
    [e EXCEPT !.use = @ + 1, !.conf = WilsonScore[e.use + 1, e.miss], !.idle = 0,
              !.st = IF @ = "contributed" /\ e.use >= 3 /\ e.miss = 0 THEN "confirmed" ELSE @]

Used(e) ==
    [e EXCEPT !.use = @ + 1, !.conf = WilsonScore[e.use + 1, e.miss], !.idle = 0,
              !.st = IF @ = "contributed" /\ e.use + 1 >= 3 /\ e.miss = 0
                     THEN "confirmed" ELSE @]

ReportedDisputed(e) ==
    [e EXCEPT !.miss = @ + 1, !.conf = WilsonScore[e.use, e.miss + 1],
              !.st = IF e.miss + 1 >= 2 THEN "retired" ELSE "disputed"]

ReportedWrong(e) ==
    [e EXCEPT !.miss = @ + 1, !.conf = WilsonScore[e.use, e.miss + 1],
              !.st = IF e.miss + 1 >= 2 THEN "retired" ELSE @]

ContextReport(i) ==
    /\ kb[i].use + kb[i].miss < kscene.uses
    /\ Saves(i, Used(kb[i])) \/ Saves(i, ReportedWrong(kb[i]))

-----------------------------------------------------------------------------
(* Compaction: pairs of live entries, in the order of their ids. *)

SameTopic(a, b) == a.topic # {} /\ a.topic = b.topic

DetectRelationship(a, b) ==
    IF SameTopic(a, b) /\ a.content = b.content THEN "exact_duplicate"
    ELSE IF SameTopic(a, b) \/ (a.scope = b.scope /\ AboveNear(a.content, b.content))
    THEN "near_duplicate"
    ELSE IF a.scope = b.scope /\ a.topic \cap b.topic # {} /\ Contrary(a.content, b.content)
    THEN "contradiction"
    ELSE "independent"

ShouldMerge(a, b) ==
    /\ a.tier = 3 /\ b.tier = 3
    /\ \/ /\ DetectRelationship(a, b) = "exact_duplicate"
          /\ GetConfidence(a) >= 500 \/ GetConfidence(b) >= 500
       \/ /\ DetectRelationship(a, b) = "near_duplicate"
          /\ GetConfidence(a) > 500 /\ GetConfidence(b) > 500

(* a and b are [id, e].  The kept one gets the counts of both.             *)
MergeEntries(a, b) ==
    LET keepA == \/ GetConfidence(a.e) > GetConfidence(b.e)
                 \/ GetConfidence(a.e) = GetConfidence(b.e) /\ a.e.use >= b.e.use
        kept == IF keepA THEN a ELSE b
        discarded == IF keepA THEN b ELSE a
    IN [kept |-> [kept EXCEPT !.e.use = a.e.use + b.e.use, !.e.miss = a.e.miss + b.e.miss,
                              !.e.merged = TRUE],
        discarded |-> [discarded EXCEPT !.e.st = "retired"]]

Filing(updates, id, u) ==
    [k \in {id} \cup DOMAIN updates |-> IF k = id THEN u ELSE updates[k]]

(* One pair: slot is the entry of the row, which a merge replaces by the    *)
(* one that is kept, first the id the row began with.  updates is keyed by *)
(* id, and a contradiction files the slot under first.                     *)
Compared(s, first, b) ==
    LET m == MergeEntries(s.slot, b) IN
    IF b.id \in s.processed THEN s
    ELSE IF ShouldMerge(s.slot.e, b.e)
    THEN [slot |-> m.kept,
          updates |-> Filing(Filing(s.updates, m.kept.id, m.kept), m.discarded.id, m.discarded),
          processed |-> s.processed \cup {m.discarded.id}]
    ELSE IF DetectRelationship(s.slot.e, b.e) = "contradiction"
    THEN [s EXCEPT !.updates = Filing(Filing(@, first, [s.slot EXCEPT !.e.st = "disputed"]),
                                      b.id, [b EXCEPT !.e.st = "disputed"])]
    ELSE s

CompareRow(entries, s, i) ==
    IF entries[i].id \in s.processed THEN s
    ELSE FoldLeft(LAMBDA r, k : Compared(r, entries[i].id, entries[i + k]),
                  [s EXCEPT !.slot = entries[i]],
                  [k \in 1..(Len(entries) - i) |-> k])

(* The entries with these ids, in their order, as [id, e].                  *)
InOrder(ids) ==
    CHOOSE s \in [1..Cardinality(ids) -> ids] : \A i, j \in DOMAIN s : i < j => s[i] < s[j]
EntriesOf(ids) == LET s == InOrder(ids) IN [k \in DOMAIN s |-> [id |-> s[k], e |-> kb[s[k]]]]

ActiveAndRetired(scope) == EntriesOf({i \in Ids : scope = "all" \/ kb[i].scope = scope})
Active(scope) == EntriesOf({i \in Ids : Live(kb[i]) /\ (scope = "all" \/ kb[i].scope = scope)})

(* The entries to write, as a set of [id, e].                              *)
CompactEntries(scope) ==
    LET entries == Active(scope)
        start == [slot |-> [id |-> 0], updates |-> <<>>, processed |-> {}]
        end == FoldLeft(LAMBDA s, i : CompareRow(entries, s, i), start,
                        [i \in 1..Len(entries) |-> i])
    IN {end.updates[k] : k \in DOMAIN end.updates}

CompactBegin(scope, cli) ==
    /\ Idle
    /\ CompactEntries(scope) # {}
    /\ \A u \in CompactEntries(scope) : u.e.use + u.e.miss <= MaxCount
    /\ Undertake([op |-> "compact", todo |-> CompactEntries(scope), cli |-> cli])
    /\ UNCHANGED <<kscene, kb, surfacer, caphits>>

(* The tool retires through the transition table and lays the other fields *)
(* over the entry as it is by then; the command writes the snapshot.       *)
Compacted(p, u) ==
    IF p.cli \/ Live(u.e) THEN u.e
    ELSE IF CanTransitionKnowledge(kb[u.id].st, "retired") THEN [kb[u.id] EXCEPT !.st = "retired"]
    ELSE kb[u.id]

CompactStep(p) ==
    /\ p.op = "compact"
    /\ \E u \in p.todo :
          /\ \A v \in p.todo : u.id <= v.id
          /\ kpend' = (kpend \ {p}) \cup
                      IF p.todo = {u} THEN {} ELSE {[p EXCEPT !.todo = @ \ {u}]}
          /\ Store(u.id, Compacted(p, u))

-----------------------------------------------------------------------------
(* Pruning: a tier-3 entry lives for 30 days after its last use, a tier-2   *)
(* entry for 90.                                                           *)

Expired(e) == e.idle >= IF e.tier = 3 THEN 1 ELSE 3

CheckPruneCondition(e) ==
    /\ Live(e) /\ Expired(e)
    /\ IF e.tier = 3 THEN e.use < 3 ELSE GetConfidence(e) < 500

PruneExpiredEntries(tiers) == {i \in Ids : kb[i].tier \in tiers /\ CheckPruneCondition(kb[i])}

PruneBegin(tiers, cli) ==
    /\ Idle
    /\ PruneExpiredEntries(tiers) # {}
    /\ Undertake([op |-> "prune", todo |-> PruneExpiredEntries(tiers), cli |-> cli])
    /\ UNCHANGED <<kscene, kb, surfacer, caphits>>

(* The command reads the entry with a call that touches the file in the    *)
(* background, which may make its own write fail.                          *)
PruneStep(p) ==
    /\ p.op = "prune"
    /\ \E i \in p.todo :
          /\ kpend' = (kpend \ {p}) \cup
                      IF p.todo = {i} THEN {} ELSE {[p EXCEPT !.todo = @ \ {i}]}
          /\ \/ /\ p.cli \/ CanTransitionKnowledge(kb[i].st, "retired")
                /\ Store(i, [kb[i] EXCEPT !.st = "retired"])
             \/ /\ p.cli \/ ~ CanTransitionKnowledge(kb[i].st, "retired")
                /\ UNCHANGED <<kscene, kb, surfacer, caphits>>

-----------------------------------------------------------------------------
(* Resolving a conflict: keep one entry, retire the other.  The tool reads *)
(* both, adds up the counts it read if it merges, retires, and confirms    *)
(* the kept entry if it read it as disputed.                               *)

Countable(keep, drop) ==
    kb[keep].use + kb[drop].use + kb[keep].miss + kb[drop].miss <= MaxCount

ResolveBegin(keep, drop, merge) ==
    /\ Idle
    /\ merge => Countable(keep, drop)
    /\ Undertake([op |-> IF merge THEN "resolve_merge" ELSE "resolve_retire",
                  keep |-> keep, drop |-> drop, k |-> kb[keep], d |-> kb[drop]])
    /\ UNCHANGED <<kscene, kb, surfacer, caphits>>

ResolveStep(p) ==
    \/ /\ p.op = "resolve_merge"
       /\ GoOn(p, [p EXCEPT !.op = "resolve_retire"])
       /\ Store(p.keep, [kb[p.keep] EXCEPT !.use = p.k.use + p.d.use,
                                           !.miss = p.k.miss + p.d.miss, !.merged = TRUE])
    \/ /\ p.op = "resolve_retire"
       /\ IF CanTransitionKnowledge(kb[p.drop].st, "retired")
          THEN /\ Store(p.drop, [kb[p.drop] EXCEPT !.st = "retired"])
               /\ IF p.k.st = "disputed" THEN GoOn(p, [p EXCEPT !.op = "resolve_confirm"])
                  ELSE Leave(p)
          ELSE Leave(p) /\ UNCHANGED <<kscene, kb, surfacer, caphits>>
    \/ /\ p.op = "resolve_confirm"
       /\ Leave(p)
       /\ IF CanTransitionKnowledge(kb[p.keep].st, "confirmed")
          THEN Store(p.keep, [kb[p.keep] EXCEPT !.st = "confirmed"])
          ELSE UNCHANGED <<kscene, kb, surfacer, caphits>>

(* The command writes the kept entry as confirmed and then the other as     *)
(* retired, each unless its file has changed since it was read.            *)
CliResolveBegin(keep, drop, merge) ==
    /\ Idle
    /\ merge => Countable(keep, drop)
    /\ Undertake([op |-> "cli_keep", keep |-> keep, drop |-> drop, d |-> kb[drop], k |-> kb[keep],
                  new |-> [kb[keep] EXCEPT !.st = "confirmed", !.merged = TRUE,
                             !.content = IF merge THEN @ \cup kb[drop].content ELSE @,
                             !.use = IF merge THEN @ + kb[drop].use ELSE @]])
    /\ UNCHANGED <<kscene, kb, surfacer, caphits>>

CliResolveStep(p) ==
    \/ /\ p.op = "cli_keep" /\ kb[p.keep] = p.k
       /\ Store(p.keep, p.new)
       /\ GoOn(p, [p EXCEPT !.op = "cli_drop"])
    \/ /\ p.op = "cli_drop" /\ kb[p.drop] = p.d
       /\ Store(p.drop, [p.d EXCEPT !.st = "retired"])
       /\ Leave(p)
    \/ /\ \/ p.op = "cli_keep" /\ kb[p.keep] # p.k
          \/ p.op = "cli_drop" /\ kb[p.drop] # p.d
       /\ Leave(p)
       /\ UNCHANGED <<kscene, kb, surfacer, caphits>>

-----------------------------------------------------------------------------
(* Handing knowledge to a task: the entries of its scope and of the whole   *)
(* project, at most MaxSurfaced of them, the best scores first.  The token *)
(* is read before the entries are.                                         *)

MatchEntries(entries, scope) ==
    {i \in 1..Len(entries) : Live(entries[i]) /\ entries[i].scope \in {scope, "project"}}

(* confidence * 90 / (90 + days) * (1 if confirmed, else 0.8), scaled.      *)
ScoreEntry(e) ==
    (GetConfidence(e) * 3 * IF e.st = "confirmed" THEN 10 ELSE 8) \div (3 + e.since)

Better(entries, i, j) ==
    \/ ScoreEntry(entries[i]) > ScoreEntry(entries[j])
    \/ ScoreEntry(entries[i]) = ScoreEntry(entries[j]) /\ i > j

RankAndCap(entries, matched) ==
    {i \in matched : Cardinality({j \in matched : Better(entries, j, i)}) < MaxSurfaced}

RecordAssembly(scope, entries) ==
    LET matched == MatchEntries(entries, scope) IN
    caphits' = IF matched = {} THEN caphits
               ELSE IF RankAndCap(entries, matched) # matched
               THEN [caphits EXCEPT ![scope] = IF @ < MaxHits THEN @ + 1 ELSE @]
               ELSE [caphits EXCEPT ![scope] = 0]

SurfaceBegin(scope) ==
    /\ Idle
    /\ IF surfacer.token = "current"
       THEN RecordAssembly(scope, surfacer.entries) /\ UNCHANGED kpend
       ELSE /\ Undertake([op |-> "surface", scope |-> scope, token |-> "current"])
            /\ UNCHANGED caphits
    /\ UNCHANGED <<kscene, kb, surfacer>>

SurfaceEnd(p) ==
    /\ p.op = "surface"
    /\ surfacer' = [token |-> p.token, entries |-> kb]
    /\ RecordAssembly(p.scope, kb)
    /\ Leave(p)
    /\ UNCHANGED <<kscene, kb>>

-----------------------------------------------------------------------------
KnowledgeCrash ==
    /\ kpend # {} /\ KCalls("crash")
    /\ kpend' = {}
    /\ surfacer' = NoCopy
    /\ UNCHANGED <<kscene, kb, caphits>>

(* Thirty days go by, with no call under way; periods are counted to 3.    *)
Older(entries) ==
    [i \in 1..Len(entries) |->
        [entries[i] EXCEPT !.idle = IF @ < 3 THEN @ + 1 ELSE @,
                           !.since = IF @ < 3 THEN @ + 1 ELSE @]]

ThirtyDays ==
    /\ Idle /\ KCalls("time")
    /\ \E i \in Ids : kb[i].idle < 3 \/ kb[i].since < 3
    /\ kb' = Older(kb)
    /\ surfacer' = [surfacer EXCEPT !.entries = Older(@)]
    /\ UNCHANGED <<kscene, kpend, caphits>>

KnowledgeInit ==
    /\ kscene \in KnowledgeScenes
    /\ kb = <<>> /\ kpend = {}
    /\ surfacer = NoCopy
    /\ caphits = [s \in Scopes |-> 0]

OnEntry(i) ==
    \/ KCalls("update") /\ \E note \in kscene.notes : KnowledgeUpdate(i, note.content)
    \/ KCalls("confirm") /\ (KnowledgeConfirm(i) \/ CliConfirm(i))
    \/ KCalls("retire") /\ KnowledgeRetire(i)
    \/ KCalls("flag") /\ KnowledgeFlag(i)
    \/ KCalls("promote") /\ Promote(i)
    \/ KCalls("report") /\ ContextReport(i)

Housekeeping ==
    \/ KCalls("compact") /\ \E s \in Scopes \cup {"all"}, cli \in BOOLEAN : CompactBegin(s, cli)
    \/ KCalls("prune") /\ \E t \in {{2}, {3}, {2, 3}}, cli \in BOOLEAN : PruneBegin(t, cli)
    \/ /\ KCalls("resolve")
       /\ \E keep, drop \in Ids, merge \in BOOLEAN :
             /\ keep # drop
             /\ ResolveBegin(keep, drop, merge) \/ CliResolveBegin(keep, drop, merge)
    \/ KCalls("surface") /\ \E s \in Scopes \ {"project"} : SurfaceBegin(s)

KnowledgeNext ==
    \/ \E note \in kscene.notes, tier \in kscene.tiers : ContributeChecked(note, tier)
    \/ \E i \in Ids : OnEntry(i)
    \/ Housekeeping
    \/ \E p \in kpend :
          ContributeWritten(p) \/ CompactStep(p) \/ PruneStep(p) \/ ResolveStep(p)
          \/ CliResolveStep(p) \/ SurfaceEnd(p)
    \/ KnowledgeCrash \/ ThirtyDays

KnowledgeSpec == KnowledgeInit /\ [][KnowledgeNext]_kvars

-----------------------------------------------------------------------------
(* Properties. *)

(* knowledge.go:415, 528, 550: the status of an entry keeps up with its     *)
(* counters, whoever counts: with two misses it is retired, and with three *)
(* uses and no miss it is not left waiting for a confirmation.  Only the   *)
(* sums that a merge makes are not looked at.                              *)
CountersMatchStatus ==
    \A i \in Ids : ~ kb[i].merged /\ Live(kb[i]) =>
        /\ kb[i].miss < 2
        /\ kb[i].st = "contributed" => kb[i].use < 3 \/ kb[i].miss > 0

(* compact.go:260: what a compaction is about to write, if nobody else      *)
(* writes, leaves of every note that was live a live entry with the topic  *)
(* and the content.                                                        *)
CompactionKeepsKnowledge ==
    \A s \in Scopes \cup {"all"} :
        LET updates == CompactEntries(s) IN
        \A i \in Ids : Live(kb[i]) =>
            \E j \in Ids :
                /\ kb[j].topic = kb[i].topic /\ kb[j].content = kb[i].content
                /\ \/ Live(kb[j]) /\ \A u \in updates : u.id # j
                   \/ /\ \E u \in updates : u.id = j
                      /\ \A u \in updates : u.id = j => Live(u.e)

(* validate/knowledge.go:28: a retired entry is never live again.  A        *)
(* compaction that decided on an older snapshot writes it back, and so does *)
(* kbz knowledge resolve with a retired entry to keep.                     *)
RevivesFromSnapshot(p, i) ==
    \/ p.op = "compact" /\ \E u \in p.todo : u.id = i /\ Live(u.e)
    \/ p.op = "cli_keep" /\ p.keep = i
RetiredIsFinal ==
    [][\A i \in Ids : ~ Live(kb[i]) /\ Live(kb'[i]) =>
          \E p \in kpend : RevivesFromSnapshot(p, i)]_kvars

(* surfacer.go:115: as long as the token of the copy is the token of the    *)
(* directory, the copy has the entries of the directory, whatever was      *)
(* written while they were read.                                           *)
CopyIsCurrent == surfacer.token = "current" => surfacer.entries = kb
=============================================================================
