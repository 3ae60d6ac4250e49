---------------------------- MODULE LocalCompletions ----------------------------
(***************************************************************************)
(* The estimate of a provider that is defined by the user and counted      *)
(* locally (syncLocalQuotaEstimate): completions are read from OpenCode's  *)
(* database and the transcripts of the Claude CLI, entered in a journal    *)
(* that survives what is deleted there, and counted by window.  Each       *)
(* process that shows quota has a helper of its own; they share the        *)
(* journal, and the sources change meanwhile.                              *)
(*                                                                         *)
(* Only completions of the definition's provider and models are there.  A  *)
(* usage stands for tokens, None for those that are not usable.            *)
(***************************************************************************)
EXTENDS Integers, Sequences, FiniteSetsExt, Functions
LOCAL INSTANCE SequencesExt

CONSTANTS
  Process, Session,
  Response,      \* responses of the Claude CLI
  Usage, Cost,   \* usages, and what each costs: Missing where it has no price
  None,
  Failed,        \* a source that cannot be read
  Windows,       \* window -> [kind, length]: a day, or the last length
  Day,
  MaxNow, MaxItems, MaxFaults

VARIABLES
  now, faults,
  issued,        \* ids given to messages, and lines written
  messages,      \* OpenCode's: set of [id, session, of, at, usage]
  lines,         \* of the transcripts: sequence of [id, at, usage, complete]
  events,        \* custom_estimate_events: [source, print, nth] -> [at, usage]
  aliases,       \* custom_estimate_aliases: <<source, id>> -> event
  sync,          \* what each process is at: [pc, now, opencode, claude]
  known          \* history: each completion that was ever entered, as read best

completionVars == <<now, faults, issued, messages, lines, events, aliases, sync, known>>

Missing == -1000
Source == {"opencode", "claude-cli"}
Put(f, k, v) == [x \in DOMAIN f \cup {k} |-> IF x = k THEN v ELSE f[x]]

------------------------------------------------------------------------------
(* Reading.                                                                 *)

\* localWindowSince
Since(w, at) == IF w.kind = "day" THEN (at \div Day) * Day ELSE at - w.length
Oldest(at) == Min({Since(Windows[w], at) : w \in DOMAIN Windows})

Earlier(a, b) == a.at < b.at \/ (a.at = b.at /\ a.id < b.id)

\* deduplicateSessionCopies: a message is kept if its session has more of the same,
\* by times and usage, than each session before it.
Canonical(batch) ==
  {m \in batch :
     LET before(n) == n = m \/ Earlier(n, m)
         nth(s, limit) == Cardinality({n \in batch : n.session = s /\ n.at = m.at /\ n.usage = m.usage
                                                  /\ (n = limit \/ Earlier(n, limit))})
     IN  \A n \in batch :
           Earlier(n, m) /\ n.at = m.at /\ n.usage = m.usage /\ n.session # m.session
             => nth(n.session, n) < nth(m.session, m)}

\* One line of a response that stands for it: of a batch's, the one that is complete
\* and the latest, as they are met.
Better(line, best) ==
  IF best = None THEN line
  ELSE IF best.complete /\ ~line.complete THEN best
  ELSE IF best.at > line.at THEN best ELSE line

Best(batch, id) ==
  LET better(best, line) == IF line.id = id THEN Better(line, best) ELSE best
  IN  FoldLeft(better, None, batch)

\* sourceTokens
UsageOf(source, item) == IF source = "claude-cli" /\ ~item.complete THEN None ELSE item.usage

------------------------------------------------------------------------------
(* Entering a batch.                                                        *)

Event(source, print, nth) == [source |-> source, print |-> print, nth |-> nth]

\* The event of a message: the one it was entered as; else one of the same time that
\* no message of this batch has; else a new one.
EventOf(journal, source, item) ==
  LET key == <<source, item.id>>
      print == IF source = "opencode" THEN item.at ELSE item.id
      alike == {e \in DOMAIN journal.events : e.source = source /\ e.print = print}
      free == alike \ (journal.claimed \cup journal.reserved)
  IN  IF key \in DOMAIN journal.aliases THEN journal.aliases[key]
      ELSE IF free # {} THEN CHOOSE e \in free : \A d \in free : e.nth <= d.nth
      ELSE Event(source, print, Cardinality(alike))

\* Mutant: the last record that was read is what is known of a response.
Entered_Last(journal, source, item) ==
  LET e == EventOf(journal, source, item)
  IN  [journal EXCEPT !.claimed = @ \cup {e},
                      !.events = Put(@, e, [at |-> item.at, usage |-> UsageOf(source, item)]),
                      !.aliases = IF <<source, item.id>> \in DOMAIN @ THEN @ ELSE Put(@, <<source, item.id>>, e)]

\* A late partial record does not erase a usage that was complete.
Entered(journal, source, item) ==
  LET e == EventOf(journal, source, item)
      usage == UsageOf(source, item)
      claimed == [journal EXCEPT !.claimed = @ \cup {e}]
  IN  IF source = "claude-cli" /\ usage = None /\ e \in DOMAIN journal.events /\ journal.events[e].usage # None
      THEN claimed
      ELSE [claimed EXCEPT !.events = Put(@, e, [at |-> item.at, usage |-> usage]),
                           !.aliases = IF <<source, item.id>> \in DOMAIN @ THEN @
                                       ELSE Put(@, <<source, item.id>>, e)]

\* One source's batch: messages that were entered before come first.
Batch(journal, source, items) ==
  LET old(i) == <<source, i.id>> \in DOMAIN journal.aliases
      first(a, b) == (old(a) /\ ~old(b)) \/ (old(a) = old(b) /\ Earlier(a, b))
      start == [journal EXCEPT !.claimed = {},
                               !.reserved = {journal.aliases[<<source, i.id>>] : i \in {j \in items : old(j)}}]
      enter(j, item) == Entered(j, source, item)
  IN  FoldLeft(enter, start, SetToSortSeq(items, first))

\* The transaction, up to COMMIT.
Journal(opencode, claude, at) ==
  LET kept == {e \in DOMAIN events : events[e].at >= Oldest(at) - Day}
      start == [events |-> Restrict(events, kept), aliases |-> aliases, claimed |-> {}, reserved |-> {}]
      best == {Best(claude, id) : id \in {claude[i].id : i \in DOMAIN claude}}
      after == Batch(Batch(start, "opencode", opencode), "claude-cli", best)
  IN  [after EXCEPT !.aliases = Restrict(@, {k \in DOMAIN @ : @[k] \in DOMAIN after.events})]

------------------------------------------------------------------------------
(* The rows.                                                                *)

\* What is shown of one window: the requests that were used and what they cost,
\* Missing instead of a percentage; and how many are recorded.
Rows(entered, failed, at) ==
  [w \in DOMAIN Windows |->
     LET selected == {e \in DOMAIN entered : entered[e].at \in Since(Windows[w], at)..at}
         unknown == {e \in selected : entered[e].usage = None \/ Cost[entered[e].usage] = Missing}
         spent == FoldSet(LAMBDA e, sum : sum + Cost[entered[e].usage], 0, selected \ unknown)
     IN  [used |-> IF failed THEN Missing ELSE Cardinality(selected),
          recorded |-> Cardinality(selected),
          spent |-> IF failed \/ unknown # {} THEN Missing ELSE spent]]

------------------------------------------------------------------------------
(* The sources.                                                             *)

Genuine == {m \in messages : m.of = m.id}

\* No two sessions complete a message, but for copies, in the same millisecond.
Complete(s, usage) ==
  /\ issued < MaxItems /\ issued' = issued + 1
  /\ \A m \in Genuine : m.at = now => m.session = s
  /\ messages' = messages \cup {[id |-> issued', session |-> s, of |-> issued', at |-> now, usage |-> usage]}
  /\ UNCHANGED <<now, faults, lines, events, aliases, sync, known>>

\* A fork has copies of the messages so far, under later ids.
Fork(s, t) ==
  LET mine == SetToSortSeq({m \in messages : m.session = s}, Earlier)
  IN  /\ mine # <<>> /\ \A m \in messages : m.session # t
      /\ issued + Len(mine) <= MaxItems /\ issued' = issued + Len(mine)
      /\ messages' = messages \cup {[mine[i] EXCEPT !.id = issued + i, !.session = t] : i \in DOMAIN mine}
      /\ UNCHANGED <<now, faults, lines, events, aliases, sync, known>>

\* Not in the millisecond of its last completion.
DeleteSession(s) ==
  /\ \E m \in messages : m.session = s
  /\ \A m \in messages : m.session = s => m.at < now
  /\ messages' = {m \in messages : m.session # s}
  /\ UNCHANGED <<now, faults, issued, lines, events, aliases, sync, known>>

\* A response is streamed in several lines, of which one is complete.
Stream(id, usage, complete) ==
  /\ issued < MaxItems /\ issued' = issued + 1
  /\ complete => \A i \in DOMAIN lines : ~(lines[i].id = id /\ lines[i].complete)
  /\ lines' = Append(lines, [id |-> id, at |-> now, usage |-> usage, complete |-> complete])
  /\ UNCHANGED <<now, faults, messages, events, aliases, sync, known>>

\* A transcript is removed, and with it lines that others may have copies of.
DropLine(i) ==
  /\ i \in DOMAIN lines
  /\ lines' = SubSeq(lines, 1, i - 1) \o SubSeq(lines, i + 1, Len(lines))
  /\ UNCHANGED <<now, faults, issued, messages, events, aliases, sync, known>>

Tick ==
  /\ now < MaxNow /\ now' = now + 1
  /\ UNCHANGED <<faults, issued, messages, lines, events, aliases, sync, known>>

------------------------------------------------------------------------------
(* A call.                                                                  *)

Resting == [pc |-> "idle", now |-> 0, opencode |-> {}, claude |-> <<>>]

Begin(p) ==
  /\ sync[p].pc = "idle"
  /\ sync' = [sync EXCEPT ![p] = [pc |-> "reading", now |-> now, opencode |-> None, claude |-> None]]
  /\ UNCHANGED <<now, faults, issued, messages, lines, events, aliases, known>>

\* The sources are read at the same time, each of them whole or not at all.
Reads(p, which, batch) ==
  /\ sync[p].pc = "reading" /\ sync[p][which] = None
  /\ \/ sync' = [sync EXCEPT ![p][which] = batch] /\ UNCHANGED faults
     \/ /\ faults < MaxFaults /\ faults' = faults + 1
        /\ sync' = [sync EXCEPT ![p][which] = Failed]
  /\ UNCHANGED <<now, issued, messages, lines, events, aliases, known>>

Within(p, item) == item.at \in Oldest(sync[p].now)..sync[p].now

ReadOpenCode(p) == Reads(p, "opencode", {m \in messages : Within(p, m)})
ReadClaude(p) == Reads(p, "claude", SelectSeq(lines, LAMBDA l : Within(p, l)))

\* The history of what was entered: copies are known by what they are copies of.
Learned(opencode, claude) ==
  LET ids == {claude[i].id : i \in DOMAIN claude}
      key(item, source) == <<source, IF source = "opencode" THEN item.of ELSE item.id>>
      read == [k \in {key(m, "opencode") : m \in opencode} |->
                 LET m == CHOOSE n \in opencode : n.of = k[2] IN [at |-> m.at, usage |-> m.usage]]
      heard == [k \in {<<"claude-cli", id>> : id \in ids} |->
                  LET b == Best(claude, k[2])
                  IN  IF ~b.complete /\ k \in DOMAIN known /\ known[k].usage # None THEN known[k]
                      ELSE [at |-> b.at, usage |-> UsageOf("claude-cli", b)]]
  IN  [k \in DOMAIN known \cup DOMAIN read \cup DOMAIN heard |->
         IF k \in DOMAIN read THEN read[k] ELSE IF k \in DOMAIN heard THEN heard[k] ELSE known[k]]

\* The transaction; the rows, of the journal as it leaves it, are what is returned.
Commit(p) ==
  LET s == sync[p]
      opencode == IF s.opencode = Failed THEN {} ELSE s.opencode
      claude == IF s.claude = Failed THEN <<>> ELSE s.claude
      journal == Journal(Canonical(opencode), claude, s.now)
  IN  /\ s.pc = "reading" /\ s.opencode # None /\ s.claude # None
      /\ events' = journal.events /\ aliases' = journal.aliases
      /\ known' = Learned(opencode, claude)
      /\ sync' = [sync EXCEPT ![p] = Resting]
      /\ UNCHANGED <<now, faults, issued, messages, lines>>

\* The transaction fails and is rolled back, or the helper is gone.
Abort(p) ==
  /\ sync[p].pc = "reading" /\ faults < MaxFaults /\ faults' = faults + 1
  /\ sync' = [sync EXCEPT ![p] = Resting]
  /\ UNCHANGED <<now, issued, messages, lines, events, aliases, known>>

CompletionInit ==
  /\ now = 0 /\ faults = 0 /\ issued = 0
  /\ messages = {} /\ lines = <<>>
  /\ events = <<>> /\ aliases = <<>>
  /\ sync = [p \in Process |-> Resting]
  /\ known = <<>>

CompletionNext ==
  \/ Tick
  \/ \E s \in Session :
       \/ DeleteSession(s)
       \/ \E usage \in Usage : Complete(s, usage)
       \/ \E t \in Session : Fork(s, t)
  \/ \E id \in Response, usage \in Usage, complete \in BOOLEAN : Stream(id, usage, complete)
  \/ \E i \in 1..MaxItems : DropLine(i)
  \/ \E p \in Process : Begin(p) \/ ReadOpenCode(p) \/ ReadClaude(p) \/ Commit(p) \/ Abort(p)

CompletionSpec == CompletionInit /\ [][CompletionNext]_completionVars

------------------------------------------------------------------------------
(* Property.                                                                *)

KnownIn(w, at) == {k \in DOMAIN known : known[k].at \in Since(Windows[w], at)..at}

\* Each completion that was ever entered is counted once, in the windows it is in,
\* and paid for once: whatever forks and deletes sessions, rereads responses, fails
\* or enters older readings in between.  And where a source could not be read, or a
\* price is not known, no share is shown.
CountedHonestly ==
  \A p \in Process :
    Commit(p) /\ sync[p].now = now =>
      \A w \in DOMAIN Windows :
        LET row == Rows(events', Failed \in {sync[p].opencode, sync[p].claude}, now)[w]
            mine == KnownIn(w, now)'
            costs == {Cost[known'[k].usage] : k \in {j \in mine : known'[j].usage # None}}
            failed == Failed \in {sync[p].opencode, sync[p].claude}
            open == failed \/ Missing \in costs \/ \E k \in mine : known'[k].usage = None
        IN  /\ row.recorded = Cardinality(mine)
            /\ row.used = IF failed THEN Missing ELSE Cardinality(mine)
            /\ row.spent = IF open THEN Missing
                           ELSE FoldSet(LAMBDA k, sum : sum + Cost[known'[k].usage], 0, mine)
==============================================================================
