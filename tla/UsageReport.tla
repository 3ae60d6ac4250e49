------------------------------- MODULE UsageReport -------------------------------
(***************************************************************************)
(* The report of what was used and what it cost (aggregateUsage, for the   *)
(* whole history, a session or a tree of sessions): it reads the messages  *)
(* of OpenCode's database and, for the whole history, the transcripts of   *)
(* the Claude CLI, while both are written; collapses what a fork of a      *)
(* session copied; and charges each message by PriceResolution, with the   *)
(* prices of the user that this process has in memory.                     *)
(*                                                                         *)
(* The database keeps assistant messages only: those of other roles, and   *)
(* rows that cannot be parsed, are dropped when they are read.             *)
(***************************************************************************)
EXTENDS PriceResolution

CONSTANTS
  Session, File, \* OpenCode's sessions, the CLI's transcripts
  Source,        \* what messages say they come from: [provider, hint, model]
  CliSource,     \* of those, what a transcript can name
  Tokens,        \* usages: bucket -> count
  Database,      \* what the database may hold at first: [sessions, messages]
  Window,        \* windows of time that are asked for: [since, until]
  OwnKey, OwnRates, \* prices the user may set, and what to
  MaxMessages, MaxEntries, MaxEdits, MaxFaults, MaxNow

VARIABLES
  now, edits, faults,
  sessions,      \* session -> [parent, created], of those there are
  messages,      \* set of [id, session, source, created, done, tokens]
  transcripts,   \* file -> [mtime, entries]
  userFile, own, \* user-pricing.json, and the store in memory: key -> rates
  report         \* the report under way, or the last

sourceVars == <<sessions, messages, transcripts>>
priceVars == <<userFile, own>>
usageVars == <<now, edits, faults, sessions, messages, transcripts, userFile, own, report>>

Always == -1    \* an open end of a window, a time that is not known
NoParent == "none"

(***************************************************************************)
(* Reading.                                                                *)
(***************************************************************************)
Earlier(a, b) == a.created < b.created \/ (a.created = b.created /\ a.id < b.id)

InWindow(t, w) == (w.since = Always \/ t >= w.since) /\ (w.until = Always \/ t <= w.until)

\* buildMessageQuery, mapAssistantMessages
Rows(scope, w) ==
  SetToSortSeq({m \in messages : m.session \in scope /\ InWindow(m.created, w)}, Earlier)

\* What deduplicateSessionCopies can tell for a copy, and what it then compares.
Complete(m) == m.source.provider # <<>> /\ m.source.model # Unknown /\ m.done # Always
Fingerprint(m) == <<m.created, m.done, m.source, m.tokens>>

\* How many of the same were met in its session, up to the i-th message.
Nth(s, i) ==
  Cardinality({j \in 1..i : Complete(s[j]) /\ Fingerprint(s[j]) = Fingerprint(s[i]) /\ s[j].session = s[i].session})

\* Mutant: repeats within a session are taken for copies too.
Dropped_Seen(s, i) ==
  /\ Complete(s[i])
  /\ \E j \in 1..(i - 1) : Complete(s[j]) /\ Fingerprint(s[j]) = Fingerprint(s[i])

\* deduplicateSessionCopies: a message is dropped when some session had as many of it before.
Dropped(s, i) ==
  /\ Complete(s[i])
  /\ \E j \in 1..(i - 1) : Complete(s[j]) /\ Fingerprint(s[j]) = Fingerprint(s[i]) /\ Nth(s, j) >= Nth(s, i)

Deduplicated(s) == FoldLeft(LAMBDA kept, i : IF Dropped(s, i) THEN kept ELSE Append(kept, s[i]), <<>>, [i \in DOMAIN s |-> i])

\* The transcript of a file as messages: without a time it lies in no window that has a start.
CliMessages(f, w) ==
  LET entries == transcripts[f].entries
      Within(e) == /\ \E b \in Bucket : e.tokens[b] > 0
                   /\ w.since # Always => e.created # Always /\ e.created >= w.since
                   /\ w.until # Always /\ e.created # Always => e.created <= w.until
  IN  SelectSeq(entries, Within)

\* Mutant: a file last written as the window opens is pruned.
Pruned_Edge(f, w) == w.since # Always /\ transcripts[f].mtime <= w.since

\* The cheap prune: a file older than the window is not read.
Pruned(f, w) == w.since # Always /\ transcripts[f].mtime < w.since

Children(s) == {c \in DOMAIN sessions : sessions[c].parent = s}
Elder(a, b) == sessions[a].created < sessions[b].created

\* Mutant: the children take the place of what is still to be visited.
Visit_First(todo, tree) ==
  IF todo = <<>> THEN tree
  ELSE LET n == Head(todo)
           young == SetToSortSeq(Children(n.session), Elder)
       IN  Append(tree, n) \o [i \in DOMAIN young |-> [session |-> young[i], depth |-> n.depth + 1]]

\* resolveSessionTree: depth first, the children of a session by their age.
RECURSIVE Visit(_, _)
Visit(todo, tree) ==
  IF todo = <<>> THEN tree
  ELSE LET n == Head(todo)
           young == SetToSortSeq(Children(n.session), Elder)
       IN  IF \E i \in DOMAIN tree : tree[i].session = n.session THEN Visit(Tail(todo), tree)
           ELSE Visit([i \in DOMAIN young |-> [session |-> young[i], depth |-> n.depth + 1]] \o Tail(todo),
                      Append(tree, n))

Tree(root) == Visit(<<[session |-> root, depth |-> 0]>>, <<>>)
Listed(tree) == {tree[i].session : i \in DOMAIN tree}

(***************************************************************************)
(* Counting.                                                               *)
(***************************************************************************)
NoTokens == [b \in Bucket |-> 0]
Plus(a, b) == [k \in Bucket |-> a[k] + b[k]]

EmptyRow == [tokens |-> NoTokens, usd |-> 0, count |-> 0]
Bumped(row, tokens, usd) == [tokens |-> Plus(row.tokens, tokens), usd |-> row.usd + usd, count |-> row.count + 1]
Bump(rows, key, tokens, usd) == (key :> Bumped(At(rows, key, EmptyRow), tokens, usd)) @@ rows

NoRows == <<>>
EmptyReport ==
  [priced |-> EmptyRow, unknown |-> EmptyRow, bySession |-> NoRows, bySource |-> NoRows,
   bySourceModel |-> NoRows, byModel |-> NoRows, unknownRows |-> NoRows]

\* classifyMissingPricing comes to "unknown": a model of the snapshot has a rate.
Priced(key) == key[1] = "cursor" \/ key \in DOMAIN own \/ HasModel(key[1], key[2])

\* Mutant: an unknown price keeps the message out of its session too.
CountOne_Skipped(r, m) ==
  LET price == Resolve(m.source, own)
      usd == Usd(RatesOf(price.key, own), m.tokens)
  IN  IF price.ok /\ Priced(price.key)
      THEN [r EXCEPT !.priced = Bumped(@, m.tokens, usd),
                     !.bySession = Bump(@, m.session, m.tokens, usd),
                     !.bySource = Bump(@, m.source.provider, m.tokens, usd),
                     !.bySourceModel = Bump(@, m.source, m.tokens, usd),
                     !.byModel = Bump(@, price.key, m.tokens, usd)]
      ELSE [r EXCEPT !.unknown = Bumped(@, m.tokens, 0),
                     !.unknownRows = Bump(@, <<m.source, price>>, m.tokens, 0)]

\* The body of aggregateUsage's loop.
CountOne(r, m) ==
  LET price == Resolve(m.source, own)
      usd == Usd(RatesOf(price.key, own), m.tokens)
  IN  IF price.ok /\ Priced(price.key)
      THEN [r EXCEPT !.priced = Bumped(@, m.tokens, usd),
                     !.bySession = Bump(@, m.session, m.tokens, usd),
                     !.bySource = Bump(@, m.source.provider, m.tokens, usd),
                     !.bySourceModel = Bump(@, m.source, m.tokens, usd),
                     !.byModel = Bump(@, price.key, m.tokens, usd)]
      ELSE [r EXCEPT !.unknown = Bumped(@, m.tokens, 0),
                     !.bySession = Bump(@, m.session, m.tokens, 0),
                     !.unknownRows = Bump(@, <<m.source, price>>, m.tokens, 0)]

Aggregate(msgs) == FoldLeft(CountOne, EmptyReport, msgs)

\* getSessionTokenSummary: per model what went in, from the cache and out.
Summary(msgs) ==
  LET Counts(m) == \E b \in Bucket : m.tokens[b] > 0
  IN  FoldLeft(LAMBDA rows, m : Bump(rows, m.source.model, m.tokens, 0), NoRows, SelectSeq(msgs, Counts))

(***************************************************************************)
(* The report.                                                             *)
(***************************************************************************)
NoReport == [phase |-> "none"]

\* aggregateUsage is called, for a tree after resolveSessionTree has read the sessions.
Begin(kind, root, w, strict) ==
  /\ report.phase \in {"none", "done"}
  /\ kind = "tree" => root \in DOMAIN sessions
  /\ report' = [phase |-> "reading", kind |-> kind, root |-> root, window |-> w, strict |-> strict,
                tree |-> IF kind = "tree" THEN Tree(root) ELSE <<>>,
                rows |-> <<>>, read |-> FALSE,
                files |-> IF kind = "all" THEN File ELSE {}, cli |-> <<>>,
                owed |-> IF kind = "all" THEN [f \in File |-> CliMessages(f, w)] ELSE <<>>,
                missed |-> {}, failed |-> FALSE, prices |-> own, result |-> EmptyReport]
  /\ UNCHANGED <<now, edits, faults, sourceVars, priceVars>>

Scope(r) ==
  CASE r.kind = "all" -> DOMAIN sessions
    [] r.kind = "session" -> {r.root}
    [] r.kind = "tree" -> Listed(r.tree)

\* iterAssistantMessages, ...ForSession, ...ForSessions: one query, and copies are
\* collapsed unless a single session is asked for, which must be there.
ReadMessages ==
  /\ report.phase = "reading" /\ ~report.read
  /\ LET rows == Rows(Scope(report), report.window)
     IN  report' = [report EXCEPT !.read = TRUE,
                      !.rows = IF report.kind = "session" THEN rows ELSE Deduplicated(rows),
                      !.failed = @ \/ (report.kind = "session" /\ report.root \notin DOMAIN sessions)]
  /\ UNCHANGED <<now, edits, faults, sourceVars, priceVars>>

\* iterClaudeCodeCliMessages, file by file; one that cannot be read is passed over,
\* or fails the report when reads are strict.
ReadFile(f, ok) ==
  /\ report.phase = "reading" /\ f \in report.files
  /\ ok \/ faults < MaxFaults
  /\ faults' = IF ok THEN faults ELSE faults + 1
  /\ report' = [report EXCEPT !.files = @ \ {f},
                  !.cli = IF ok /\ ~Pruned(f, report.window) THEN @ \o CliMessages(f, report.window) ELSE @,
                  !.missed = IF ok THEN @ ELSE @ \union {f},
                  !.failed = @ \/ (~ok /\ report.strict)]
  /\ UNCHANGED <<now, edits, sourceVars, priceVars>>

\* The sessions have been read for their titles: the rest is one computation.
Finish ==
  /\ report.phase = "reading" /\ report.read /\ report.files = {}
  /\ report' = [report EXCEPT !.phase = "done", !.prices = own,
                  !.result = IF report.failed THEN @ ELSE Aggregate(report.rows \o report.cli)]
  /\ UNCHANGED <<now, edits, faults, sourceVars, priceVars>>

(***************************************************************************)
(* What goes on meanwhile.                                                 *)
(***************************************************************************)
Edit == edits < MaxEdits /\ edits' = edits + 1

NewSession(s, parent) ==
  /\ Edit
  /\ s \notin DOMAIN sessions /\ parent \in DOMAIN sessions \union {NoParent}
  /\ sessions' = sessions @@ (s :> [parent |-> parent, created |-> Cardinality(DOMAIN sessions)])
  /\ UNCHANGED <<now, faults, messages, transcripts, priceVars, report>>

Room(n) == Cardinality(messages) + n <= MaxMessages
Stored(s, source, created, done, tokens, id) ==
  [id |-> id, session |-> s, source |-> source, created |-> created, done |-> done, tokens |-> tokens]

\* An answer begins, and ends.
Ask(s, source) ==
  /\ Edit /\ Room(1) /\ s \in DOMAIN sessions
  /\ messages' = messages \union {Stored(s, source, now, Always, NoTokens, Cardinality(messages) + 1)}
  /\ UNCHANGED <<now, faults, sessions, transcripts, priceVars, report>>

Answer(m, tokens) ==
  /\ Edit /\ m.done = Always
  /\ messages' = (messages \ {m}) \union {[m EXCEPT !.done = now, !.tokens = tokens]}
  /\ UNCHANGED <<now, faults, sessions, transcripts, priceVars, report>>

\* A session is forked: the copy has all of its messages, under new ids.
Fork(s, copy) ==
  /\ Edit /\ s \in DOMAIN sessions /\ copy \notin DOMAIN sessions
  /\ LET mine == SetToSortSeq({m \in messages : m.session = s}, Earlier)
         n == Cardinality(messages)
     IN  /\ Room(Len(mine))
         /\ messages' = messages \union {[mine[i] EXCEPT !.id = n + i, !.session = copy] : i \in DOMAIN mine}
  /\ sessions' = sessions @@ (copy :> [parent |-> NoParent, created |-> Cardinality(DOMAIN sessions)])
  /\ UNCHANGED <<now, faults, transcripts, priceVars, report>>

\* The CLI appends a turn to a transcript, not always with a time.
Append1(f, source, tokens, timed) ==
  /\ Edit /\ Len(transcripts[f].entries) < MaxEntries
  /\ transcripts' = [transcripts EXCEPT ![f] =
        [mtime |-> now,
         entries |-> Append(@.entries, Stored(f, source, IF timed THEN now ELSE Always, Always, tokens, 0))]]
  /\ UNCHANGED <<now, faults, sessions, messages, priceVars, report>>

\* setUserPricingOverride and removeUserPricingOverride: the store in memory, or the
\* one read again when that is too old, is changed in place and then saved, if it can be.
SaveStore(store, ok) ==
  /\ Edit /\ (ok \/ faults < MaxFaults)
  /\ own' = store
  /\ userFile' = IF ok THEN store ELSE userFile
  /\ faults' = IF ok THEN faults ELSE faults + 1
  /\ UNCHANGED <<now, sourceVars, report>>

SetPrice(key, rates, ok) == \E store \in {own, userFile} : SaveStore((key :> rates) @@ store, ok)

RemovePrice(key, ok) ==
  \E store \in {own, userFile} :
    key \in DOMAIN store /\ SaveStore(RestrictDomain(store, LAMBDA k : k # key), ok)

\* removeUserPricingOverridesForProvider
RemovePrices(p, ok) ==
  \E store \in {own, userFile} :
    /\ \E k \in DOMAIN store : k[1] = p
    /\ SaveStore(RestrictDomain(store, LAMBDA k : k[1] # p), ok)

\* loadStore: the file is read again.
LoadPrices ==
  /\ own # userFile
  /\ own' = userFile
  /\ UNCHANGED <<now, edits, faults, sourceVars, userFile, report>>

Tick == now < MaxNow /\ now' = now + 1 /\ UNCHANGED <<edits, faults, sourceVars, priceVars, report>>

UsageInit ==
  /\ now = 0 /\ edits = 0 /\ faults = 0
  /\ \E db \in Database : sessions = db.sessions /\ messages = db.messages
  /\ transcripts = [f \in File |-> [mtime |-> 0, entries |-> <<>>]]
  /\ userFile = <<>> /\ own = <<>>
  /\ report = NoReport

Use ==
  \/ \E s \in Session, parent \in Session \union {NoParent} : NewSession(s, parent)
  \/ \E s \in Session, source \in Source : Ask(s, source)
  \/ \E m \in messages, t \in Tokens : Answer(m, t)
  \/ \E s, copy \in Session : Fork(s, copy)
  \/ \E f \in File, source \in CliSource, t \in Tokens, timed \in BOOLEAN : Append1(f, source, t, timed)

Price ==
  \/ \E key \in OwnKey, rates \in OwnRates, ok \in BOOLEAN : SetPrice(key, rates, ok)
  \/ \E key \in OwnKey, ok \in BOOLEAN : RemovePrice(key, ok)
  \/ \E key \in OwnKey, ok \in BOOLEAN : RemovePrices(key[1], ok)
  \/ LoadPrices

Report ==
  \/ \E w \in Window, strict \in BOOLEAN : Begin("all", NoParent, w, strict)
  \/ \E kind \in {"session", "tree"}, root \in Session, w \in Window : Begin(kind, root, w, FALSE)
  \/ ReadMessages
  \/ \E f \in File, ok \in BOOLEAN : ReadFile(f, ok)
  \/ Finish

UsageNext == Use \/ Price \/ Report \/ Tick
UsageSpec == UsageInit /\ [][UsageNext]_usageVars

(***************************************************************************)
(* What is promised.                                                       *)
(***************************************************************************)
Done == report.phase = "done" /\ ~report.failed

\* Of the answers that are the same, time and usage, a report over several sessions
\* counts as many as the session that has the most of them: what a fork copied is
\* counted once, and what a session repeated as often as it did.
CopiesCollapse ==
  \A f \in {Fingerprint(m) : m \in {n \in messages : Complete(n)}} :
    LET all == Rows(DOMAIN sessions, [since |-> Always, until |-> Always])
        In(s) == Cardinality({m \in messages : m.session = s /\ Fingerprint(m) = f})
        Same(m) == Fingerprint(m) = f
    IN  Len(SelectSeq(Deduplicated(all), Same)) = Max({In(s) : s \in DOMAIN sessions})

\* A report over a window of time has every turn of the transcripts that was written
\* in the window before it began, unless the file could not be read: passing over
\* files that are too old, and turns without a time, loses none.
WindowIsWhole ==
  Done /\ report.kind = "all" =>
    \A f \in File \ report.missed : \A e \in ToSet(report.owed[f]) : e \in ToSet(report.cli)

Total(rows) == FoldSet(LAMBDA k, sum : [tokens |-> Plus(sum.tokens, rows[k].tokens),
                                        usd |-> sum.usd + rows[k].usd, count |-> sum.count + rows[k].count],
                       EmptyRow, DOMAIN rows)
Sum(a, b) == [tokens |-> Plus(a.tokens, b.tokens), usd |-> a.usd + b.usd, count |-> a.count + b.count]

\* The tables of a report agree: what is priced is the same by model, by source and
\* by source model; with what is not priced it is what the sessions used, every
\* message read is in it once, and for one session it is what the session's own
\* summary says.
TablesAgree ==
  Done =>
    LET r == report.result
        whole == Sum(r.priced, r.unknown)
    IN  /\ Total(r.byModel) = r.priced /\ Total(r.bySource) = r.priced /\ Total(r.bySourceModel) = r.priced
        /\ Total(r.unknownRows) = r.unknown
        /\ Total(r.bySession) = whole
        /\ whole.count = Len(report.rows \o report.cli)
        /\ report.kind = "session" => Total(Summary(report.rows)).tokens = whole.tokens

RECURSIVE Descends(_, _)
Descends(s, root) == s = root \/ (sessions[s].parent # NoParent /\ Descends(sessions[s].parent, root))

\* The tree of a session has the session and all that descend from it, each once,
\* below its parent and one level deeper.
TreeIsWhole ==
  \A root \in DOMAIN sessions :
    LET tree == Tree(root)
    IN  /\ Listed(tree) = {s \in DOMAIN sessions : Descends(s, root)}
        /\ IsInjective([i \in DOMAIN tree |-> tree[i].session])
        /\ \A i \in DOMAIN tree \ {1} : \E j \in 1..(i - 1) :
             tree[j].session = sessions[tree[i].session].parent /\ tree[i].depth = tree[j].depth + 1
==================================================================================
