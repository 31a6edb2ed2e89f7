----------------------------- MODULE MonthStats -----------------------------
(***************************************************************************)
(* The monthly statistics of one chat: the buffer of live messages, its    *)
(* flushes and the reads merged with it (domain/monthstats/buffer.go), the *)
(* rows in the database (storage/monthstats_repo.go), and the report with  *)
(* the summaries kept of past months (domain/monthstats/service.go).       *)
(*                                                                         *)
(* A message adds to the row of its author and to a row of the month       *)
(* itself.  Of the counters of a row, which are added alike, the number of *)
(* messages stands for all; the earliest message and the longest one are   *)
(* reductions of their own.  A step ends where the mutex is given back and *)
(* at every transaction.                                                   *)
(***************************************************************************)
EXTENDS Naturals, FiniteSets, FiniteSetsExt, Functions

CONSTANTS
  Samples,         \* messages that count
  Sent,            \* by whom, in which month, when, how long: a record of each
  Writers, Meta,   \* their authors, and MetaUserID
  MonthFlushers,   \* the ticker's goroutine, and Stop
  Calendars        \* the months, numbered

\* Later than any message.
Never == 1 + Max({0} \cup {Sent[s].ts : s \in Samples})

ASSUME MonthAssumption ==
  /\ Meta \notin Writers /\ Calendars \subseteq Nat /\ Calendars # {}
  /\ IsFiniteSet(Samples) /\ IsFiniteSet(Writers) /\ IsFiniteSet(MonthFlushers) /\ IsFiniteSet(Calendars)
  /\ Sent \in [Samples -> [by : Writers, month : Calendars, ts : Nat, runes : Nat \ {0}]]

VARIABLES
  buffered,    \* rows in memory
  batch,       \* rows a flush has taken
  starts,      \* and the boundary it saw
  flusher,     \* where it is
  liveStart,   \* the earliest message this process has seen
  eager,       \* the goroutine of the first message: not started, its boundary, or done
  statRows,    \* bucket stats_month
  state,       \* bucket stats_month_state: LiveTrackStart, and its changes so far
  summary,     \* bucket stats_month_summary
  current,     \* the month it is
  reader,      \* a report in the making
  added,       \* history: messages the buffer was given
  died,        \* history: rows that went with a process
  missed       \* history: a boundary was not written

monthVars == <<buffered, batch, starts, flusher, liveStart, eager, statRows, state, summary,
               current, reader, added, died, missed>>

RowKeys == Calendars \X (Writers \cup {Meta})
Row == [msg : 0..Cardinality(Samples), first : 0..Never, longest : Nat, by : Writers \cup {Meta}]
NoRow == [msg |-> 0, first |-> Never, longest |-> 0, by |-> Meta]
NoRows == [k \in RowKeys |-> NoRow]
NoReport == [at |-> "idle"]
NoSummary == [built |-> 0]

MonthTypeOK ==
  /\ buffered \in [RowKeys -> Row] /\ statRows \in [RowKeys -> Row] /\ died \in [RowKeys -> Row]
  /\ batch \in [MonthFlushers -> [RowKeys -> Row]]
  /\ starts \in [MonthFlushers -> 0..Never]
  /\ flusher \in [MonthFlushers -> {"idle", "store", "bound"}]
  /\ liveStart \in 0..Never
  /\ eager \in [at : {"none", "due", "done"}, ts : 0..Never]
  /\ state \in [start : 0..Never, changes : Nat]
  /\ \A m \in Calendars : summary[m] = NoSummary \/ summary[m].of \in [RowKeys -> Row]
  /\ current \in Calendars
  /\ reader = NoReport \/ (reader.at \in {"state", "merge", "render"} /\ reader.month \in Calendars)
  /\ added \subseteq Samples /\ missed \in BOOLEAN

MonthInit ==
  /\ buffered = NoRows /\ statRows = NoRows /\ died = NoRows
  /\ batch = [f \in MonthFlushers |-> NoRows]
  /\ starts = [f \in MonthFlushers |-> Never]
  /\ flusher = [f \in MonthFlushers |-> "idle"]
  /\ liveStart = Never /\ eager = [at |-> "none", ts |-> Never]
  /\ state = [start |-> Never, changes |-> 0]
  /\ summary = [m \in Calendars |-> NoSummary]
  /\ current = Min(Calendars)
  /\ reader = NoReport
  /\ added = {} /\ missed = FALSE

----------------------------------------------------------------------------
Earlier(a, b) == IF b < a THEN b ELSE a

\* Counters are added, the earlier first message and the longer one are kept;
\* of two equally long ones, the one that was there.
MergeRow(a, b) == [msg     |-> a.msg + b.msg,
                   first   |-> Earlier(a.first, b.first),
                   longest |-> IF b.longest > a.longest THEN b.longest ELSE a.longest,
                   by      |-> IF b.longest > a.longest THEN b.by ELSE a.by]
Merge(r, d) == [k \in RowKeys |-> MergeRow(r[k], d[k])]

\* What a message adds.
Delta(s) ==
  LET m == Sent[s]
  IN [k \in RowKeys |->
       IF k = <<m.month, m.by>> THEN [NoRow EXCEPT !.msg = 1, !.first = m.ts]
       ELSE IF k = <<m.month, Meta>>
       THEN [NoRow EXCEPT !.msg = 1, !.longest = m.runes, !.by = m.by] ELSE NoRow]

\* A message is counted; the first of a process starts a goroutine that writes
\* the boundary.
AddSample(s) ==
  /\ s \notin added /\ Sent[s].month <= current
  /\ added' = added \cup {s}
  /\ buffered' = Merge(buffered, Delta(s))
  /\ liveStart' = Earlier(liveStart, Sent[s].ts)
  /\ eager' = IF eager.at = "none" THEN [at |-> "due", ts |-> Sent[s].ts] ELSE eager
  /\ UNCHANGED <<batch, starts, flusher, statRows, state, summary, current, reader, died, missed>>

\* SetLiveTrackStart moves the boundary to an earlier time only, and notes the
\* change; or fails.
SetLiveTrackStart(ts) ==
  \/ /\ state' = IF ts < state.start THEN [start |-> ts, changes |-> state.changes + 1] ELSE state
     /\ UNCHANGED missed
  \/ missed' = TRUE /\ UNCHANGED state

EagerStart ==
  /\ eager.at = "due"
  /\ eager' = [at |-> "done", ts |-> Never]
  /\ SetLiveTrackStart(eager.ts)
  /\ UNCHANGED <<buffered, batch, starts, flusher, liveStart, statRows, summary, current, reader,
                 added, died>>

\* flush takes all the rows and the boundary seen so far; with no rows it ends.
TakePending(f) ==
  /\ flusher[f] = "idle" /\ buffered # NoRows
  /\ flusher' = [flusher EXCEPT ![f] = "store"]
  /\ batch' = [batch EXCEPT ![f] = buffered]
  /\ starts' = [starts EXCEPT ![f] = liveStart]
  /\ buffered' = NoRows
  /\ UNCHANGED <<liveStart, eager, statRows, state, summary, current, reader, added, died, missed>>

\* One transaction for all of them.  When it fails they go back.
StoreBatch(f) ==
  /\ flusher[f] = "store"
  /\ batch' = [batch EXCEPT ![f] = NoRows]
  /\ \/ /\ statRows' = Merge(statRows, batch[f])
        /\ flusher' = [flusher EXCEPT ![f] = "bound"]
        /\ UNCHANGED <<buffered, starts>>
     \/ /\ buffered' = Merge(buffered, batch[f])
        /\ flusher' = [flusher EXCEPT ![f] = "idle"]
        /\ starts' = [starts EXCEPT ![f] = Never]
        /\ UNCHANGED statRows
  /\ UNCHANGED <<liveStart, eager, state, summary, current, reader, added, died, missed>>

\* Mutation: only a boundary that was never written is.
BoundOnce(f) ==
  /\ flusher[f] = "bound"
  /\ IF state.start = Never THEN SetLiveTrackStart(starts[f]) ELSE UNCHANGED <<state, missed>>
  /\ flusher' = [flusher EXCEPT ![f] = "idle"]
  /\ starts' = [starts EXCEPT ![f] = Never]
  /\ UNCHANGED <<buffered, batch, liveStart, eager, statRows, summary, current, reader, added, died>>

\* The boundary after the rows.
PersistStart(f) ==
  /\ flusher[f] = "bound"
  /\ SetLiveTrackStart(starts[f])
  /\ flusher' = [flusher EXCEPT ![f] = "idle"]
  /\ starts' = [starts EXCEPT ![f] = Never]
  /\ UNCHANGED <<buffered, batch, liveStart, eager, statRows, summary, current, reader, added, died>>

\* What is in memory, whoever holds it.
InMemory ==
  [k \in RowKeys |->
     [msg     |-> buffered[k].msg + SumFunction([f \in MonthFlushers |-> batch[f][k].msg]),
      first   |-> Min({buffered[k].first} \cup {batch[f][k].first : f \in MonthFlushers}),
      longest |-> Max({buffered[k].longest} \cup {batch[f][k].longest : f \in MonthFlushers}),
      by      |-> Meta]]

----------------------------------------------------------------------------
OfMonth(m, r) == [k \in RowKeys |-> IF k[1] = m THEN r[k] ELSE NoRow]
Reads(m, past) == reader' = [at |-> "merge", month |-> m, past |-> past, of |-> OfMonth(m, statRows)]
dataVars == <<buffered, batch, starts, flusher, liveStart, eager, statRows, state, added, died, missed>>

\* The report of a past month starts with the state, of another with the rows.
MonthReport(m) ==
  /\ reader = NoReport
  /\ IF m < current
     THEN reader' = [at |-> "state", month |-> m, changes |-> state.changes]
     ELSE Reads(m, FALSE)
  /\ UNCHANGED <<dataVars, summary, current>>

\* A summary built after the last change of the state is given again; without
\* one the rows are read.
GetSummary ==
  /\ reader.at = "state"
  /\ LET kept == summary[reader.month]
     IN IF kept # NoSummary /\ kept.built >= reader.changes
        THEN reader' = NoReport ELSE Reads(reader.month, TRUE)
  /\ UNCHANGED <<dataVars, summary, current>>

\* The buffer of now is laid over the rows that were read.
GetMergedMonth ==
  /\ reader.at = "merge"
  /\ reader' = [reader EXCEPT !.at = "render", !.of = Merge(@, OfMonth(reader.month, buffered))]
  /\ UNCHANGED <<dataVars, summary, current>>

\* The report is given; that of a past month is kept as well, if that works.
PutSummary ==
  /\ reader.at = "render"
  /\ reader' = NoReport
  /\ \/ /\ reader.past
        /\ summary' = [summary EXCEPT ![reader.month] =
                         [built |-> state.changes, of |-> reader.of]]
     \/ UNCHANGED summary
  /\ UNCHANGED <<dataVars, current>>

MonthEnds ==
  /\ current + 1 \in Calendars /\ current' = current + 1
  /\ UNCHANGED <<dataVars, summary, reader>>

\* What is in memory dies with the process, and so does a boundary that was to
\* be written.
MonthRestart ==
  /\ died' = Merge(died, InMemory)
  /\ missed' = (missed \/ eager.at = "due" \/ \E f \in MonthFlushers : flusher[f] = "bound")
  /\ buffered' = NoRows
  /\ batch' = [f \in MonthFlushers |-> NoRows]
  /\ starts' = [f \in MonthFlushers |-> Never]
  /\ flusher' = [f \in MonthFlushers |-> "idle"]
  /\ liveStart' = Never /\ eager' = [at |-> "none", ts |-> Never] /\ reader' = NoReport
  /\ UNCHANGED <<statRows, state, summary, current, added>>

MonthNext ==
  \/ \E s \in Samples : AddSample(s)
  \/ \E f \in MonthFlushers : TakePending(f) \/ StoreBatch(f) \/ PersistStart(f)
  \/ \E m \in Calendars : MonthReport(m)
  \/ EagerStart \/ GetSummary \/ GetMergedMonth \/ PutSummary \/ MonthEnds \/ MonthRestart

MonthSpec == MonthInit /\ [][MonthNext]_monthVars

----------------------------------------------------------------------------
\* The messages of a set that belong to a row, and the rows of the set, counted
\* at once.
OfRow(set, k) == {s \in set : Sent[s].month = k[1] /\ k[2] \in {Sent[s].by, Meta}}

Counted(set) ==
  [k \in RowKeys |->
     [msg     |-> Cardinality(OfRow(set, k)),
      first   |-> IF k[2] = Meta THEN Never ELSE Min({Never} \cup {Sent[s].ts : s \in OfRow(set, k)}),
      longest |-> IF k[2] = Meta THEN Max({0} \cup {Sent[s].runes : s \in OfRow(set, k)}) ELSE 0]]

Unattributed(r) == [k \in RowKeys |-> [msg |-> r[k].msg, first |-> r[k].first, longest |-> r[k].longest]]

\* Everything there is of a month, wherever it is.
Everything == Merge(Merge(statRows, died), InMemory)

\* The total of a month is its authors', and its longest message one of them.
AddsUp(r, m) ==
  /\ r[<<m, Meta>>].msg = SumFunction([w \in Writers |-> r[<<m, w>>].msg])
  /\ r[<<m, Meta>>].longest > 0 =>
       \E s \in added : /\ Sent[s].month = m /\ Sent[s].by = r[<<m, Meta>>].by
                        /\ Sent[s].runes = r[<<m, Meta>>].longest

\* Rows in the database, in memory, in a flush's hands and lost with a process
\* make up exactly the messages counted, whatever failed and was put back.  The
\* total of a month is the sum of its authors', in the database, in the
\* report being made and in the one that is kept, and neither of these counts a
\* message twice, although a flush may pass between their two reads.  The
\* boundary is no later than any message that is stored, once its flush is
\* through, unless writing it failed.
MonthsAddUp ==
  /\ Unattributed(Everything) = Counted(added)
  /\ \A m \in Calendars :
       /\ AddsUp(statRows, m)
       /\ summary[m] # NoSummary => AddsUp(summary[m].of, m)
  /\ reader.at = "render" => AddsUp(reader.of, reader.month)
  /\ reader.at = "render" => \A k \in RowKeys : reader.of[k].msg <= Counted(added)[k].msg
  /\ ~missed /\ (\A f \in MonthFlushers : flusher[f] # "bound") =>
       \A k \in RowKeys : state.start <= statRows[k].first
=============================================================================
