----------------------------- MODULE Birthdays ------------------------------
(***************************************************************************)
(* Birthday greetings of one chat: the daily run and the catch-up after a  *)
(* start (domain/birthday/service.go), and the markers that keep a run     *)
(* from greeting again (storage/birthday_repo.go).                         *)
(*                                                                         *)
(* The days are those around the end of February of some years.  One       *)
(* goroutine runs everything; a step ends at every transaction and at the  *)
(* message.  Who is listed, still a member and lets the bot see the date   *)
(* of birth is any part of those born on the day.                          *)
(***************************************************************************)
EXTENDS Naturals, Sequences, FiniteSets

CONSTANTS
  People,
  Born,        \* the date of birth of each
  Calendar,    \* the days, in order: year, whether it is a leap year, date
  ChunkSize    \* maxNamesPerMsg

Dates == {"Feb 27", "Feb 28", "Feb 29", "Mar 1"}

ASSUME BirthdaysAssumption == /\ Born \in [People -> Dates] /\ ChunkSize \in Nat \ {0}
                              /\ Len(Calendar) > 0

\* A date comes once a year, the 29th in leap years only.
ASSUME CalendarAssumption ==
  /\ Calendar \in Seq([year : Nat, leap : BOOLEAN, date : Dates])
  /\ \A d \in DOMAIN Calendar : Calendar[d].date = "Feb 29" => Calendar[d].leap
  /\ \A d, e \in DOMAIN Calendar :
       Calendar[d].year = Calendar[e].year =>
         /\ Calendar[d].leap = Calendar[e].leap
         /\ Calendar[d].date = Calendar[e].date => d = e

VARIABLES
  day,       \* today, an index of Calendar
  hour,      \* before 10:00, until 20:00, or later
  process,   \* the bot runs
  runs,      \* where the goroutine is
  greet,     \* candidates it has not come to
  chunk,     \* those of one message
  done,      \* those of them marked, or still to be cleared
  markers,   \* bucket birthday_greeted: person and day
  greeted,   \* Telegram: how often somebody was greeted this year
  misheard,  \* history: a greeting was posted and reported as failed
  cut        \* history: marked, and the run died or could not clear it

birthdayVars == <<day, hour, process, runs, greet, chunk, done, markers, greeted, misheard, cut>>

Hours == {"morning", "open", "evening"}
Enough == 3  \* bound of the count

BirthdaysTypeOK ==
  /\ day \in DOMAIN Calendar
  /\ hour \in Hours
  /\ process \in BOOLEAN
  /\ runs \in {"asleep", "list", "mark", "send", "clear"}
  /\ greet \subseteq People /\ chunk \subseteq People /\ done \subseteq chunk
  /\ markers \subseteq People \X DOMAIN Calendar
  /\ greeted \in [People -> 0..Enough]
  /\ misheard \subseteq People /\ cut \subseteq People

BirthdaysInit ==
  /\ day = 1 /\ hour = "morning" /\ process = FALSE /\ runs = "asleep"
  /\ greet = {} /\ chunk = {} /\ done = {} /\ markers = {}
  /\ greeted = [p \in People |-> 0]
  /\ misheard = {} /\ cut = {}

----------------------------------------------------------------------------
\* Who is born on the 29th of February is greeted on the 28th in other years.
matches(p) ==
  \/ Born[p] = Calendar[day].date
  \/ Calendar[day].date = "Feb 28" /\ ~Calendar[day].leap /\ Born[p] = "Feb 29"

Marked(p) == <<p, day>> \in markers

\* The catch-up: a start within the hours runs at once.
Start ==
  /\ ~process /\ process' = TRUE
  /\ runs' = IF hour = "open" THEN "list" ELSE "asleep"
  /\ UNCHANGED <<day, hour, greet, chunk, done, markers, greeted, misheard, cut>>

\* 10:00.  Runs are taken to end on their day (NextDay).
Daily ==
  /\ hour = "morning" /\ hour' = "open"
  /\ runs = "asleep"
  /\ runs' = IF process THEN "list" ELSE "asleep"
  /\ UNCHANGED <<day, process, greet, chunk, done, markers, greeted, misheard, cut>>

Evening ==
  /\ hour = "open" /\ hour' = "evening"
  /\ UNCHANGED <<day, process, runs, greet, chunk, done, markers, greeted, misheard, cut>>

NextDay ==
  /\ hour = "evening" /\ runs = "asleep" /\ day < Len(Calendar)
  /\ day' = day + 1 /\ hour' = "morning"
  /\ IF Calendar[day + 1].year = Calendar[day].year
     THEN UNCHANGED <<greeted, misheard, cut>>
     ELSE greeted' = [p \in People |-> 0] /\ misheard' = {} /\ cut' = {}
  /\ UNCHANGED <<process, runs, greet, chunk, done, markers>>

\* runChat collects the candidates, after the markers of past days were pruned:
\* all older than two days, of those two days old any.
List ==
  /\ runs = "list"
  /\ \E few \in SUBSET {p \in People : matches(p) /\ ~Marked(p)} :
       /\ greet' = few
       /\ runs' = IF few = {} THEN "asleep" ELSE "mark"
  /\ markers' \in {{m \in markers : m[2] + 2 >= day}, {m \in markers : m[2] + 1 >= day}}
  /\ UNCHANGED <<day, hour, process, chunk, done, greeted, misheard, cut>>

\* The next message takes the first candidates, at most ChunkSize of them.
TakeChunk ==
  /\ runs = "mark" /\ chunk = {}
  /\ \E few \in SUBSET greet :
       /\ Cardinality(few) = IF Cardinality(greet) < ChunkSize THEN Cardinality(greet) ELSE ChunkSize
       /\ chunk' = few /\ greet' = greet \ few
  /\ UNCHANGED <<day, hour, process, runs, done, markers, greeted, misheard, cut>>

\* The chunk is through.
ChunkDone == /\ chunk' = {} /\ done' = {}
             /\ runs' = IF greet = {} THEN "asleep" ELSE "mark"

\* Telegram shows a message to these.
Count(ps) == [p \in People |-> IF p \in ps /\ greeted[p] < Enough THEN greeted[p] + 1 ELSE greeted[p]]

\* Mutation: the message first, the markers when it is out.
SendUnmarked ==
  /\ runs = "mark" /\ chunk # {}
  /\ IF done = {} THEN greeted' = Count(chunk) ELSE UNCHANGED greeted
  /\ \E p \in chunk \ done :
       /\ markers' = markers \cup {<<p, day>>}
       /\ IF done \cup {p} = chunk THEN ChunkDone ELSE done' = done \cup {p} /\ UNCHANGED <<chunk, runs>>
  /\ UNCHANGED <<day, hour, process, greet, misheard, cut>>

\* All of a chunk are marked before the message goes; if one cannot be, those
\* marked already are cleared.
MarkGreeted ==
  /\ runs = "mark" /\ chunk # {}
  /\ \/ \E p \in chunk \ done :
          /\ markers' = markers \cup {<<p, day>>}
          /\ done' = done \cup {p}
          /\ runs' = IF done' = chunk THEN "send" ELSE "mark"
          /\ UNCHANGED chunk
     \/ /\ IF done = {} THEN ChunkDone ELSE runs' = "clear" /\ UNCHANGED <<chunk, done>>
        /\ UNCHANGED markers
  /\ UNCHANGED <<day, hour, process, greet, greeted, misheard, cut>>

\* A message that failed may have reached the chat.
Send ==
  /\ runs = "send"
  /\ \/ greeted' = Count(chunk) /\ ChunkDone /\ UNCHANGED misheard
     \/ /\ runs' = "clear" /\ UNCHANGED <<chunk, done>>
        /\ \/ greeted' = Count(chunk) /\ misheard' = misheard \cup chunk
           \/ UNCHANGED <<greeted, misheard>>
  /\ UNCHANGED <<day, hour, process, greet, markers, cut>>

\* One marker after the other is cleared; one that cannot be stays.
ClearGreeted ==
  /\ runs = "clear"
  /\ \E p \in done :
       /\ \/ markers' = markers \ {<<p, day>>} /\ UNCHANGED cut
          \/ cut' = cut \cup {p} /\ UNCHANGED markers
       /\ IF done = {p} THEN ChunkDone ELSE done' = done \ {p} /\ UNCHANGED <<chunk, runs>>
  /\ UNCHANGED <<day, hour, process, greet, greeted, misheard>>

\* A stop or a crash, anywhere in a run.
Stop ==
  /\ process /\ process' = FALSE
  /\ runs' = "asleep" /\ greet' = {} /\ chunk' = {} /\ done' = {}
  /\ cut' = cut \cup {p \in done : Marked(p)}
  /\ UNCHANGED <<day, hour, markers, greeted, misheard>>

BirthdaysNext == Start \/ Daily \/ Evening \/ NextDay \/ List \/ TakeChunk \/ MarkGreeted \/ Send
                 \/ ClearGreeted \/ Stop

BirthdaysSpec == BirthdaysInit /\ [][BirthdaysNext]_birthdayVars

----------------------------------------------------------------------------
\* GreetedOnce.  Nobody is greeted twice in a year, whatever the bot is
\* restarted in the midst of, unless a message was posted that Telegram reported
\* as failed; and who is marked for today was greeted, unless a run died or a
\* marker could not be cleared.
GreetedOnce ==
  \A p \in People :
    /\ greeted[p] > 1 => p \in misheard
    /\ Marked(p) /\ p \notin chunk /\ greeted[p] = 0 => p \in cut
=============================================================================
