----------------------------- MODULE Summaries ------------------------------
(***************************************************************************)
(* /summarize: the window of recent messages a chat has in memory          *)
(* (domain/summarize/buffer.go), the cache of answers (cache.go), one      *)
(* request at a time in a chat and so many in all (service.go), the        *)
(* command (bot/summarize.go), and the retry of what failed by /flush      *)
(* (bot/deferred.go), which asks for no slot.                              *)
(*                                                                         *)
(* A command and a /flush have a goroutine each.  A step ends at a call of *)
(* Telegram or of the model and where a lock is given back.  A summary is  *)
(* told apart by the messages it was made from.                            *)
(***************************************************************************)
EXTENDS Naturals, Sequences, SequencesExt

CONSTANTS
  Chats, Texts,
  Asks,        \* goroutines of /summarize
  Retries,     \* goroutines of /flush
  Sizes,       \* how many messages one may ask for
  MaxPerChat, MaxChats, GlobalMax

ASSUME SummariesAssumption == /\ Asks \cap Retries = {} /\ Sizes \subseteq Nat \ {0}
                              /\ {MaxPerChat, MaxChats, GlobalMax} \subseteq Nat \ {0}

VARIABLES
  ring,      \* the window of each chat, oldest first
  byRecord,  \* the chats that have one, by their last message
  said,      \* messages sent so far
  cache,     \* answers and what they are filed under
  running,   \* chats whose slot is taken
  gcalls,    \* attempts in the rolling window
  phase,     \* where a goroutine is
  task,      \* what it is to sum up
  entries,   \* its copy of the window
  retry      \* bucket deferred: commands to be tried again

summaryVars == <<ring, byRecord, said, cache, running, gcalls, phase, task, entries, retry>>

Requests == [chat : Chats, n : Sizes, by : Asks]
NoRequest == [n |-> 0]
Windows == UNION {[1..k -> Texts] : k \in 0..MaxPerChat}
Keys == [chat : Chats, last : Texts, n : Sizes]
Phases == {"idle", "cache", "slot", "placeholder", "window", "call", "edit", "done"}

Working == {"placeholder", "window", "call", "edit"}

\* Types, and the slots: a chat is busy just as long as a command works for it.
SummariesTypeOK ==
  /\ ring \in [Chats -> Windows]
  /\ byRecord \in Seq(Chats) /\ Len(byRecord) <= MaxChats
  /\ said \subseteq Texts
  /\ \A e \in cache : e.key \in Keys /\ e.of \in Windows
  /\ running = {task[a].chat : a \in {a \in Asks : phase[a] \in Working}}
  /\ gcalls \in 0..GlobalMax
  /\ phase \in [Asks \cup Retries -> Phases]
  /\ task \in [Asks \cup Retries -> Requests \cup {NoRequest}]
  /\ entries \in [Asks \cup Retries -> Windows]
  /\ retry \in [Asks -> Requests \cup {NoRequest}]

SummariesInit ==
  /\ ring = [c \in Chats |-> <<>>]
  /\ byRecord = <<>> /\ said = {} /\ cache = {} /\ running = {} /\ gcalls = 0
  /\ phase = [p \in Asks \cup Retries |-> "idle"]
  /\ task = [p \in Asks \cup Retries |-> NoRequest]
  /\ entries = [p \in Asks \cup Retries |-> <<>>]
  /\ retry = [a \in Asks |-> NoRequest]

----------------------------------------------------------------------------
\* The last n messages of a chat, or all there are.
Newest(s, n) == SubSeq(s, IF n < Len(s) THEN Len(s) - n + 1 ELSE 1, Len(s))
Window(c, n) == Newest(ring[c], n)

\* A message.  A chat over the limit pushes out the one silent for longest, a
\* message over the limit the oldest one of its chat.
Record(c, m) ==
  LET others == RemoveFirst(byRecord, c)
      full   == ring[c] = <<>> /\ Len(others) >= MaxChats
  IN /\ m \notin said
     /\ said' = said \cup {m}
     /\ byRecord' = Append(IF full THEN Tail(others) ELSE others, c)
     /\ ring' = [d \in Chats |-> IF d = c THEN Newest(Append(ring[c], m), MaxPerChat)
                                 ELSE IF full /\ d = Head(others) THEN <<>> ELSE ring[d]]
     /\ UNCHANGED <<cache, running, gcalls, phase, task, entries, retry>>

\* What an answer is filed under.
Key(r, w) == [chat |-> r.chat, last |-> Last(w), n |-> r.n]

Reaches(p, s) == phase' = [phase EXCEPT ![p] = s]

\* An admin asks.  From anybody else, and in an empty chat, the command ends.
Ask(a) ==
  /\ phase[a] = "idle"
  /\ \E r \in Requests :
       /\ r.by = a
       /\ \/ /\ ring[r.chat] # <<>>
             /\ Reaches(a, "cache") /\ task' = [task EXCEPT ![a] = r]
          \/ Reaches(a, "done") /\ UNCHANGED task
  /\ UNCHANGED <<ring, byRecord, said, cache, running, gcalls, entries, retry>>

\* An answer that is filed and fresh is given again.
TryCache(a) ==
  /\ phase[a] = "cache"
  /\ LET w == Window(task[a].chat, task[a].n)
     IN Reaches(a, IF w # <<>> /\ \E e \in cache : e.key = Key(task[a], w) THEN "done" ELSE "slot")
  /\ UNCHANGED <<ring, byRecord, said, cache, running, gcalls, task, entries, retry>>

\* TryAcquire, then GlobalAllow; who is refused the second gives back the first.
Reserve(a) ==
  /\ phase[a] = "slot"
  /\ IF task[a].chat \notin running /\ gcalls < GlobalMax
     THEN /\ running' = running \cup {task[a].chat}
          /\ gcalls' = gcalls + 1
          /\ Reaches(a, "placeholder")
     ELSE Reaches(a, "done") /\ UNCHANGED <<running, gcalls>>
  /\ UNCHANGED <<ring, byRecord, said, cache, task, entries, retry>>

\* Attempts leave the rolling window.
WindowSlides ==
  /\ gcalls > 0 /\ gcalls' = gcalls - 1
  /\ UNCHANGED <<ring, byRecord, said, cache, running, phase, task, entries, retry>>

\* The goroutine ends; a command gives the slot back.
Release(p) == running' = IF p \in Asks THEN running \ {task[p].chat} ELSE running

\* Mutation: a placeholder that fails leaves the slot taken.
PlaceholderKeepsSlot(a) ==
  /\ phase[a] = "placeholder"
  /\ phase' \in {[phase EXCEPT ![a] = "window"], [phase EXCEPT ![a] = "done"]}
  /\ UNCHANGED <<ring, byRecord, said, cache, running, gcalls, task, entries, retry>>

Placeholder(a) ==
  /\ phase[a] = "placeholder"
  /\ \/ Reaches(a, "window") /\ UNCHANGED running
     \/ Reaches(a, "done") /\ Release(a)
  /\ UNCHANGED <<ring, byRecord, said, cache, gcalls, task, entries, retry>>

\* What failed is put off, unless the database fails too; a retry stays.
PutOff(p) ==
  IF p \in Asks
  THEN /\ Reaches(p, "edit")
       /\ \/ retry' = [retry EXCEPT ![p] = task[p]]
          \/ UNCHANGED retry
  ELSE Reaches(p, "done") /\ UNCHANGED retry

\* Summarize reads the window again: the one the command saw may be gone.
TakeWindow(p) ==
  /\ phase[p] = "window"
  /\ LET w == Window(task[p].chat, task[p].n)
     IN IF w = <<>> THEN PutOff(p) /\ UNCHANGED entries
        ELSE /\ entries' = [entries EXCEPT ![p] = w]
             /\ Reaches(p, "call") /\ UNCHANGED retry
  /\ UNCHANGED <<ring, byRecord, said, cache, running, gcalls, task>>

File(key, w) == cache' = {e \in cache : e.key # key} \cup {[key |-> key, of |-> w]}

\* Mutation: the answer is filed under the window of the moment it came.
CompleteLate(p) ==
  /\ phase[p] = "call"
  /\ LET now == Window(task[p].chat, task[p].n)
     IN \/ now # <<>> /\ File(Key(task[p], now), entries[p]) /\ Reaches(p, "edit") /\ UNCHANGED retry
        \/ PutOff(p) /\ UNCHANGED cache
  /\ entries' = [entries EXCEPT ![p] = <<>>]
  /\ UNCHANGED <<ring, byRecord, said, running, gcalls, task>>

\* The model answers, minutes later.
Complete(p) ==
  /\ phase[p] = "call"
  /\ \/ File(Key(task[p], entries[p]), entries[p]) /\ Reaches(p, "edit") /\ UNCHANGED retry
     \/ PutOff(p) /\ UNCHANGED cache
  /\ entries' = [entries EXCEPT ![p] = <<>>]
  /\ UNCHANGED <<ring, byRecord, said, running, gcalls, task>>

\* The placeholder is replaced.  The slot is free after that only, also when
\* the edit fails or the goroutine panics; a retry that could edit is done with.
Edit(p) ==
  /\ phase[p] = "edit"
  /\ Reaches(p, "done")
  /\ Release(p)
  /\ \/ UNCHANGED retry
     \/ p \in Retries /\ retry' = [retry EXCEPT ![task[p].by] = NoRequest]
  /\ UNCHANGED <<ring, byRecord, said, cache, gcalls, task, entries>>

Panic(a) ==
  /\ phase[a] \in {"window", "call"}
  /\ Reaches(a, "done") /\ Release(a)
  /\ entries' = [entries EXCEPT ![a] = <<>>]
  /\ UNCHANGED <<ring, byRecord, said, cache, gcalls, task, retry>>

\* /flush works a job off: no slot, no share of the global limit.
Retry(f, a) ==
  /\ phase[f] = "idle" /\ retry[a] # NoRequest
  /\ task' = [task EXCEPT ![f] = retry[a]]
  /\ Reaches(f, "window")
  /\ UNCHANGED <<ring, byRecord, said, cache, running, gcalls, entries, retry>>

\* The TTL of the cache.
Expire(e) ==
  /\ cache' = cache \ {e}
  /\ UNCHANGED <<ring, byRecord, said, running, gcalls, phase, task, entries, retry>>

\* Only the jobs outlive the process.
SummariesRestart ==
  /\ ring' = [c \in Chats |-> <<>>] /\ byRecord' = <<>> /\ cache' = {}
  /\ running' = {} /\ gcalls' = 0
  /\ phase' = [p \in Asks \cup Retries |-> IF phase[p] = "idle" THEN "idle" ELSE "done"]
  /\ entries' = [p \in Asks \cup Retries |-> <<>>]
  /\ UNCHANGED <<said, task, retry>>

SummariesNext ==
  \/ \E c \in Chats, m \in Texts : Record(c, m)
  \/ \E a \in Asks : \/ Ask(a) \/ TryCache(a) \/ Reserve(a) \/ Placeholder(a) \/ Panic(a)
                     \/ \E f \in Retries : Retry(f, a)
  \/ \E p \in Asks \cup Retries : TakeWindow(p) \/ Complete(p) \/ Edit(p)
  \/ \E e \in cache : Expire(e)
  \/ WindowSlides \/ SummariesRestart

SummariesSpec == SummariesInit /\ [][SummariesNext]_summaryVars

----------------------------------------------------------------------------
\* CacheFresh.  An answer that would be given again was made from exactly the
\* messages the window holds now, although the window moved on, and its chat was
\* perhaps pushed out and came back, while the model was thinking.
CacheFresh ==
  \A e \in cache :
    LET w == Window(e.key.chat, e.key.n)
    IN w # <<>> /\ Last(w) = e.key.last => e.of = w
=============================================================================
