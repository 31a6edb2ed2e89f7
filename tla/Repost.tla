------------------------------- MODULE Repost -------------------------------
(***************************************************************************)
(* What becomes of a shared link: the four pipelines that replace the      *)
(* message by a post of the bot (TikTok, TikTok comment, Instagram, X) in  *)
(* src/internal/bot, and the queue of deferred jobs that /flush works off  *)
(* and a collector clears.                                                 *)
(*                                                                         *)
(* Every shared link has a goroutine of its own, named by the link, and    *)
(* Flushers are the goroutines of /flush commands.  A step ends at every   *)
(* call of Telegram, of a site or of the database.  One person shares all  *)
(* the links, since /flush looks only at the caller's jobs, and the TikTok *)
(* links show one video.                                                   *)
(***************************************************************************)
EXTENDS Naturals

CONSTANTS
  Links,     \* messages with a link the bot acts on
  Flushers,  \* goroutines of /flush
  NoLink,
  TTL,       \* DeferredTTL
  MaxClock   \* bound on the clock

ASSUME RepostAssumption == /\ Links \cap Flushers = {}
                           /\ NoLink \notin Links
                           /\ TTL \in Nat

VARIABLES
  site,      \* what kind of link it is
  original,  \* Telegram: the message with the link
  shown,     \* Telegram: links the bot has posted
  declined,  \* links for which a note was sent, which may not have arrived
  stage,     \* where a goroutine is
  cur,       \* the link a flusher has in hand
  rest,      \* the jobs it has listed and not come to
  left,      \* fallbacks a quote may still try
  slot,      \* igSlot and xpostSlot: the link whose goroutine holds it
  jobs,      \* bucket deferred: when the link's job was created
  indexed,   \* bucket tiktok_videos: the video's post is recorded
  clock,
  expired,   \* history: links whose job the collector removed
  lost       \* history: links whose goroutine died, or had no directory

workVars == <<stage, cur, rest, left, slot>>
repostVars == <<site, original, shown, declined, workVars, jobs, indexed, clock, expired, lost>>

Sites   == {"tiktok", "instagram", "comment", "xpost"}
Slotted == {"instagram", "xpost"}
Stages  == {"idle", "next", "fetch", "index", "video", "send", "delete", "record", "enqueue",
            "decline", "drop", "done"}
NoJob   == 0
Workers == Links \cup Flushers

RepostTypeOK ==
  /\ site \in [Links -> Sites]
  /\ original \in [Links -> {"unsent", "kept", "gone"}]
  /\ shown \subseteq Links /\ declined \subseteq Links
  /\ stage \in [Workers -> Stages]
  /\ cur \in [Flushers -> Links \cup {NoLink}]
  /\ rest \in [Flushers -> SUBSET Links]
  /\ left \in [Workers -> 0..3]
  /\ slot \in [Slotted -> Links \cup {NoLink}]
  /\ jobs \in [Links -> Nat]
  /\ indexed \in BOOLEAN
  /\ clock \in Nat \ {0}
  /\ expired \subseteq Links /\ lost \subseteq Links

RepostInit ==
  /\ site \in [Links -> Sites]
  /\ original = [l \in Links |-> "unsent"]
  /\ shown = {} /\ declined = {}
  /\ stage = [p \in Workers |-> "idle"]
  /\ cur = [f \in Flushers |-> NoLink]
  /\ rest = [f \in Flushers |-> {}]
  /\ left = [p \in Workers |-> 0]
  /\ slot = [s \in Slotted |-> NoLink]
  /\ jobs = [l \in Links |-> NoJob]
  /\ indexed = FALSE
  /\ clock = 1
  /\ expired = {} /\ lost = {}

\* The link a goroutine works on.
Hand(p) == IF p \in Links THEN p ELSE cur[p]

\* The goroutine goes on; one that ends gives its slot back, a flusher that
\* is through with a job turns to the next.
Goes(p, s) ==
  LET t == IF s = "done" /\ p \in Flushers THEN "next" ELSE s
  IN /\ stage' = [stage EXCEPT ![p] = t]
     /\ slot' = IF t = "done"
                THEN [k \in Slotted |-> IF slot[k] = p THEN NoLink ELSE slot[k]]
                ELSE slot

\* Mutation: a flush is through with a job, however it went.
LaterNever(p) == IF p \in Links THEN "enqueue" ELSE "drop"

\* What failed for now is put into the queue, or stays there.
Later(p) == IF p \in Links THEN "enqueue" ELSE "done"

\* What the bot answered leaves the queue.
Answered(p) == IF p \in Links THEN "done" ELSE "drop"

----------------------------------------------------------------------------
\* The middlewares.  A second Instagram link goes to the queue while the slot
\* is taken, a second X link is declined.
Share(l) ==
  /\ original[l] = "unsent"
  /\ original' = [original EXCEPT ![l] = "kept"]
  /\ LET free == site[l] \in Slotted => slot[site[l]] = NoLink
     IN /\ stage' = [stage EXCEPT ![l] = IF free THEN "fetch"
                                         ELSE IF site[l] = "xpost" THEN "decline" ELSE "enqueue"]
        /\ slot' = IF site[l] \in Slotted /\ free THEN [slot EXCEPT ![site[l]] = l] ELSE slot
  /\ UNCHANGED <<site, shown, declined, cur, rest, left, jobs, indexed, clock, expired, lost>>

\* The download, with its retries.  An Instagram post without a video is final.
\* A comment or a tweet that is not found is declined, the rest comes again.
Fetch(p) ==
  /\ stage[p] = "fetch"
  /\ \/ Goes(p, IF site[Hand(p)] = "comment" THEN "index" ELSE "send")
        /\ left' = [left EXCEPT ![p] = IF site[Hand(p)] = "xpost" THEN 1 ELSE 0]
     \/ site[Hand(p)] \in {"tiktok", "instagram"} /\ Goes(p, Later(p)) /\ UNCHANGED left
     \/ site[Hand(p)] # "tiktok" /\ Goes(p, "decline") /\ UNCHANGED left
  /\ UNCHANGED <<site, original, shown, declined, cur, rest, jobs, indexed, clock, expired, lost>>

\* No temporary directory: the handlers of TikTok and Instagram links just end.
NoDirectory(l) ==
  /\ stage[l] = "fetch" /\ site[l] \in {"tiktok", "instagram"}
  /\ Goes(l, "done")
  /\ lost' = lost \cup {l}
  /\ UNCHANGED <<site, original, shown, declined, cur, rest, left, jobs, indexed, clock, expired>>

\* A quote replies to the bot's post of the video.  A reply may be tried four
\* times, by address, as a file, and both again standing alone.
FindVideo(p) ==
  /\ stage[p] = "index"
  /\ \/ indexed /\ Goes(p, "send") /\ left' = [left EXCEPT ![p] = 3]
     \/ ~indexed /\ Goes(p, "video") /\ UNCHANGED left
     \/ Goes(p, "send") /\ left' = [left EXCEPT ![p] = 1]
  /\ UNCHANGED <<site, original, shown, declined, cur, rest, jobs, indexed, clock, expired, lost>>

\* The video is posted first; if that fails the quote stands alone.
PostTikTokVideo(p) ==
  /\ stage[p] = "video"
  /\ Goes(p, "send")
  /\ \/ left' = [left EXCEPT ![p] = 3] /\ indexed' \in {indexed, TRUE}
     \/ left' = [left EXCEPT ![p] = 1] /\ UNCHANGED indexed
  /\ UNCHANGED <<site, original, shown, declined, cur, rest, jobs, clock, expired, lost>>

\* The fallbacks are forgotten when the sending is over.
NoneLeft(p) == left' = [left EXCEPT ![p] = 0]

\* A post that failed: another form of it may be tried, if there is one.
SendFailed(p) ==
  IF site[Hand(p)] \in {"comment", "xpost"}
  THEN \/ left[p] > 0 /\ left' = [left EXCEPT ![p] = @ - 1] /\ UNCHANGED <<stage, slot>>
       \/ Goes(p, "decline") /\ NoneLeft(p)
  ELSE UNCHANGED left

\* repostVideoTail, repostTikTokPhotos and the senders of quotes and tweets,
\* up to the answer of Telegram.
Posted(p) ==
  /\ stage[p] = "send"
  /\ shown' = shown \cup {Hand(p)}
  /\ Goes(p, "delete") /\ NoneLeft(p)
  /\ UNCHANGED <<site, original, declined, cur, rest, jobs, indexed, clock, expired, lost>>

\* Mutation: an upload Telegram refused goes the way of one that succeeded.
RefusedUnseen(p) ==
  /\ stage[p] = "send"
  /\ Goes(p, "delete") /\ NoneLeft(p)
  /\ UNCHANGED <<site, original, shown, declined, cur, rest, jobs, indexed, clock, expired, lost>>

\* Telegram refuses it: no retry can help.
Refused(p) ==
  /\ stage[p] = "send"
  /\ SendFailed(p)
  /\ site[Hand(p)] \in {"tiktok", "instagram"} => Goes(p, "decline")
  /\ UNCHANGED <<site, original, shown, declined, cur, rest, jobs, indexed, clock, expired, lost>>

\* A transport fault, 429 or 5xx.  The post may be there all the same.
SendFaults(p) ==
  /\ stage[p] = "send"
  /\ SendFailed(p)
  /\ site[Hand(p)] \in {"tiktok", "instagram"} => Goes(p, Later(p))
  /\ shown' \in {shown, shown \cup {Hand(p)}}
  /\ UNCHANGED <<site, original, declined, cur, rest, jobs, indexed, clock, expired, lost>>

\* The file cannot be read or is too large: declined at once, but a flush
\* keeps the job of a video.
Unsendable(p) ==
  /\ stage[p] = "send" /\ site[Hand(p)] \in {"tiktok", "instagram"}
  /\ \/ Goes(p, IF p \in Links THEN "decline" ELSE "done")
     \/ site[Hand(p)] = "tiktok" /\ Goes(p, "decline")
  /\ UNCHANGED <<site, original, shown, declined, cur, rest, left, jobs, indexed, clock, expired,
                 lost>>

\* Repost first, delete after: the error of the delete is only logged.
DeleteOriginal(p) ==
  /\ stage[p] = "delete"
  /\ original' \in {original, [original EXCEPT ![Hand(p)] = "gone"]}
  /\ Goes(p, IF site[Hand(p)] = "tiktok" THEN "record" ELSE Answered(p))
  /\ UNCHANGED <<site, shown, declined, cur, rest, left, jobs, indexed, clock, expired, lost>>

RecordVideo(p) ==
  /\ stage[p] = "record"
  /\ indexed' \in {indexed, TRUE}
  /\ Goes(p, Answered(p))
  /\ UNCHANGED <<site, original, shown, declined, cur, rest, left, jobs, clock, expired, lost>>

\* The note may fail to arrive; nobody tries again.
Decline(p) ==
  /\ stage[p] = "decline"
  /\ declined' = declined \cup {Hand(p)}
  /\ Goes(p, Answered(p))
  /\ UNCHANGED <<site, original, shown, cur, rest, left, jobs, indexed, clock, expired, lost>>

----------------------------------------------------------------------------
(* The queue.                                                              *)

EnqueueRepostOrFail(l) ==
  /\ stage[l] = "enqueue"
  /\ \/ jobs' = [jobs EXCEPT ![l] = clock] /\ Goes(l, "done")
     \/ UNCHANGED jobs /\ Goes(l, "decline")
  /\ UNCHANGED <<site, original, shown, declined, cur, rest, left, indexed, clock, expired, lost>>

\* /flush lists the caller's jobs, and a goroutine works them off.
HandleFlush(f) ==
  /\ stage[f] = "idle"
  /\ \E l \in Links : jobs[l] # NoJob
  /\ rest' = [rest EXCEPT ![f] = {l \in Links : jobs[l] # NoJob}]
  /\ stage' = [stage EXCEPT ![f] = "next"]
  /\ UNCHANGED <<site, original, shown, declined, cur, left, slot, jobs, indexed, clock, expired,
                 lost>>

\* The next job of the list, whether it is in the queue still or not.
NextJob(f) ==
  /\ stage[f] = "next"
  /\ \/ \E l \in rest[f] : /\ cur' = [cur EXCEPT ![f] = l]
                           /\ rest' = [rest EXCEPT ![f] = @ \ {l}]
                           /\ stage' = [stage EXCEPT ![f] = "fetch"]
     \/ rest[f] = {} /\ cur' = [cur EXCEPT ![f] = NoLink]
        /\ stage' = [stage EXCEPT ![f] = "idle"] /\ UNCHANGED rest
  /\ UNCHANGED <<site, original, shown, declined, left, slot, jobs, indexed, clock, expired, lost>>

\* The job is done; the error of its deletion is dropped.
DropJob(f) ==
  /\ stage[f] = "drop"
  /\ jobs' \in {jobs, [jobs EXCEPT ![Hand(f)] = NoJob]}
  /\ Goes(f, "done")
  /\ UNCHANGED <<site, original, shown, declined, cur, rest, left, indexed, clock, expired, lost>>

\* The collector removes what is older than TTL, in anybody's hand or not.
GarbageCollect ==
  LET old == {l \in Links : jobs[l] # NoJob /\ jobs[l] + TTL < clock}
  IN /\ old # {}
     /\ jobs' = [l \in Links |-> IF l \in old THEN NoJob ELSE jobs[l]]
     /\ expired' = expired \cup old
     /\ UNCHANGED <<site, original, shown, declined, workVars, indexed, clock, lost>>

RepostTick ==
  /\ clock < MaxClock
  /\ clock' = clock + 1
  /\ UNCHANGED <<site, original, shown, declined, workVars, jobs, indexed, expired, lost>>

\* The process ends: nobody waits for these goroutines.
RepostRestart ==
  /\ lost' = lost \cup {l \in Links : stage[l] \notin {"idle", "done"}}
  /\ stage' = [p \in Workers |-> IF p \in Flushers \/ stage[p] = "idle" THEN "idle" ELSE "done"]
  /\ cur' = [f \in Flushers |-> NoLink]
  /\ rest' = [f \in Flushers |-> {}]
  /\ left' = [p \in Workers |-> 0]
  /\ slot' = [s \in Slotted |-> NoLink]
  /\ UNCHANGED <<site, original, shown, declined, jobs, indexed, clock, expired>>

RepostNext ==
  \/ \E l \in Links : Share(l) \/ NoDirectory(l) \/ EnqueueRepostOrFail(l)
  \/ \E p \in Workers : \/ Fetch(p) \/ FindVideo(p) \/ PostTikTokVideo(p)
                        \/ Posted(p) \/ Refused(p) \/ SendFaults(p) \/ Unsendable(p)
                        \/ DeleteOriginal(p) \/ RecordVideo(p) \/ Decline(p)
  \/ \E f \in Flushers : HandleFlush(f) \/ NextJob(f) \/ DropJob(f)
  \/ GarbageCollect \/ RepostTick \/ RepostRestart

RepostSpec == RepostInit /\ [][RepostNext]_repostVars

----------------------------------------------------------------------------
(* Properties.                                                             *)

\* Nothing a member posted is deleted for which the chat has no post of the
\* bot, whatever fails, is flushed twice, expires or dies in between.
OriginalKept == \A l \in Links : original[l] = "gone" => l \in shown

\* A link whose goroutine has ended is posted, declined or in the queue, and
\* it leaves the queue only when it was answered or too old, however many
\* flushes and the collector work on it at once.  A note that does not arrive
\* counts as one, as the code does not look.  What is left out: a process that
\* died with the link in hand, and a directory that could not be made.
NobodyLeftInSilence ==
  \A l \in Links : stage[l] = "done" =>
    l \in shown \cup declined \cup expired \cup lost \/ jobs[l] # NoJob
=============================================================================
