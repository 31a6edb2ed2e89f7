------------------------------ MODULE Captcha ------------------------------
(***************************************************************************)
(* The new-member captcha, src/internal/domain/captcha/service.go over     *)
(* src/internal/storage/captcha_repo.go, for one person and one chat: the  *)
(* join handlers, the button taps and the sweeper run concurrently, each   *)
(* Bot API call and each bbolt transaction is a step of its own, and the   *)
(* person comes and goes meanwhile.  Other members matter only through the *)
(* time a sweep spends on them.                                            *)
(*                                                                         *)
(* Telegram keeps the restriction of a member who leaves: such a person is *)
(* "mutedOut", and comes back restricted, which the bot does not take for  *)
(* a new join.  Time is not counted: a challenge that is stored expires,   *)
(* and a mute ends, at any moment.  The edits of the announcement and the  *)
(* welcome are left out; a tap on a message whose challenge is gone does   *)
(* nothing.                                                                *)
(***************************************************************************)
CONSTANTS
  Challenges,   \* pool of challenges; one nobody refers to is used again
  NoChallenge,
  Joins,        \* goroutines that handle a chat_member update
  Taps,         \* goroutines that handle a callback query
  Sweeper       \* the goroutine of runCaptchaSweep

ASSUME NoChallengeAssumption == NoChallenge \notin Challenges
ASSUME ActorsAssumption == /\ Joins \cap Taps = {}
                           /\ Sweeper \notin Joins \cup Taps

VARIABLES
  member,    \* Telegram: the person's status in the chat
  verified,  \* history: a right answer since the person joined
  stored,    \* bucket captcha
  index,     \* bucket captcha_user_idx, the entry of the person
  expired,   \* stored challenges whose ExpiresAt has passed
  todo,      \* what is left of the list of ListExpired
  at,        \* where a goroutine is
  on,        \* the challenge it works on
  found,     \* goroutines whose Delete saw the challenge in its first half
  solving,   \* taps with the right answer
  failed     \* history: what a failure has interrupted so far

storeVars    == <<stored, index, expired>>
historyVars  == <<verified, failed>>
workVars     == <<at, on, found, solving>>
vars == <<member, storeVars, todo, workVars, historyVars>>

Actors == Joins \cup Taps \cup {Sweeper}
Places == {"idle", "lookup", "find", "erase", "mute", "send", "create",
           "get", "check", "ban", "unban", "unmute"}

TypeOK ==
  /\ member \in {"left", "member", "muted", "mutedOut", "admin", "banned"}
  /\ verified \in BOOLEAN
  /\ stored \subseteq Challenges
  /\ index \in Challenges \cup {NoChallenge}
  /\ expired \subseteq stored
  /\ todo \subseteq Challenges
  /\ at \in [Actors -> Places]
  /\ on \in [Actors -> Challenges \cup {NoChallenge}]
  /\ \A p \in Actors : on[p] = NoChallenge <=> at[p] \in {"idle", "lookup", "mute"}
  /\ found \subseteq Actors
  /\ solving \subseteq Taps
  /\ failed \subseteq {"captcha", "kick"}

Init ==
  /\ member = "left"
  /\ verified = FALSE
  /\ stored = {}
  /\ index = NoChallenge
  /\ expired = {}
  /\ todo = {}
  /\ at = [p \in Actors |-> "idle"]
  /\ on = [p \in Actors |-> NoChallenge]
  /\ found = {}
  /\ solving = {}
  /\ failed = {}

-----------------------------------------------------------------------------
(* Shared pieces.                                                          *)

\* Goroutine p goes on at place with challenge c.
Goes(p, place, c) ==
  /\ at' = [at EXCEPT ![p] = place]
  /\ on' = [on EXCEPT ![p] = c]

\* Goroutine p is done with its challenge.
Done(p) ==
  /\ Goes(p, "idle", NoChallenge)
  /\ found' = found \ {p}
  /\ solving' = solving \ {p}

Incident(what) == failed' = failed \cup {what}

Unused(c) ==
  /\ c \notin stored \cup todo
  /\ \A p \in Actors : on[p] # c

-----------------------------------------------------------------------------
(* The person and Telegram.                                                *)

\* The person joins; a chat_member update left -> member is handled.
Join(j) ==
  /\ member = "left"
  /\ at[j] = "idle"
  /\ member' = "member"
  /\ verified' = FALSE
  /\ Goes(j, "lookup", NoChallenge)
  /\ UNCHANGED <<storeVars, todo, found, solving, failed>>

\* Coming and going under a restriction, leaving, and being promoted: no
\* captcha is asked for.
MoveAbout ==
  /\ \/ member = "mutedOut" /\ member' = "muted"
     \/ member = "muted" /\ member' = "mutedOut"
     \/ member \in {"member", "admin"} /\ member' = "left"
     \/ member \in {"member", "muted"} /\ member' = "admin"
  /\ UNCHANGED <<storeVars, todo, workVars, historyVars>>

\* UntilDate of the restriction is over.
Lift ==
  /\ \/ member = "muted" /\ member' = "member"
     \/ member = "mutedOut" /\ member' = "left"
  /\ UNCHANGED <<storeVars, todo, workVars, historyVars>>

Expire(c) ==
  /\ c \in stored
  /\ expired' = expired \cup {c}
  /\ UNCHANGED <<member, stored, index, todo, workVars, historyVars>>

\* The person taps a button of a challenge that is public.
Tap(t, c) ==
  /\ at[t] = "idle"
  /\ member \in {"member", "muted", "admin"}
  /\ c \in stored \/ \E j \in Joins : at[j] = "create" /\ on[j] = c
  /\ Goes(t, "get", c)
  /\ UNCHANGED <<member, storeVars, todo, found, solving,
                 historyVars>>

-----------------------------------------------------------------------------
(* CaptchaRepo.Delete: one transaction looks the challenge up, a second    *)
(* one removes it and, when the first one saw it, the index entry.         *)

Find(p) ==
  /\ at[p] = "find"
  /\ at' = [at EXCEPT ![p] = "erase"]
  /\ found' = IF on[p] \in stored THEN found \cup {p} ELSE found \ {p}
  /\ UNCHANGED <<member, storeVars, todo, on, solving,
                 historyVars>>

\* What a goroutine does after Delete: OnJoin goes on to its own challenge,
\* a right answer ends the mute, a kick is complete.
AfterDelete(p) ==
  CASE p \in Joins -> Goes(p, "mute", NoChallenge) /\ UNCHANGED <<found, solving>>
    [] p \in solving -> Goes(p, "unmute", on[p]) /\ UNCHANGED <<found, solving>>
    [] OTHER -> Done(p)

\* Mutation: Delete forgets the index entry.
EraseKeepsIndex(p) ==
  /\ at[p] = "erase"
  /\ stored' = stored \ {on[p]}
  /\ expired' = expired \ {on[p]}
  /\ AfterDelete(p)
  /\ UNCHANGED <<member, index, todo, historyVars>>

Erase(p) ==
  /\ at[p] = "erase"
  /\ stored' = stored \ {on[p]}
  /\ index' = IF p \in found THEN NoChallenge ELSE index
  /\ expired' = expired \ {on[p]}
  /\ AfterDelete(p)
  /\ UNCHANGED <<member, todo, historyVars>>

\* The second transaction fails: OnJoin gives up, the others carry on.
EraseFails(p) ==
  /\ at[p] = "erase"
  /\ Incident("captcha")
  /\ IF p \in Joins THEN Done(p) ELSE AfterDelete(p)
  /\ UNCHANGED <<member, storeVars, todo, verified>>

-----------------------------------------------------------------------------
(* OnJoin.                                                                 *)

\* GetByUser: a challenge of an earlier join is deleted first.
Lookup(j) ==
  /\ at[j] = "lookup"
  /\ IF index \in stored THEN Goes(j, "find", index) ELSE Goes(j, "mute", NoChallenge)
  /\ UNCHANGED <<member, storeVars, todo, found, solving, historyVars>>

\* Mutation: the mute is given to the challenge, the handler forgets it.
MuteWithoutChallenge(j) ==
  /\ at[j] = "mute"
  /\ Goes(j, "send", NoChallenge)
  /\ UNCHANGED <<member, storeVars, todo, found, solving, historyVars>>

\* Generate, and the mute: best effort, it may fail.
Mute(j) ==
  /\ at[j] = "mute"
  /\ \E c \in Challenges :
       /\ Unused(c)
       /\ Goes(j, "send", c)
       /\ \/ UNCHANGED member
          \/ member \in {"member", "muted"} /\ member' = "muted"
          \/ member \in {"left", "mutedOut"} /\ member' = "mutedOut"
  /\ UNCHANGED <<storeVars, todo, found, solving, verified, failed>>

\* The challenge is public before it is stored.
Send(j) ==
  /\ at[j] = "send"
  /\ at' = [at EXCEPT ![j] = "create"]
  /\ UNCHANGED <<member, storeVars, todo, on, found, solving, historyVars>>

SendFails(j) ==
  /\ at[j] = "send"
  /\ Incident("captcha")
  /\ Done(j)
  /\ UNCHANGED <<member, storeVars, todo, verified>>

Create(j) ==
  /\ at[j] = "create"
  /\ stored' = stored \cup {on[j]}
  /\ index' = on[j]
  /\ Done(j)
  /\ UNCHANGED <<member, expired, todo, historyVars>>

CreateFails(j) ==
  /\ at[j] = "create"
  /\ Incident("captcha")
  /\ Done(j)
  /\ UNCHANGED <<member, storeVars, todo, verified>>

-----------------------------------------------------------------------------
(* OnAnswer.                                                               *)

\* store.Get, and the answer is looked at.
Get(t) ==
  /\ at[t] = "get"
  /\ \/ on[t] \notin stored /\ Done(t) /\ UNCHANGED verified
     \/ /\ on[t] \in stored
        /\ Goes(t, "find", on[t])
        /\ solving' = solving \cup {t}
        /\ verified' = TRUE
        /\ UNCHANGED found
     \/ /\ on[t] \in stored
        /\ Goes(t, "check", on[t])
        /\ UNCHANGED <<found, solving, verified>>
  /\ UNCHANGED <<member, storeVars, todo, failed>>

\* GetChat and RestrictChatMember with the chat's own permissions.
Unmute(t) ==
  /\ at[t] = "unmute"
  /\ Done(t)
  /\ CASE member = "muted" -> member' = "member"
       [] member = "mutedOut" -> member' = "left"
       [] OTHER -> UNCHANGED member
  /\ UNCHANGED <<storeVars, todo, historyVars>>

UnmuteFails(t) ==
  /\ at[t] = "unmute"
  /\ Incident("captcha")
  /\ Done(t)
  /\ UNCHANGED <<member, storeVars, todo, verified>>

-----------------------------------------------------------------------------
(* Sweep, and the kick it shares with a wrong answer.                      *)

List ==
  /\ at[Sweeper] = "idle"
  /\ todo = {}
  /\ todo' = stored \cap expired
  /\ UNCHANGED <<member, storeVars, workVars, historyVars>>

Take(c) ==
  /\ at[Sweeper] = "idle"
  /\ c \in todo
  /\ todo' = todo \ {c}
  /\ Goes(Sweeper, "check", c)
  /\ UNCHANGED <<member, storeVars, found, solving, historyVars>>

\* GetChatMember: a person who is gone or promoted is left alone; an error
\* is ignored.
Check(p) ==
  /\ at[p] = "check"
  /\ \/ member \in {"left", "admin", "banned"} /\ Goes(p, "find", on[p])
     \/ Goes(p, "ban", on[p])
  /\ UNCHANGED <<member, storeVars, todo, found, solving, historyVars>>

Ban(p) ==
  /\ at[p] = "ban"
  /\ member # "admin"
  /\ member' = "banned"
  /\ Goes(p, "unban", on[p])
  /\ UNCHANGED <<storeVars, todo, found, solving, historyVars>>

\* Mutation: a kick that failed is handled like one that worked.
BanFailsQuietly(p) ==
  /\ at[p] = "ban"
  /\ Goes(p, "find", on[p])
  /\ UNCHANGED <<member, storeVars, todo, found, solving, historyVars>>

\* BanChatMember returns an error: the challenge stays for the next sweep.
\* The ban may have been carried out all the same.
BanFails(p) ==
  /\ at[p] = "ban"
  /\ \/ UNCHANGED <<member, failed>>
     \/ member # "admin" /\ member' = "banned" /\ Incident("kick")
  /\ Done(p)
  /\ UNCHANGED <<storeVars, todo, verified>>

\* Mutation: the kick is a ban.
UnbanSkipped(p) ==
  /\ at[p] = "unban"
  /\ Goes(p, "find", on[p])
  /\ UNCHANGED <<member, storeVars, todo, found, solving, historyVars>>

\* UnbanChatMember with OnlyIfBanned.
Unban(p) ==
  /\ at[p] = "unban"
  /\ IF member = "banned" THEN member' = "left" ELSE UNCHANGED member
  /\ Goes(p, "find", on[p])
  /\ UNCHANGED <<storeVars, todo, found, solving, historyVars>>

UnbanFails(p) ==
  /\ at[p] = "unban"
  /\ Incident("kick")
  /\ Goes(p, "find", on[p])
  /\ UNCHANGED <<member, storeVars, todo, found, solving,
                 verified>>

-----------------------------------------------------------------------------
\* The process dies and is started again; Telegram redelivers the join
\* updates it had not acknowledged.
Crash ==
  /\ \E p \in Actors : at[p] # "idle"
  /\ failed' = {"captcha", "kick"}
  /\ todo' = {}
  /\ \E again \in SUBSET {j \in Joins : at[j] # "idle"} :
       at' = [p \in Actors |-> IF p \in again THEN "lookup" ELSE "idle"]
  /\ on' = [p \in Actors |-> NoChallenge]
  /\ found' = {}
  /\ solving' = {}
  /\ UNCHANGED <<member, storeVars, verified>>

JoinStep(j) ==
  Lookup(j) \/ Mute(j) \/ Send(j) \/ SendFails(j) \/ Create(j) \/ CreateFails(j)
TapStep(t) == Get(t) \/ Unmute(t) \/ UnmuteFails(t)
KickStep(p) ==
  Check(p) \/ Ban(p) \/ BanFails(p) \/ Unban(p) \/ UnbanFails(p)
DeleteStep(p) == Find(p) \/ Erase(p) \/ EraseFails(p)

Next ==
  \/ MoveAbout \/ Lift \/ List \/ Crash
  \/ \E c \in Challenges : Expire(c) \/ Take(c)
  \/ \E j \in Joins : Join(j) \/ JoinStep(j)
  \/ \E t \in Taps : TapStep(t) \/ \E c \in Challenges : Tap(t, c)
  \/ \E p \in Actors : KickStep(p) \/ DeleteStep(p)

Spec == Init /\ [][Next]_vars

-----------------------------------------------------------------------------
(* What the captcha promises.                                              *)

Busy == \E p \in Actors : at[p] # "idle"

\* Whatever joins, taps and sweeps overlap, a newcomer who has not answered,
\* and anyone who is muted, has an open challenge or somebody at work on it,
\* unless posting or storing failed or the process died (service.go:50-201).
NobodyForgotten ==
  \/ "captcha" \in failed
  \/ member # "muted" /\ (member # "member" \/ verified)
  \/ stored # {} \/ Busy

\* "Rejoinable": a kick never leaves a ban behind, also when a tap and the
\* sweeper kick at once, unless the unban failed, the answer to the ban was
\* lost, or the process died in between (service.go:169-201).
Rejoinable ==
  \/ "kick" \in failed
  \/ member # "banned"
  \/ \E p \in Actors : at[p] = "unban"

\* The index never points to a challenge that is gone, although Delete uses
\* two transactions (captcha_repo.go:58-79).
IndexLive == index # NoChallenge => index \in stored

\* "Sweep kicks every user whose captcha expired unanswered"
\* (service.go:146): it bans nobody who has given the right answer and whose
\* challenge is gone.
SweepKicksUnanswered ==
  [][at[Sweeper] = "ban" /\ at'[Sweeper] = "unban" =>
       ~verified \/ on[Sweeper] \in stored]_vars
=============================================================================
