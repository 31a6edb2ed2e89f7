----------------------------- MODULE Reputation -----------------------------
(***************************************************************************)
(* Reputation of one chat: /praise, /roast and /rep (bot/reputation.go),   *)
(* the same given by a reaction to a message (bot/rep_reaction.go), the    *)
(* balances of storage/reputation_repo.go, and the batcher that reports    *)
(* reactions a while later in one message.                                 *)
(*                                                                         *)
(* Every update has a goroutine.  A step ends at a call of Telegram, at a  *)
(* transaction and where the batcher's lock is given back.  Whether        *)
(* somebody is an admin comes from a cache that may be stale, so it is     *)
(* read anew, and anyhow, each time.                                       *)
(***************************************************************************)
EXTENDS Naturals, Sequences

CONSTANTS
  Users, Messages,
  Updates,        \* reactions and commands, a goroutine each
  Bot,            \* the author of messages nobody is credited for
  Author,         \* who wrote a message, or shared the link the bot reposted
  Regular, Admin, \* the balances people start with
  MaxIndex        \* maxIndexedMessages

ASSUME ReputationAssumption == /\ Bot \notin Users
                               /\ Author \in [Messages -> Users \cup {Bot}]
                               /\ Regular \in Nat /\ Admin \in Nat /\ MaxIndex \in Nat \ {0}

VARIABLES
  index,     \* the messages whose author is known, in order of insertion
  account,   \* bucket reputation
  step,      \* where an update's goroutine is
  deed,      \* what it does
  pending,   \* events of the open batch
  armed,     \* the timer of the open batch runs
  flushing,  \* batches taken out and on their way to Telegram
  told,      \* Telegram: updates reported in the chat
  untold,    \* history: credited and never reported: a send failed, or a restart
  moved      \* history: what the transaction really did to the target

batchVars == <<pending, armed, flushing>>
reputationVars == <<index, account, step, deed, batchVars, told, untold, moved>>

Kinds == {"praise", "roast"}
NoAccount == [open |-> FALSE, balance |-> 0]
NoDeed == [via |-> "none"]
Deeds == [via : {"reaction", "command"}, actor : Users, target : Users, kind : Kinds,
          actorAdmin : BOOLEAN, targetAdmin : BOOLEAN]
Changes == {"none", "minus one", "plus three", "plus six"}
Events == [of : Updates, delta : Changes]

ReputationTypeOK ==
  /\ index \in Seq(Messages) /\ Len(index) <= MaxIndex
  /\ account \in [Users -> [open : BOOLEAN, balance : Nat]]
  /\ step \in [Updates -> {"idle", "admins", "apply", "add", "reply", "done"}]
  /\ deed \in [Updates -> Deeds \cup {NoDeed}]
  /\ pending \subseteq Events
  /\ armed \in BOOLEAN
  /\ flushing \subseteq SUBSET Events
  /\ told \subseteq Events
  /\ untold \subseteq Updates
  /\ moved \in [Updates -> Changes]

ReputationInit ==
  /\ index = <<>>
  /\ account = [u \in Users |-> NoAccount]
  /\ step = [p \in Updates |-> "idle"]
  /\ deed = [p \in Updates |-> NoDeed]
  /\ pending = {} /\ armed = FALSE /\ flushing = {}
  /\ told = {} /\ untold = {}
  /\ moved = [p \in Updates |-> "none"]

\* The goroutine goes on; what it knew goes with it when it ends.
Knows(p, s, d) == /\ step' = [step EXCEPT ![p] = s]
                  /\ deed' = [deed EXCEPT ![p] = d]
Turns(p, s) == Knows(p, s, IF s = "done" THEN NoDeed ELSE deed[p])
Begins(p, how, u, v, k) ==
  Knows(p, "admins", [via |-> how, actor |-> u, target |-> v, kind |-> k,
                      actorAdmin |-> FALSE, targetAdmin |-> FALSE])

----------------------------------------------------------------------------
\* The author of a message is noted when the message comes in, or when the bot
\* has sent it.  A message noted again keeps its place in the queue.
RecordAuthor(m) ==
  /\ LET noted == IF \E i \in DOMAIN index : index[i] = m THEN index ELSE Append(index, m)
     IN index' = IF Len(noted) > MaxIndex THEN Tail(noted) ELSE noted
  /\ UNCHANGED <<account, step, deed, batchVars, told, untold, moved>>

\* A tracked reaction.  It ends at once when the message is not known, is a
\* bot's or the person's own.
React(p) ==
  /\ step[p] = "idle"
  /\ \E u \in Users, m \in Messages, k \in Kinds :
       IF (\E i \in DOMAIN index : index[i] = m) /\ Author[m] \notin {Bot, u}
       THEN Begins(p, "reaction", u, Author[m], k)
       ELSE Turns(p, "done")
  /\ UNCHANGED <<index, account, batchVars, told, untold, moved>>

\* /praise and /roast.  Without a target, for somebody who has left, and for
\* oneself there is only a reply.
Command(p) ==
  /\ step[p] = "idle"
  /\ \/ \E u, v \in Users, k \in Kinds : u # v /\ Begins(p, "command", u, v, k)
     \/ Turns(p, "done")
  /\ UNCHANGED <<index, account, batchVars, told, untold, moved>>

\* Both are looked up; if that fails nothing is changed.
LookUpAdmins(p) ==
  /\ step[p] = "admins"
  /\ \/ \E a, t \in BOOLEAN :
          Knows(p, "apply", [deed[p] EXCEPT !.actorAdmin = a, !.targetAdmin = t])
     \/ Turns(p, "done")
  /\ UNCHANGED <<index, account, batchVars, told, untold, moved>>

----------------------------------------------------------------------------
(* The balances.                                                           *)

defaultBalance(admin) == IF admin THEN Admin ELSE Regular
readBalance(u, admin) == IF account[u].open THEN account[u].balance ELSE defaultBalance(admin)
Holds(n) == [open |-> TRUE, balance |-> n]

Earned(d) == IF d.kind = "roast" THEN "minus one"
             ELSE IF d.targetAdmin THEN "plus six" ELSE "plus three"
Worth(n, change) == CASE change = "minus one"  -> n - 1
                      [] change = "plus three" -> n + 3
                      [] change = "plus six"   -> n + 6

\* One transaction.  Nobody gives what he has not got, nobody loses below zero.
Apply(p) ==
  LET d == deed[p]
      a == readBalance(d.actor, d.actorAdmin)
      t == readBalance(d.target, d.targetAdmin)
  IN /\ step[p] = "apply"
     /\ \/ /\ a >= 1 /\ (d.kind = "roast" => t >= 1)
           /\ account' = [account EXCEPT ![d.actor] = Holds(a - 1),
                                         ![d.target] = Holds(Worth(t, Earned(d)))]
           /\ moved' = [moved EXCEPT ![p] = Earned(d)]
           /\ Turns(p, IF d.via = "reaction" THEN "add" ELSE "reply")
        \/ Turns(p, "done") /\ UNCHANGED <<account, moved>>  \* a poor one, or an error
     /\ UNCHANGED <<index, batchVars, told, untold>>

\* /rep opens the account.
Balance(u) ==
  /\ \E admin \in BOOLEAN : account' = [account EXCEPT ![u] = Holds(readBalance(u, admin))]
  /\ UNCHANGED <<index, step, deed, batchVars, told, untold, moved>>

----------------------------------------------------------------------------
(* The reports.                                                            *)

\* repDelta, and what HandlePraise and HandleRoast print: worked out apart from
\* the transaction.
repDelta(d) == IF d.kind = "praise" THEN IF d.targetAdmin THEN "plus six" ELSE "plus three"
               ELSE "minus one"
Event(p) == [of |-> p, delta |-> repDelta(deed[p])]

\* The first event of a batch starts the timer.
Add(p) ==
  /\ step[p] = "add"
  /\ Turns(p, "done")
  /\ pending' = pending \cup {Event(p)}
  /\ armed' = (pending = {} \/ armed)
  /\ UNCHANGED <<index, account, flushing, told, untold, moved>>

\* A command is answered by its own goroutine.
Reply(p) ==
  /\ step[p] = "reply"
  /\ Turns(p, "done")
  /\ \/ told' = told \cup {Event(p)} /\ UNCHANGED untold
     \/ untold' = untold \cup {p} /\ UNCHANGED told
  /\ UNCHANGED <<index, account, batchVars, moved>>

\* Mutation: the flush copies the events and leaves the batch where it is.
TimerFiresKeeping == /\ armed /\ armed' = FALSE
                     /\ flushing' = flushing \cup {pending}
                     /\ UNCHANGED <<index, account, step, deed, pending, told, untold, moved>>

\* The timer takes the batch out; the next event opens another one, while this
\* one is still being sent.
TimerFires ==
  /\ armed
  /\ armed' = FALSE
  /\ flushing' = flushing \cup {pending}
  /\ pending' = {}
  /\ UNCHANGED <<index, account, step, deed, told, untold, moved>>

SendBatch(events) ==
  /\ flushing' = flushing \ {events}
  /\ \/ told' = told \cup events /\ UNCHANGED untold
     \/ untold' = untold \cup {e.of : e \in events} /\ UNCHANGED told
  /\ UNCHANGED <<index, account, step, deed, pending, armed, moved>>

\* The index, the batches and the goroutines are in memory only.
ReputationRestart ==
  /\ index' = <<>>
  /\ step' = [p \in Updates |-> IF step[p] = "idle" THEN "idle" ELSE "done"]
  /\ deed' = [p \in Updates |-> NoDeed]
  /\ pending' = {} /\ armed' = FALSE /\ flushing' = {}
  /\ untold' = untold \cup {p \in Updates : step[p] \in {"add", "reply"}}
                      \cup {e.of : e \in pending \cup UNION flushing}
  /\ UNCHANGED <<account, told, moved>>

ReputationNext ==
  \/ \E m \in Messages : RecordAuthor(m)
  \/ \E p \in Updates : \/ React(p) \/ Command(p) \/ LookUpAdmins(p) \/ Apply(p)
                        \/ Add(p) \/ Reply(p)
  \/ \E u \in Users : Balance(u)
  \/ TimerFires
  \/ \E events \in flushing : SendBatch(events)
  \/ ReputationRestart

ReputationSpec == ReputationInit /\ [][ReputationNext]_reputationVars

----------------------------------------------------------------------------
Mine(p, events) == {e \in events : e.of = p}

\* CreditsReported.  Every change of somebody's balance is on its way into the
\* chat or has been told there, once and with the amount the transaction moved,
\* unless a send failed or the bot was restarted; a batch that waits always has
\* its timer running, and nothing is told that was not done.
CreditsReported ==
  /\ \A p \in Updates :
       LET waiting == Mine(p, pending)
           going   == {b \in flushing : Mine(p, b) # {}}
           said    == Mine(p, told)
           held    == step[p] \in {"add", "reply"}
           places  == {x \in {"held", "waiting", "going", "said", "untold"} :
                         \/ x = "held" /\ held
                         \/ x = "waiting" /\ waiting # {}
                         \/ x = "going" /\ going # {}
                         \/ x = "said" /\ said # {}
                         \/ x = "untold" /\ p \in untold}
       IN /\ (moved[p] # "none") <=> (places # {})
          /\ \A x, y \in places : x = y
          /\ \A b, c \in going : b = c
          /\ \A e \in pending \cup told \cup UNION flushing : e.of = p => e.delta = moved[p]
  /\ (pending # {}) <=> armed
=============================================================================
