--------------------------- MODULE Captcha_proofs ---------------------------
(***************************************************************************)
(* Proofs about Captcha for any number of join handlers, taps and          *)
(* challenges: types, that a kick leaves no ban behind, that the user      *)
(* index never points to a challenge that is gone, and that nobody is      *)
(* forgotten.                                                              *)
(***************************************************************************)
EXTENDS Captcha, TLAPS

(***************************************************************************)
(* What keeps the index live.  A challenge that is being posted is known   *)
(* to nobody but its handler and to taps that have not looked it up yet;   *)
(* and a Delete whose first transaction did not see the challenge finds no *)
(* such challenge in its second one either.  The two together are why      *)
(* reading and removing in separate transactions does no harm here.        *)
(***************************************************************************)
Fresh ==
  \A j \in Joins : at[j] \in {"send", "create"} =>
    /\ on[j] \notin stored \cup todo
    /\ \A p \in Actors : p # j /\ on[p] = on[j] => at[p] = "get"

Blind == \A p \in Actors : at[p] = "erase" /\ p \notin found => on[p] \notin stored

IInv == TypeOK /\ Fresh /\ Blind /\ IndexLive

-----------------------------------------------------------------------------
(* Types.                                                                  *)

LEMMA ActorSets == Joins \subseteq Actors /\ Taps \subseteq Actors /\ Sweeper \in Actors
  BY DEF Actors

LEMMA GoesType ==
  ASSUME TypeOK, NEW p \in Actors, NEW place \in Places,
         NEW c \in Challenges \cup {NoChallenge}, Goes(p, place, c),
         c = NoChallenge <=> place \in {"idle", "lookup", "mute"}
  PROVE  /\ at' \in [Actors -> Places]
         /\ on' \in [Actors -> Challenges \cup {NoChallenge}]
         /\ \A q \in Actors : on'[q] = NoChallenge <=> at'[q] \in {"idle", "lookup", "mute"}
  BY DEF Goes, TypeOK

LEMMA DoneType ==
  ASSUME TypeOK, NEW p \in Actors, Done(p)
  PROVE  /\ at' \in [Actors -> Places]
         /\ on' \in [Actors -> Challenges \cup {NoChallenge}]
         /\ \A q \in Actors : on'[q] = NoChallenge <=> at'[q] \in {"idle", "lookup", "mute"}
         /\ found' \subseteq Actors /\ solving' \subseteq Taps
  BY GoesType DEF Done, TypeOK, Places

LEMMA AfterDeleteType ==
  ASSUME TypeOK, NEW p \in Actors, at[p] = "erase", AfterDelete(p)
  PROVE  /\ at' \in [Actors -> Places]
         /\ on' \in [Actors -> Challenges \cup {NoChallenge}]
         /\ \A q \in Actors : on'[q] = NoChallenge <=> at'[q] \in {"idle", "lookup", "mute"}
         /\ found' \subseteq Actors /\ solving' \subseteq Taps
  <1>1. on[p] \in Challenges
    BY DEF TypeOK
  <1>2. CASE p \in Joins
    BY <1>2, GoesType DEF AfterDelete, Places, TypeOK
  <1>3. CASE p \notin Joins /\ p \in solving
    BY <1>1, <1>3, GoesType DEF AfterDelete, Places, TypeOK
  <1>4. CASE p \notin Joins /\ p \notin solving
    BY <1>4, DoneType DEF AfterDelete
  <1> QED BY <1>2, <1>3, <1>4

LEMMA JoinType ==
  ASSUME TypeOK, NEW j \in Joins, Join(j) \/ JoinStep(j)
  PROVE  TypeOK'
  <1> j \in Actors
    BY ActorSets
  <1>1. CASE Join(j)
    BY <1>1, GoesType DEF Join, TypeOK, Places, storeVars
  <1>2. CASE Lookup(j)
    BY <1>2, GoesType, NoChallengeAssumption
    DEF Lookup, TypeOK, Places, storeVars, historyVars
  <1>3. CASE Mute(j)
    BY <1>3, GoesType, NoChallengeAssumption DEF Mute, TypeOK, Places, storeVars
  <1>4. CASE Send(j)
    BY <1>4 DEF Send, TypeOK, Places, storeVars, historyVars
  <1>5. CASE SendFails(j)
    BY <1>5, DoneType DEF SendFails, Incident, TypeOK, storeVars
  <1>6. CASE Create(j)
    BY <1>6, DoneType DEF Create, TypeOK, historyVars
  <1>7. CASE CreateFails(j)
    BY <1>7, DoneType DEF CreateFails, Incident, TypeOK, storeVars
  <1> QED BY <1>1, <1>2, <1>3, <1>4, <1>5, <1>6, <1>7 DEF JoinStep

LEMMA TapType ==
  ASSUME TypeOK, NEW t \in Taps, TapStep(t) \/ \E c \in Challenges : Tap(t, c)
  PROVE  TypeOK'
  <1> t \in Actors
    BY ActorSets
  <1>1. ASSUME NEW c \in Challenges, Tap(t, c) PROVE TypeOK'
    BY <1>1, GoesType, NoChallengeAssumption
    DEF Tap, TypeOK, Places, storeVars, historyVars
  <1>2. CASE Get(t)
    <2>1. CASE on[t] \notin stored /\ Done(t) /\ UNCHANGED verified
      BY <1>2, <2>1, DoneType DEF Get, TypeOK, storeVars
    <2>2. CASE on[t] \in stored /\ Goes(t, "find", on[t])
               /\ solving' = solving \cup {t} /\ verified' = TRUE /\ UNCHANGED found
      BY <1>2, <2>2, GoesType, NoChallengeAssumption DEF Get, TypeOK, Places, storeVars
    <2>3. CASE on[t] \in stored /\ Goes(t, "check", on[t])
               /\ UNCHANGED <<found, solving, verified>>
      BY <1>2, <2>3, GoesType, NoChallengeAssumption DEF Get, TypeOK, Places, storeVars
    <2> QED BY <1>2, <2>1, <2>2, <2>3 DEF Get
  <1>3. CASE Unmute(t)
    BY <1>3, DoneType DEF Unmute, TypeOK, storeVars, historyVars
  <1>4. CASE UnmuteFails(t)
    BY <1>4, DoneType DEF UnmuteFails, Incident, TypeOK, storeVars
  <1> QED BY <1>1, <1>2, <1>3, <1>4 DEF TapStep

LEMMA KickType ==
  ASSUME TypeOK, NEW p \in Actors, KickStep(p)
  PROVE  TypeOK'
  <1>1. CASE Check(p)
    BY <1>1, GoesType DEF Check, TypeOK, Places, storeVars, historyVars
  <1>2. CASE Ban(p)
    BY <1>2, GoesType DEF Ban, TypeOK, Places, storeVars, historyVars
  <1>3. CASE BanFails(p)
    BY <1>3, DoneType DEF BanFails, Incident, TypeOK, storeVars
  <1>4. CASE Unban(p)
    BY <1>4, GoesType DEF Unban, TypeOK, Places, storeVars, historyVars
  <1>5. CASE UnbanFails(p)
    BY <1>5, GoesType DEF UnbanFails, Incident, TypeOK, Places, storeVars
  <1> QED BY <1>1, <1>2, <1>3, <1>4, <1>5 DEF KickStep

LEMMA DeleteType ==
  ASSUME TypeOK, NEW p \in Actors, DeleteStep(p)
  PROVE  TypeOK'
  <1>1. CASE Find(p)
    BY <1>1 DEF Find, TypeOK, Places, storeVars, historyVars
  <1>2. CASE Erase(p)
    BY <1>2, AfterDeleteType DEF Erase, TypeOK, historyVars
  <1>3. CASE EraseFails(p)
    BY <1>3, AfterDeleteType, DoneType DEF EraseFails, Incident, TypeOK, storeVars
  <1> QED BY <1>1, <1>2, <1>3 DEF DeleteStep

LEMMA OtherType ==
  ASSUME TypeOK,
         \/ MoveAbout \/ Lift \/ List \/ Crash
         \/ \E c \in Challenges : Expire(c) \/ Take(c)
         \/ UNCHANGED vars
  PROVE  TypeOK'
  <1>1. CASE MoveAbout
    BY <1>1 DEF MoveAbout, TypeOK, storeVars, workVars, historyVars
  <1>2. CASE Lift
    BY <1>2 DEF Lift, TypeOK, storeVars, workVars, historyVars
  <1>3. CASE List
    BY <1>3 DEF List, TypeOK, storeVars, workVars, historyVars
  <1>4. CASE Crash
    BY <1>4, ActorSets DEF Crash, TypeOK, storeVars, Places
  <1>5. ASSUME NEW c \in Challenges, Expire(c) PROVE TypeOK'
    BY <1>5 DEF Expire, TypeOK, workVars, historyVars
  <1>6. ASSUME NEW c \in Challenges, Take(c) PROVE TypeOK'
    BY <1>6, GoesType, ActorSets, NoChallengeAssumption
    DEF Take, TypeOK, storeVars, historyVars, Places
  <1>7. CASE UNCHANGED vars
    BY <1>7 DEF vars, TypeOK, storeVars, workVars, historyVars
  <1> QED BY <1>1, <1>2, <1>3, <1>4, <1>5, <1>6, <1>7

LEMMA StepType ==
  ASSUME TypeOK, [Next]_vars
  PROVE  TypeOK'
  BY JoinType, TapType, KickType, DeleteType, OtherType DEF Next

LEMMA InitType == Init => TypeOK
  BY DEF Init, TypeOK, Places

(***************************************************************************)
(* Every variable keeps its type, and a goroutine has a challenge exactly  *)
(* in the places where the code uses one.                                  *)
(***************************************************************************)
THEOREM TypeCorrect == Spec => []TypeOK
  BY InitType, StepType, PTL DEF Spec

-----------------------------------------------------------------------------
(* A kick leaves no ban behind.                                            *)

\* A step that bans nobody and ends no unban keeps it.
LEMMA RejoinableKept ==
  ASSUME Rejoinable, failed \subseteq failed',
         member' = "banned" => member = "banned",
         \A p \in Actors : at[p] = "unban" => at'[p] = "unban" \/ "kick" \in failed'
  PROVE  Rejoinable'
  BY DEF Rejoinable

LEMMA GoesElsewhere ==
  ASSUME TypeOK, NEW p \in Actors, at[p] # "unban", NEW place, NEW c, Goes(p, place, c)
  PROVE  \A q \in Actors : at[q] = "unban" => at'[q] = "unban"
  BY DEF Goes, TypeOK

LEMMA AfterDeleteElsewhere ==
  ASSUME TypeOK, NEW p \in Actors, at[p] = "erase", AfterDelete(p)
  PROVE  \A q \in Actors : at[q] = "unban" => at'[q] = "unban"
  <1>1. CASE p \in Joins
    BY <1>1, GoesElsewhere DEF AfterDelete
  <1>2. CASE p \notin Joins /\ p \in solving
    BY <1>2, GoesElsewhere DEF AfterDelete
  <1>3. CASE p \notin Joins /\ p \notin solving
    BY <1>3, GoesElsewhere DEF AfterDelete, Done
  <1> QED BY <1>1, <1>2, <1>3

LEMMA JoinRejoinable ==
  ASSUME TypeOK, Rejoinable, NEW j \in Joins, Join(j) \/ JoinStep(j)
  PROVE  Rejoinable'
  <1> j \in Actors
    BY ActorSets
  <1>1. CASE Join(j)
    BY <1>1, RejoinableKept, GoesElsewhere DEF Join
  <1>2. CASE Lookup(j)
    BY <1>2, RejoinableKept, GoesElsewhere DEF Lookup, historyVars
  <1>3. CASE Mute(j)
    BY <1>3, RejoinableKept, GoesElsewhere DEF Mute
  <1>4. CASE Send(j)
    BY <1>4, RejoinableKept DEF Send, historyVars, TypeOK
  <1>5. CASE SendFails(j)
    BY <1>5, RejoinableKept, GoesElsewhere DEF SendFails, Incident, Done
  <1>6. CASE Create(j)
    BY <1>6, RejoinableKept, GoesElsewhere DEF Create, Done, historyVars
  <1>7. CASE CreateFails(j)
    BY <1>7, RejoinableKept, GoesElsewhere DEF CreateFails, Incident, Done
  <1> QED BY <1>1, <1>2, <1>3, <1>4, <1>5, <1>6, <1>7 DEF JoinStep

LEMMA TapRejoinable ==
  ASSUME TypeOK, Rejoinable, NEW t \in Taps,
         TapStep(t) \/ \E c \in Challenges : Tap(t, c)
  PROVE  Rejoinable'
  <1> t \in Actors
    BY ActorSets
  <1>1. ASSUME NEW c \in Challenges, Tap(t, c) PROVE Rejoinable'
    BY <1>1, RejoinableKept, GoesElsewhere DEF Tap, historyVars
  <1>2. CASE Get(t)
    BY <1>2, RejoinableKept, GoesElsewhere DEF Get, Done
  <1>3. CASE Unmute(t)
    BY <1>3, RejoinableKept, GoesElsewhere DEF Unmute, Done, historyVars
  <1>4. CASE UnmuteFails(t)
    BY <1>4, RejoinableKept, GoesElsewhere DEF UnmuteFails, Incident, Done
  <1> QED BY <1>1, <1>2, <1>3, <1>4 DEF TapStep

LEMMA KickRejoinable ==
  ASSUME TypeOK, Rejoinable, NEW p \in Actors, KickStep(p)
  PROVE  Rejoinable'
  <1>1. CASE Check(p)
    BY <1>1, RejoinableKept, GoesElsewhere DEF Check, historyVars
  <1>2. CASE Ban(p)
    BY <1>2 DEF Ban, Goes, TypeOK, Rejoinable
  <1>3. CASE BanFails(p)
    <2>1. CASE UNCHANGED <<member, failed>>
      BY <1>3, <2>1, RejoinableKept, GoesElsewhere DEF BanFails, Done
    <2>2. CASE Incident("kick")
      BY <2>2 DEF Incident, Rejoinable
    <2> QED BY <1>3, <2>1, <2>2 DEF BanFails
  <1>4. CASE Unban(p)
    BY <1>4 DEF Unban, Rejoinable
  <1>5. CASE UnbanFails(p)
    BY <1>5 DEF UnbanFails, Incident, Rejoinable
  <1> QED BY <1>1, <1>2, <1>3, <1>4, <1>5 DEF KickStep

LEMMA StepRejoinable ==
  ASSUME TypeOK, Rejoinable, [Next]_vars
  PROVE  Rejoinable'
  <1>1. ASSUME NEW p \in Actors, DeleteStep(p) PROVE Rejoinable'
    <2>1. CASE Find(p)
      BY <2>1, RejoinableKept DEF Find, historyVars, TypeOK
    <2>2. CASE Erase(p)
      BY <2>2, RejoinableKept, AfterDeleteElsewhere DEF Erase, historyVars
    <2>3. CASE EraseFails(p)
      BY <2>3, RejoinableKept, AfterDeleteElsewhere, GoesElsewhere
      DEF EraseFails, Incident, Done
    <2> QED BY <1>1, <2>1, <2>2, <2>3 DEF DeleteStep
  <1>2. CASE MoveAbout \/ Lift \/ List
    BY <1>2, RejoinableKept DEF MoveAbout, Lift, List, workVars, historyVars
  <1>3. CASE Crash
    BY <1>3 DEF Crash, Rejoinable
  <1>4. ASSUME NEW c \in Challenges, Expire(c) \/ Take(c) PROVE Rejoinable'
    BY <1>4, RejoinableKept, GoesElsewhere, ActorSets
    DEF Expire, Take, workVars, historyVars
  <1>5. CASE UNCHANGED vars
    BY <1>5, RejoinableKept DEF vars, workVars, historyVars
  <1> QED BY <1>1, <1>2, <1>3, <1>4, <1>5,
             JoinRejoinable, TapRejoinable, KickRejoinable DEF Next

(***************************************************************************)
(* Kicks are kicks: whatever taps and sweeps overlap, a ban is followed by *)
(* its unban unless that failed or was cut off (service.go:169-201).       *)
(***************************************************************************)
THEOREM RejoinableCorrect == Spec => []Rejoinable
  <1>1. Init => Rejoinable
    BY DEF Init, Rejoinable
  <1>2. TypeOK /\ Rejoinable /\ [Next]_vars => Rejoinable'
    BY StepRejoinable
  <1> QED BY <1>1, <1>2, TypeCorrect, PTL DEF Spec

-----------------------------------------------------------------------------
(* The index is live.                                                      *)

\* A goroutine that moves elsewhere without a new challenge, while the store
\* and the other goroutines stay as they are, disturbs nothing.
LEMMA MovesQuietly ==
  ASSUME IInv, NEW p \in Actors, NEW place \in Places, NEW c, Goes(p, place, c),
         stored' = stored, index' = index, todo' \subseteq todo \cup stored,
         found' \subseteq found, \A q \in found : q # p => q \in found',
         place \notin {"send", "create", "erase"},
         \/ c = NoChallenge
         \/ place = "get"
         \/ \A j \in Joins : at[j] \in {"send", "create"} /\ on[j] = c => FALSE
  PROVE  Fresh' /\ Blind' /\ IndexLive'
  <1>1. /\ at' = [at EXCEPT ![p] = place] /\ on' = [on EXCEPT ![p] = c]
        /\ at \in [Actors -> Places]
        /\ on \in [Actors -> Challenges \cup {NoChallenge}]
        /\ \A j \in Joins : at[j] \in {"send", "create"} => on[j] # NoChallenge
    BY ActorSets DEF IInv, TypeOK, Goes
  <1>2. IndexLive'
    BY DEF IInv, IndexLive
  <1>3. Blind'
    BY <1>1 DEF IInv, Blind
  <1>4. Fresh'
    BY <1>1, ActorSets DEF IInv, Fresh
  <1> QED BY <1>2, <1>3, <1>4

LEMMA JoinIndex ==
  ASSUME IInv, NEW j \in Joins, Join(j) \/ JoinStep(j)
  PROVE  Fresh' /\ Blind' /\ IndexLive'
  <1> j \in Actors /\ TypeOK /\ Fresh /\ Blind /\ IndexLive
    BY ActorSets DEF IInv
  <1>1. CASE Join(j)
    BY <1>1, MovesQuietly DEF Join, Places, storeVars
  <1>2. CASE Lookup(j)
    <2>1. CASE index \in stored /\ Goes(j, "find", index)
      BY <1>2, <2>1, MovesQuietly DEF Lookup, Fresh, Places, storeVars
    <2>2. CASE Goes(j, "mute", NoChallenge)
      BY <1>2, <2>2, MovesQuietly DEF Lookup, Places, storeVars
    <2> QED BY <1>2, <2>1, <2>2 DEF Lookup
  <1>3. CASE Mute(j)
    <2>1. PICK c \in Challenges : Unused(c) /\ Goes(j, "send", c)
      BY <1>3 DEF Mute
    <2>2. Fresh'
      BY <1>3, <2>1, ActorSets DEF Mute, Goes, Unused, Fresh, storeVars, TypeOK
    <2>3. Blind' /\ IndexLive'
      BY <1>3, <2>1 DEF Mute, Goes, Blind, IndexLive, storeVars, TypeOK
    <2> QED BY <2>2, <2>3
  <1>4. CASE Send(j)
    <2>1. Fresh'
      BY <1>4, ActorSets DEF Send, Fresh, storeVars, TypeOK
    <2>2. Blind' /\ IndexLive'
      BY <1>4 DEF Send, Blind, IndexLive, storeVars, TypeOK
    <2> QED BY <2>1, <2>2
  <1>5. CASE SendFails(j) \/ CreateFails(j)
    BY <1>5, MovesQuietly DEF SendFails, CreateFails, Done, Places, storeVars
  <1>6. CASE Create(j)
    <2>1. IndexLive'
      BY <1>6 DEF Create, IndexLive
    <2>2. Blind'
      BY <1>6, ActorSets DEF Create, Done, Goes, Blind, Fresh, TypeOK
    <2>3. Fresh'
      BY <1>6, ActorSets DEF Create, Done, Goes, Fresh, TypeOK
    <2> QED BY <2>1, <2>2, <2>3
  <1> QED BY <1>1, <1>2, <1>3, <1>4, <1>5, <1>6 DEF JoinStep

LEMMA TapIndex ==
  ASSUME IInv, NEW t \in Taps, TapStep(t) \/ \E c \in Challenges : Tap(t, c)
  PROVE  Fresh' /\ Blind' /\ IndexLive'
  <1> t \in Actors /\ TypeOK /\ Fresh
    BY ActorSets DEF IInv
  <1>1. ASSUME NEW c \in Challenges, Tap(t, c)
        PROVE  Fresh' /\ Blind' /\ IndexLive'
    BY <1>1, MovesQuietly DEF Tap, Places, storeVars
  <1>2. CASE Get(t)
    <2>1. CASE Done(t)
      BY <1>2, <2>1, MovesQuietly DEF Get, Done, Places, storeVars
    <2>2. ASSUME NEW place \in {"find", "check"}, on[t] \in stored,
                 Goes(t, place, on[t]), UNCHANGED found
          PROVE  Fresh' /\ Blind' /\ IndexLive'
      BY <1>2, <2>2, MovesQuietly DEF Get, Fresh, Places, storeVars
    <2> QED BY <1>2, <2>1, <2>2 DEF Get
  <1>3. CASE Unmute(t) \/ UnmuteFails(t)
    BY <1>3, MovesQuietly DEF Unmute, UnmuteFails, Done, Places, storeVars
  <1> QED BY <1>1, <1>2, <1>3 DEF TapStep

\* A goroutine that is past its lookup works on no fresh challenge.
LEMMA NotFresh ==
  ASSUME IInv, NEW p \in Actors, at[p] \notin {"get", "send", "create"}
  PROVE  ~ \E j \in Joins : at[j] \in {"send", "create"} /\ on[j] = on[p]
  BY DEF IInv, Fresh

LEMMA KickIndex ==
  ASSUME IInv, NEW p \in Actors, KickStep(p)
  PROVE  Fresh' /\ Blind' /\ IndexLive'
  <1>1. CASE BanFails(p)
    BY <1>1, MovesQuietly DEF BanFails, Done, Places, storeVars
  <1>2. CASE Check(p)
    BY <1>2, NotFresh, MovesQuietly DEF Check, Places, storeVars
  <1>3. CASE Ban(p)
    BY <1>3, NotFresh, MovesQuietly DEF Ban, Places, storeVars
  <1>4. CASE Unban(p) \/ UnbanFails(p)
    BY <1>4, NotFresh, MovesQuietly DEF Unban, UnbanFails, Places, storeVars
  <1> QED BY <1>1, <1>2, <1>3, <1>4 DEF KickStep

LEMMA AfterDeleteGoes ==
  ASSUME NEW p \in Actors, AfterDelete(p) \/ Done(p)
  PROVE  \E place \in {"mute", "unmute", "idle"}, c \in {NoChallenge, on[p]} :
           /\ Goes(p, place, c)
           /\ found' = found \/ found' = found \ {p}
  <1>1. CASE Done(p)
    BY <1>1 DEF Done
  <1>2. CASE AfterDelete(p) /\ p \in Joins
    BY <1>2 DEF AfterDelete
  <1>3. CASE AfterDelete(p) /\ p \notin Joins /\ p \in solving
    BY <1>3 DEF AfterDelete
  <1>4. CASE AfterDelete(p) /\ p \notin Joins /\ p \notin solving
    BY <1>4 DEF AfterDelete, Done
  <1> QED BY <1>1, <1>2, <1>3, <1>4

LEMMA DeleteIndex ==
  ASSUME IInv, NEW p \in Actors, DeleteStep(p)
  PROVE  Fresh' /\ Blind' /\ IndexLive'
  <1> TypeOK /\ Fresh /\ Blind /\ IndexLive
    BY DEF IInv
  <1>1. CASE Find(p)
    <2>1. Blind' /\ IndexLive'
      BY <1>1 DEF Find, Blind, IndexLive, storeVars, TypeOK
    <2>2. Fresh'
      BY <1>1, ActorSets DEF Find, Fresh, storeVars, TypeOK
    <2> QED BY <2>1, <2>2
  <1>2. CASE Erase(p)
    <2>1. IndexLive'
      BY <1>2 DEF Erase, IndexLive, Blind
    <2>2. \E place \in {"mute", "unmute", "idle"}, c \in {NoChallenge, on[p]} :
            /\ Goes(p, place, c)
            /\ found' = found \/ found' = found \ {p}
      BY <1>2, AfterDeleteGoes DEF Erase
    <2>3. Blind'
      BY <1>2, <2>2 DEF Erase, Goes, Blind, TypeOK
    <2>4. Fresh'
      BY <1>2, <2>2, NotFresh, ActorSets DEF Erase, Goes, Fresh, TypeOK
    <2> QED BY <2>1, <2>3, <2>4
  <1>3. CASE EraseFails(p)
    <2>1. \E place \in {"mute", "unmute", "idle"}, c \in {NoChallenge, on[p]} :
            /\ Goes(p, place, c)
            /\ found' = found \/ found' = found \ {p}
      BY <1>3, AfterDeleteGoes DEF EraseFails
    <2> QED BY <1>3, <2>1, NotFresh, MovesQuietly DEF EraseFails, Places, storeVars
  <1> QED BY <1>1, <1>2, <1>3 DEF DeleteStep

LEMMA OtherIndex ==
  ASSUME IInv,
         \/ MoveAbout \/ Lift \/ List \/ Crash
         \/ \E c \in Challenges : Expire(c) \/ Take(c)
         \/ UNCHANGED vars
  PROVE  Fresh' /\ Blind' /\ IndexLive'
  <1> TypeOK /\ Fresh /\ Blind /\ IndexLive
    BY DEF IInv
  <1>1. CASE MoveAbout \/ Lift \/ UNCHANGED vars
    BY <1>1 DEF MoveAbout, Lift, vars, storeVars, workVars, Fresh, Blind, IndexLive
  <1>2. CASE List
    BY <1>2 DEF List, storeVars, workVars, Fresh, Blind, IndexLive
  <1>3. CASE Crash
    BY <1>3, ActorSets DEF Crash, storeVars, Fresh, Blind, IndexLive
  <1>4. ASSUME NEW c \in Challenges, Expire(c) PROVE Fresh' /\ Blind' /\ IndexLive'
    BY <1>4 DEF Expire, workVars, Fresh, Blind, IndexLive
  <1>5. ASSUME NEW c \in Challenges, Take(c) PROVE Fresh' /\ Blind' /\ IndexLive'
    BY <1>5, ActorSets, MovesQuietly DEF Take, Fresh, Places, storeVars
  <1> QED BY <1>1, <1>2, <1>3, <1>4, <1>5

LEMMA StepIndex ==
  ASSUME IInv, [Next]_vars
  PROVE  IInv'
  <1>1. TypeOK'
    BY StepType DEF IInv
  <1>2. Fresh' /\ Blind' /\ IndexLive'
    BY JoinIndex, TapIndex, KickIndex, DeleteIndex, OtherIndex DEF Next
  <1> QED BY <1>1, <1>2 DEF IInv

(***************************************************************************)
(* Whichever Delete and Create overlap, the user index never points to a   *)
(* challenge that is gone (captcha_repo.go:31-79).                         *)
(***************************************************************************)
THEOREM IndexLiveCorrect == Spec => []IndexLive
  <1>1. Init => IInv
    BY InitType, ActorSets DEF Init, IInv, Fresh, Blind, IndexLive
  <1>2. IInv => IndexLive
    BY DEF IInv
  <1> QED BY <1>1, <1>2, StepIndex, PTL DEF Spec
-----------------------------------------------------------------------------
(* Nobody is forgotten.                                                    *)

\* A join handler at work ends with a challenge in the store, or fails.
AtWork  == {"lookup", "find", "erase", "mute", "send", "create"}
Joining == \E j \in Joins : at[j] \in AtWork

\* Somebody is done with challenge c but for its removal: whom it was asked of
\* has answered, or was gone when it came to that.
Ending    == {"unban", "find", "erase", "unmute"}
Doomed(c) == \E p \in Actors \ Joins : on[p] = c /\ at[p] \in Ending

Covered == Joining \/ \E c \in stored : ~Doomed(c)

\* Who has not answered is asked still; who has, and is muted, is asked again
\* or about to be heard.
Asked   == ~verified /\ member \in {"member", "muted", "mutedOut"} => Covered
HeardOf == verified /\ member \in {"muted", "mutedOut"} => Covered \/ solving # {}

Solving == \A t \in solving : at[t] \in {"find", "erase", "unmute"}

Attended == Solving /\ ("captcha" \in failed \/ (Asked /\ HeardOf))

\* A goroutine that moves on keeps whoever is covered covered, unless it is a
\* handler that gives up or somebody who sets about removing a challenge.
LEMMA StaysCovered ==
  ASSUME TypeOK, Covered, NEW p \in Actors, NEW place, NEW c, Goes(p, place, c), stored \subseteq stored',
         p \in Joins => at[p] \notin AtWork \/ place \in AtWork,
         p \notin Joins => place \notin Ending \/ (at[p] \in Ending /\ c = on[p])
  PROVE  Covered'
<1>1. /\ at'[p] = place /\ on'[p] = c
      /\ \A q \in Actors \ {p} : at'[q] = at[q] /\ on'[q] = on[q]
  BY DEF Goes, TypeOK
<1>2. CASE Joining
  BY <1>1, <1>2, ActorSets DEF Joining, Covered
<1>3. CASE \E d \in stored : ~Doomed(d)
  BY <1>1, <1>3 DEF Doomed, Covered
<1> QED BY <1>2, <1>3 DEF Covered

\* Those with the right answer are where they were.
LEMMA StaysSolving ==
  ASSUME TypeOK, Solving, NEW p \in Actors, NEW place, NEW c, Goes(p, place, c), solving' \subseteq solving,
         p \notin solving' \/ place \in {"find", "erase", "unmute"}
  PROVE  Solving'
BY DEF Goes, TypeOK, Solving, Actors

LEMMA CoveredAttends ==
  ASSUME Solving', Covered' \/ "captcha" \in failed'
  PROVE  Attended'
BY DEF Attended, Asked, HeardOf

\* A step that asks nothing of a person who is not asked yet.
LEMMA StaysAttended ==
  ASSUME Attended, Solving', Covered => Covered', failed \subseteq failed', verified' = verified,
         member' = member \/ member' \in {"left", "admin", "banned"}, solving' = solving
  PROVE  Attended'
BY DEF Attended, Asked, HeardOf

LEMMA JoinAttended ==
  ASSUME IInv, Attended, NEW j \in Joins, Join(j) \/ JoinStep(j)
  PROVE  Attended'
<1> /\ j \in Actors /\ j \notin Taps /\ TypeOK /\ Fresh /\ Solving
  BY ActorSets, ActorsAssumption DEF IInv, Attended
<1> j \notin solving
  BY DEF TypeOK
<1>1. ASSUME NEW place \in AtWork, NEW c, Goes(j, place, c), solving' = solving
      PROVE  Attended'
  <2>1. Covered'
    BY <1>1 DEF Goes, TypeOK, Covered, Joining
  <2> QED BY <1>1, <2>1, StaysSolving, CoveredAttends
<1>2. CASE Join(j)
  BY <1>1, <1>2 DEF Join, AtWork
<1>3. CASE Lookup(j)
  BY <1>1, <1>3 DEF Lookup, AtWork
<1>4. CASE Mute(j)
  BY <1>1, <1>4 DEF Mute, AtWork
<1>5. CASE Send(j)
  <2>1. Goes(j, "create", on[j])
    BY <1>5 DEF Send, Goes, TypeOK
  <2> QED BY <1>1, <1>5, <2>1 DEF Send, AtWork
<1>6. CASE SendFails(j) \/ CreateFails(j)
  <2>1. Goes(j, "idle", NoChallenge) /\ solving' \subseteq solving /\ "captcha" \in failed'
    BY <1>6 DEF SendFails, CreateFails, Done, Incident
  <2> QED BY <2>1, StaysSolving, CoveredAttends
<1>7. CASE Create(j)
  <2>1. Goes(j, "idle", NoChallenge) /\ solving' \subseteq solving /\ on[j] \in stored'
    BY <1>7 DEF Create, Done
  <2>2. at[j] = "create" /\ \A p \in Actors \ Joins : on[p] = on[j] => at[p] = "get"
    BY <1>7 DEF Create, Fresh
  <2>3. \A p \in Actors \ Joins : at'[p] = at[p] /\ on'[p] = on[p]
    BY <2>1 DEF Goes, TypeOK
  <2>4. \A p \in Actors \ Joins : on'[p] = on[j] => at'[p] \notin Ending
    BY <2>2, <2>3 DEF Ending
  <2>5. Covered'
    BY <2>1, <2>4 DEF Covered, Doomed
  <2> QED BY <2>1, <2>5, StaysSolving, CoveredAttends
<1> QED BY <1>2, <1>3, <1>4, <1>5, <1>6, <1>7 DEF JoinStep

LEMMA TapAttended ==
  ASSUME IInv, Attended, NEW t \in Taps, TapStep(t) \/ \E c \in Challenges : Tap(t, c)
  PROVE  Attended'
<1> /\ t \in Actors /\ t \notin Joins /\ TypeOK /\ Solving
  BY ActorSets, ActorsAssumption DEF IInv, Attended
<1>1. ASSUME NEW c \in Challenges, Tap(t, c) PROVE Attended'
  <2>1. Goes(t, "get", c) /\ t \notin solving /\ solving' = solving /\ stored' = stored
    BY <1>1 DEF Tap, Solving, storeVars
  <2>2. Covered => Covered'
    BY <2>1, StaysCovered DEF Ending
  <2> QED BY <1>1, <2>1, <2>2, StaysSolving, StaysAttended DEF Tap, historyVars
<1>2. CASE Get(t)
  <2>1. /\ at[t] = "get" /\ t \notin solving /\ UNCHANGED <<member, failed>> /\ stored' = stored
    BY <1>2 DEF Get, Solving, storeVars
  <2>2. ASSUME NEW place \in {"idle", "check"}, NEW c, Goes(t, place, c), solving' = solving,
               verified' = verified
        PROVE  Attended'
    <3>1. Covered => Covered'
      BY <2>1, <2>2, StaysCovered DEF Ending
    <3> QED BY <2>1, <2>2, <3>1, StaysSolving, StaysAttended
  <2>3. CASE Done(t) /\ verified' = verified
    BY <2>1, <2>2, <2>3 DEF Done
  <2>4. CASE Goes(t, "find", on[t]) /\ solving' = solving \cup {t} /\ verified' = TRUE
    <3>1. Solving'
      BY <2>4 DEF Goes, TypeOK, Solving
    <3> QED BY <2>4, <3>1 DEF Attended, Asked, HeardOf
  <2>5. CASE Goes(t, "check", on[t]) /\ UNCHANGED <<found, solving, verified>>
    BY <2>2, <2>5
  <2> QED BY <1>2, <2>3, <2>4, <2>5 DEF Get
<1>3. CASE Unmute(t)
  <2>1. /\ Goes(t, "idle", NoChallenge) /\ solving' = solving \ {t} /\ UNCHANGED <<stored, verified, failed>>
        /\ member' \notin {"muted", "mutedOut"} /\ (member' = "member" => member \in {"muted", "member"})
    BY <1>3 DEF Unmute, Done, storeVars, historyVars
  <2>2. Covered => Covered'
    BY <2>1, StaysCovered DEF Ending
  <2>3. Solving'
    BY <2>1, StaysSolving
  <2> QED BY <2>1, <2>2, <2>3 DEF Attended, Asked, HeardOf
<1>4. CASE UnmuteFails(t)
  <2>1. Goes(t, "idle", NoChallenge) /\ solving' = solving \ {t} /\ "captcha" \in failed'
    BY <1>4 DEF UnmuteFails, Done, Incident
  <2> QED BY <2>1, StaysSolving, CoveredAttends
<1> QED BY <1>1, <1>2, <1>3, <1>4 DEF TapStep

LEMMA KickAttended ==
  ASSUME IInv, Attended, NEW p \in Actors, KickStep(p)
  PROVE  Attended'
<1> TypeOK /\ Solving
  BY DEF IInv, Attended
<1>1. /\ at[p] \in {"check", "ban", "unban"} /\ p \notin solving
      /\ failed \subseteq failed' /\ verified' = verified /\ stored' = stored
  BY DEF KickStep, Check, Ban, BanFails, Unban, UnbanFails, Incident, Solving, storeVars, historyVars
<1>2. ASSUME NEW place, NEW c, Goes(p, place, c), solving' = solving,
             member' \in {"left", "admin", "banned"}
      PROVE  Attended'
  BY <1>1, <1>2, StaysSolving DEF Attended, Asked, HeardOf
<1>3. ASSUME NEW place, NEW c, Goes(p, place, c), solving' = solving, member' = member \/ member' = "left",
             place \notin Ending \/ (at[p] \in Ending /\ c = on[p])
      PROVE  Attended'
  <2>1. Covered => Covered'
    BY <1>1, <1>3, StaysCovered DEF AtWork
  <2> QED BY <1>1, <1>3, <2>1, StaysSolving, StaysAttended
<1>4. CASE Check(p)
  BY <1>2, <1>3, <1>4 DEF Check, Ending
<1>5. CASE Ban(p)
  BY <1>2, <1>5 DEF Ban
<1>6. CASE BanFails(p)
  <2>1. Goes(p, "idle", NoChallenge) /\ solving' = solving
    BY <1>1, <1>6 DEF BanFails, Done
  <2> QED BY <1>2, <1>3, <1>6, <2>1 DEF BanFails, Ending
<1>7. CASE Unban(p) \/ UnbanFails(p)
  BY <1>3, <1>7 DEF Unban, UnbanFails, Ending
<1> QED BY <1>4, <1>5, <1>6, <1>7 DEF KickStep

LEMMA DeleteAttended ==
  ASSUME IInv, Attended, NEW p \in Actors, DeleteStep(p)
  PROVE  Attended'
<1> TypeOK /\ Solving
  BY DEF IInv, Attended
<1>1. CASE Find(p)
  <2>1. Goes(p, "erase", on[p]) /\ at[p] = "find" /\ stored' = stored /\ solving' = solving
    BY <1>1 DEF Find, Goes, TypeOK, storeVars
  <2>2. Covered => Covered'
    BY <2>1, StaysCovered DEF Ending, AtWork
  <2> QED BY <1>1, <2>1, <2>2, StaysSolving, StaysAttended DEF Find, historyVars
<1>2. ASSUME AfterDelete(p) \/ Done(p), at[p] = "erase"
      PROVE  /\ Solving'
             /\ \E place \in {"mute", "unmute", "idle"}, c \in {NoChallenge, on[p]} :
                  /\ Goes(p, place, c) /\ (place = "unmute" => c = on[p])
                  /\ p \in solving /\ p \notin Joins /\ AfterDelete(p) => solving' = solving
                  /\ p \notin solving => solving' = solving
                  /\ p \in Joins /\ AfterDelete(p) => place = "mute"
  <2>1. CASE Done(p)
    <3>1. Solving'
      BY <2>1, StaysSolving DEF Done
    <3>2. p \in solving => p \notin Joins
      BY ActorsAssumption DEF TypeOK
    <3>3. AfterDelete(p) /\ p \in solving => Goes(p, "unmute", on[p])
      BY <3>2 DEF AfterDelete
    <3>4. AfterDelete(p) /\ p \in Joins => Goes(p, "mute", NoChallenge)
      BY <3>2 DEF AfterDelete
    <3>5. ~ (AfterDelete(p) /\ (p \in solving \/ p \in Joins))
      BY <2>1, <3>3, <3>4 DEF Done, Goes, TypeOK
    <3> QED BY <2>1, <3>1, <3>5 DEF Done
  <2>2. CASE AfterDelete(p) /\ p \in Joins
    <3>1. p \notin solving
      BY <2>2, ActorsAssumption DEF TypeOK
    <3>2. Goes(p, "mute", NoChallenge) /\ solving' = solving
      BY <2>2, <3>1 DEF AfterDelete
    <3> QED BY <3>1, <3>2, StaysSolving
  <2>3. CASE AfterDelete(p) /\ p \notin Joins /\ p \in solving
    <3>1. Goes(p, "unmute", on[p]) /\ solving' = solving
      BY <2>3 DEF AfterDelete
    <3> QED BY <2>3, <3>1, StaysSolving
  <2>4. CASE AfterDelete(p) /\ p \notin Joins /\ p \notin solving
    <3>1. Done(p)
      BY <2>4 DEF AfterDelete
    <3>2. Goes(p, "idle", NoChallenge) /\ solving' = solving
      BY <2>4, <3>1 DEF Done
    <3> QED BY <2>4, <3>2, StaysSolving
  <2> QED BY <1>2, <2>1, <2>2, <2>3, <2>4
<1>3. CASE EraseFails(p)
  <2>1. at[p] = "erase" /\ "captcha" \in failed' /\ (AfterDelete(p) \/ Done(p))
    BY <1>3 DEF EraseFails, Incident
  <2> QED BY <1>2, <2>1, CoveredAttends
<1>4. CASE Erase(p)
  <2>1. /\ at[p] = "erase" /\ AfterDelete(p) /\ stored' = stored \ {on[p]}
        /\ UNCHANGED <<member, verified, failed>>
    BY <1>4 DEF Erase, historyVars
  <2>2. PICK place \in {"mute", "unmute", "idle"}, c \in {NoChallenge, on[p]} :
          /\ Goes(p, place, c) /\ (place = "unmute" => c = on[p])
          /\ p \notin Joins => solving' = solving
          /\ p \in Joins => place = "mute"
    BY <1>2, <2>1
  <2>3. /\ at'[p] = place /\ on'[p] = c
        /\ \A q \in Actors \ {p} : at'[q] = at[q] /\ on'[q] = on[q]
    BY <2>2 DEF Goes, TypeOK
  <2>4. CASE p \in Joins
    <3>1. Covered'
      BY <2>2, <2>3, <2>4 DEF Covered, Joining, AtWork
    <3> QED BY <1>2, <2>1, <3>1, CoveredAttends
  <2>5. CASE p \notin Joins
    <3>1. ASSUME Joining PROVE Covered'
      BY <2>3, <2>5, <3>1, ActorSets DEF Covered, Joining
    <3>2. ASSUME NEW d \in stored, ~Doomed(d) PROVE Covered'
      <4>1. d # on[p] /\ d \in stored'
        BY <2>1, <2>5, <3>2 DEF Doomed, Ending
      <4>2. ~Doomed(d)'
        BY <2>1, <2>2, <2>3, <2>5, <3>2, <4>1 DEF Doomed, Ending
      <4> QED BY <4>1, <4>2 DEF Covered
    <3>3. Covered => Covered'
      BY <3>1, <3>2 DEF Covered
    <3> QED BY <1>2, <2>1, <2>2, <2>5, <3>3, StaysAttended
  <2> QED BY <2>4, <2>5
<1> QED BY <1>1, <1>3, <1>4 DEF DeleteStep

LEMMA OtherAttended ==
  ASSUME IInv, Attended,
         \/ MoveAbout \/ Lift \/ List \/ Crash
         \/ \E c \in Challenges : Expire(c) \/ Take(c)
         \/ UNCHANGED vars
  PROVE  Attended'
<1> TypeOK /\ Solving
  BY DEF IInv, Attended
<1>1. ASSUME UNCHANGED <<stored, at, on, solving, verified, failed>>,
             \/ member' = member \/ member' \in {"left", "admin"}
             \/ member = "mutedOut" /\ member' = "muted"
             \/ member = "muted" /\ member' \in {"mutedOut", "member"}
      PROVE  Attended'
  BY <1>1 DEF Attended, Solving, Asked, HeardOf, Covered, Joining, Doomed
<1>2. CASE MoveAbout \/ Lift
  BY <1>1, <1>2 DEF MoveAbout, Lift, storeVars, workVars, historyVars
<1>3. CASE List \/ UNCHANGED vars \/ \E c \in Challenges : Expire(c)
  BY <1>1, <1>3 DEF List, vars, Expire, storeVars, workVars, historyVars
<1>4. CASE Crash
  BY <1>4 DEF Crash, Attended, Solving
<1>5. ASSUME NEW c \in Challenges, Take(c) PROVE Attended'
  <2>1. /\ Goes(Sweeper, "check", c) /\ solving' = solving /\ stored' = stored /\ Sweeper \in Actors
        /\ Sweeper \notin solving /\ Sweeper \notin Joins
    BY <1>5, ActorSets, ActorsAssumption DEF Take, storeVars, TypeOK
  <2>2. Covered => Covered'
    BY <2>1, StaysCovered DEF Ending
  <2> QED BY <1>5, <2>1, <2>2, StaysSolving, StaysAttended DEF Take, historyVars
<1> QED BY <1>2, <1>3, <1>4, <1>5

(***************************************************************************)
(* Whatever joins, taps and sweeps overlap, a newcomer who has not         *)
(* answered, and anyone who is muted, has an open challenge or somebody at *)
(* work, unless posting or storing failed or the process died              *)
(* (service.go:50-201).                                                    *)
(***************************************************************************)
THEOREM NobodyForgottenCorrect == Spec => []NobodyForgotten
  <1>1. Init => IInv /\ Attended
    BY InitType, ActorSets DEF Init, IInv, Fresh, Blind, IndexLive, Attended, Solving, Asked, HeardOf
  <1>2. IInv /\ Attended /\ [Next]_vars => (IInv /\ Attended)'
    BY StepIndex, JoinAttended, TapAttended, KickAttended, DeleteAttended, OtherAttended DEF Next
  <1>3. IInv /\ Attended => NobodyForgotten
    <2> SUFFICES ASSUME IInv, Attended, "captcha" \notin failed,
                        member = "muted" \/ (member = "member" /\ ~verified)
                 PROVE  stored # {} \/ Busy
      BY DEF NobodyForgotten
    <2>1. Covered \/ solving # {}
      BY DEF Attended, Asked, HeardOf, IInv, TypeOK
    <2>2. CASE Covered
      BY <2>2, ActorSets DEF Covered, Joining, AtWork, Busy
    <2>3. CASE solving # {}
      BY <2>3, ActorSets DEF Attended, Solving, Busy, IInv, TypeOK
    <2> QED BY <2>1, <2>2, <2>3
  <1> QED BY <1>1, <1>2, <1>3, PTL DEF Spec
=============================================================================
