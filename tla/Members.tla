------------------------------ MODULE Members ------------------------------
(***************************************************************************)
(* What the bot remembers of one member of one chat: the record that       *)
(* UpsertMember of src/internal/storage/membership_repo.go merges events   *)
(* into, and the judgements passed on it by domain/cleanup and             *)
(* domain/gracekick.  Times are whole numbers, 0 is Go's zero time.  Names *)
(* and counters are left out: the record of a user seen writing or         *)
(* reacting has a time of it.  A bot, like the anonymous admin's id, is a  *)
(* member that every judgement turns away as it does an administrator.     *)
(***************************************************************************)
EXTENDS Integers, FiniteSets

CONSTANT NoMember

Statuses  == {"member", "administrator", "left", "kicked"}
Protected == {"administrator", "left", "kicked"}

MemberRecords == [msg : Nat, react : Nat, status : Statuses \cup {"unknown"}]

\* No record has the form of the answer "not found".
ASSUME NoMemberAssumption == NoMember \notin MemberRecords

LaterOf(a, b) == IF a > b THEN a ELSE b

\* The record an event finds: the stored one, or the one it begins with.
Current(m) == IF m = NoMember
              THEN [msg |-> 0, react |-> 0, status |-> "unknown"] ELSE m

\* RecordMessage, RecordReaction and RecordChatMember as patches of the record.
UpsertMember(m, e) ==
  [msg    |-> IF e.kind = "message" THEN LaterOf(Current(m).msg, e.at) ELSE Current(m).msg,
   react  |-> IF e.kind = "reaction" THEN LaterOf(Current(m).react, e.at) ELSE Current(m).react,
   status |-> IF e.kind = "message" THEN "member"
              ELSE IF e.kind = "reaction" THEN Current(m).status ELSE e.kind]

\* Mutation: an act in the very second of the warning does not count.
SeenAfter(ts, since) == ts # 0 /\ ts > since

\* The boundary counts: times are whole seconds.
SeenAtOrAfter(ts, since) == ts # 0 /\ ts >= since

ActiveSince(m, since) == SeenAtOrAfter(m.msg, since) \/ SeenAtOrAfter(m.react, since)

EverObserved(m) == m.msg # 0 \/ m.react # 0

IsInactive(m, cutoff) == /\ m.status \notin Protected
                         /\ m.msg <= cutoff
                         /\ m.react <= cutoff

\* A candidate for removal was seen once, and not lately.
IsCandidate(m, cutoff) == /\ m # NoMember
                          /\ IsInactive(m, cutoff)
                          /\ EverObserved(m)
=============================================================================
