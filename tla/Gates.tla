------------------------------- MODULE Gates --------------------------------
(* Who may have the bot in a chat, how often a command may be called, and  *)
(* by whom: the parts share nothing but the Telegram client.               *)
EXTENDS Admission, Cooldown, AdminCache

\* Those who may not put the bot into a chat do not keep it there, nor reach its
\* owner more often than they may, and those who call too often are let through
\* once per window and told so once.  Who has been demoted is not let through
\* once the bot has handled the update of it.
GatesKept == AdmissionKept /\ CooldownKept /\ RightsCurrent
=============================================================================
