---------------------------- MODULE SessionServer ----------------------------
(***************************************************************************)
(* What a page that follows a session may rely on: the lossy life cycle of *)
(* its status, and who tells of it.  A verification is only ever written   *)
(* by a callback, and the callback that wrote it then owes the session's   *)
(* group the event, until it is sent or lost.  The other writers -- sweep, *)
(* lockout, a stale pending copy -- tell nobody.                           *)
(***************************************************************************)
EXTENDS SessionLifecycle

CONSTANT Callbacks   \* the callbacks that may be under way at once

VARIABLE owed        \* the session and event each of them has yet to send

serverVars == <<vars, owed>>

Events == {"VerificationComplete", "VerificationFailed"}

ServerTypeOK ==
  /\ LifecycleTypeOK
  /\ owed \in [Callbacks -> (Sessions \X Events) \cup {<<>>}]

ServerInit ==
  /\ Init
  /\ owed = [c \in Callbacks |-> <<>>]

\* A failure nobody is told of is a lockout.
Quietly(s, verdict) ==
  /\ verdict \in {"pending", "failed", "expired"}
  /\ verdict = "failed" => s \in lockedOut'
  /\ Overwrite(s, verdict)
  /\ UNCHANGED owed

\* The failure a callback reports is a refused presentation.
Reported(c, s, verdict) ==
  /\ owed[c] = <<>>
  /\ verdict \in {"verified", "failed"}
  /\ verdict = "failed" => s \in refused'
  /\ Overwrite(s, verdict)
  /\ owed' = [owed EXCEPT ![c] = <<s, IF verdict = "verified" THEN "VerificationComplete"
                                                           ELSE "VerificationFailed">>]

SentOrLost(c) ==
  /\ owed[c] # <<>>
  /\ owed' = [owed EXCEPT ![c] = <<>>]
  /\ UNCHANGED status

ServerNext ==
  /\ EvidenceGrows
  /\ \/ UNCHANGED <<status, owed>>
     \/ \E s \in Sessions : Create(s) /\ UNCHANGED owed
     \/ \E s \in Sessions, verdict \in Final \cup {"pending"} :
          \/ Quietly(s, verdict)
          \/ \E c \in Callbacks : Reported(c, s, verdict)
     \/ \E c \in Callbacks : SentOrLost(c)

ServerSpec == ServerInit /\ [][ServerNext]_serverVars

=============================================================================
