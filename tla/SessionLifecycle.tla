-------------------------- MODULE SessionLifecycle --------------------------
(***************************************************************************)
(* What a verification session promises, whatever stores and handlers are  *)
(* used to keep it: it is created pending, and a final status is only ever *)
(* written on evidence -- a presentation the Verified ID service accepted, *)
(* one it refused, a lockout earned by wrong codes, or the passing of the  *)
(* session's expiry time.                                                  *)
(*                                                                         *)
(* Spec is the life cycle the documentation draws                          *)
(* (pending -> verified | expired | failed, and nothing afterwards).       *)
(* LossySpec is what remains when two writers may overwrite one another:   *)
(* every status is still backed by evidence, but it is not final.          *)
(***************************************************************************)
CONSTANT Sessions

VARIABLES
  status,      \* the status a reader of the session sees
  presented,   \* sessions for which a credential was presented and accepted
  refused,     \* sessions for which the presentation ended in an error
  lockedOut,   \* sessions that earned their lockout by wrong codes
  late         \* sessions past their expiry time

vars == <<status, presented, refused, lockedOut, late>>

Final == {"verified", "failed", "expired"}

LifecycleTypeOK ==
  /\ status \in [Sessions -> {"absent", "pending"} \cup Final]
  /\ presented \subseteq Sessions
  /\ refused \subseteq Sessions
  /\ lockedOut \subseteq Sessions
  /\ late \subseteq Sessions

Init ==
  /\ status = [s \in Sessions |-> "absent"]
  /\ presented = {}
  /\ refused = {}
  /\ lockedOut = {}
  /\ late = {}

\* Evidence is never taken back.
EvidenceGrows ==
  /\ presented \subseteq presented'
  /\ refused \subseteq refused'
  /\ lockedOut \subseteq lockedOut'
  /\ late \subseteq late'

\* The evidence each final status needs, the one that arrives with it included.
Justified(s, verdict) ==
  /\ verdict = "verified" => s \in presented'
  /\ verdict = "failed" => s \in refused' \cup lockedOut'
  /\ verdict = "expired" => s \in late'

Create(s) ==
  /\ status[s] = "absent"
  /\ status' = [status EXCEPT ![s] = "pending"]

Decide(s, verdict) ==
  /\ status[s] = "pending"
  /\ Justified(s, verdict)
  /\ status' = [status EXCEPT ![s] = verdict]

\* A writer that read the session earlier puts its own status over whatever
\* has been written in between.
Overwrite(s, verdict) ==
  /\ status[s] # "absent"
  /\ Justified(s, verdict)
  /\ status' = [status EXCEPT ![s] = verdict]

Next ==
  /\ EvidenceGrows
  /\ \/ UNCHANGED status
     \/ \E s \in Sessions : Create(s)
     \/ \E s \in Sessions, verdict \in Final : Decide(s, verdict)

LossyNext ==
  /\ EvidenceGrows
  /\ \/ UNCHANGED status
     \/ \E s \in Sessions : Create(s)
     \/ \E s \in Sessions, verdict \in Final \cup {"pending"} :
           Overwrite(s, verdict)

Spec == Init /\ [][Next]_vars

LossySpec == Init /\ [][LossyNext]_vars

=============================================================================
