------------------------------ MODULE JobControl ------------------------------
(***************************************************************************)
(* What the job registry and the status monitor of cush promise, per job:  *)
(* a status and the number of members not yet known to have terminated.    *)
(* A job is registered under the lowest free jid with every member alive,  *)
(* as FOREGROUND only if no other job is; each observed termination of a   *)
(* member lowers the count by one and the last one makes the job DONE or   *)
(* TERMINATED; a stop report makes it STOPPED or NEEDSTERMINAL; the        *)
(* dispatcher moves it to the foreground (when no other job is there) or   *)
(* the background; it is removed only once no member is alive, except     *)
(* that shutdown drops every job.                                          *)
(***************************************************************************)
EXTENDS Naturals, FiniteSetsExt

CONSTANTS JobIds,      \* the jid slots
          MaxMembers,  \* most processes in one job
          NoJob        \* an empty slot

VARIABLE ajobs

Active == {j \in JobIds : ajobs[j] # NoJob}
NoOtherForeground(j) ==
  \A k \in Active \ {j} : ajobs[k].status # "FOREGROUND"

Init == ajobs = [j \in JobIds |-> NoJob]

Register(j, n, st) ==
  /\ ajobs[j] = NoJob
  /\ \A k \in JobIds : k < j => ajobs[k] # NoJob
  /\ n \in 1..MaxMembers
  /\ st \in {"FOREGROUND", "BACKGROUND"}
  /\ st = "FOREGROUND" => NoOtherForeground(j)
  /\ ajobs' = [ajobs EXCEPT ![j] = [status |-> st, alive |-> n]]

(* A member's termination observed: normal exit (DONE) or signal death    *)
(* (TERMINATED) when it was the last one.                                  *)
MemberTerminated(j, last) ==
  /\ j \in Active
  /\ ajobs[j].alive > 0
  /\ ajobs' = [ajobs EXCEPT ![j] =
                 [status |-> IF ajobs[j].alive = 1 THEN last ELSE @.status,
                  alive |-> @.alive - 1]]

MemberStopped(j, st) ==
  /\ j \in Active
  /\ ajobs[j].alive > 0
  /\ ajobs' = [ajobs EXCEPT ![j].status = st]

Foreground(j) ==
  /\ j \in Active
  /\ NoOtherForeground(j)
  /\ ajobs' = [ajobs EXCEPT ![j].status = "FOREGROUND"]

Background(j) ==
  /\ j \in Active
  /\ ajobs[j].status # "BACKGROUND"
  /\ ajobs' = [ajobs EXCEPT ![j].status = "BACKGROUND"]

Remove(S) ==
  /\ S # {}
  /\ S \subseteq Active
  /\ \A j \in S : ajobs[j].alive = 0
  /\ ajobs' = [j \in JobIds |-> IF j \in S THEN NoJob ELSE ajobs[j]]

Shutdown ==
  ajobs' = [j \in JobIds |-> NoJob]

Next ==
  \/ \E j \in JobIds, n \in 1..MaxMembers, st \in {"FOREGROUND", "BACKGROUND"} :
       Register(j, n, st)
  \/ \E j \in JobIds, last \in {"DONE", "TERMINATED"} : MemberTerminated(j, last)
  \/ \E j \in JobIds, st \in {"STOPPED", "NEEDSTERMINAL"} : MemberStopped(j, st)
  \/ \E j \in JobIds : Foreground(j) \/ Background(j)
  \/ \E S \in SUBSET JobIds : Remove(S)
  \/ Shutdown

Spec == Init /\ [][Next]_ajobs

(* At most one job is in the foreground.                                   *)
OneForeground ==
  \A j, k \in Active : ajobs[j].status = "FOREGROUND"
                       /\ ajobs[k].status = "FOREGROUND" => j = k

=============================================================================
