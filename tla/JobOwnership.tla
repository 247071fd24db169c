------------------------------ MODULE JobOwnership ------------------------------
(***************************************************************************)
(* What the scheduler promises about who works on a job, with no change    *)
(* ids, clocks, transactions or heartbeats in sight.  A job that runs has   *)
(* one owner; it passes to another worker only after its lease has lapsed;   *)
(* only its owner extends or settles it; a worker that no longer owns the    *)
(* job it claimed can do nothing but give up.                               *)
(*                                                                         *)
(* README.md:10 and :28 name these promises; WorkerPool is shown to keep     *)
(* them.                                                                    *)
(***************************************************************************)
CONSTANTS Workers, JobIds, Nobody, Nothing

VARIABLES
    stage,   \* of each job
    owner,   \* of each job, Nobody unless it runs
    claim    \* the job each worker believes it has, or Nothing

vars == <<stage, owner, claim>>

Stages == {"absent", "waiting", "running", "lapsed", "settled"}

IsOwner(w) == claim[w] # Nothing /\ owner[claim[w]] = w

Init ==
    /\ stage = [j \in JobIds |-> "absent"]
    /\ owner = [j \in JobIds |-> Nobody]
    /\ claim = [w \in Workers |-> Nothing]

Submit(j) ==
    /\ stage[j] = "absent"
    /\ stage' = [stage EXCEPT ![j] = "waiting"]
    /\ UNCHANGED <<owner, claim>>

\* A worker without a claim takes a waiting job, or takes over a lapsed one.
Grant(w, j) ==
    /\ claim[w] = Nothing
    /\ stage[j] \in {"waiting", "lapsed"}
    /\ stage' = [stage EXCEPT ![j] = "running"]
    /\ owner' = [owner EXCEPT ![j] = w]
    /\ claim' = [claim EXCEPT ![w] = j]

\* Leases run out.
Lapse ==
    /\ \E S \in SUBSET {j \in JobIds : stage[j] = "running"} :
         stage' = [j \in JobIds |-> IF j \in S THEN "lapsed" ELSE stage[j]]
    /\ UNCHANGED <<owner, claim>>

\* The owner renews its lease, late or not.
Extend(w) ==
    /\ IsOwner(w)
    /\ stage' = [stage EXCEPT ![claim[w]] = "running"]
    /\ UNCHANGED <<owner, claim>>

\* The owner stores a result: the job is settled, or waits for a retry.
Settle(w) ==
    /\ IsOwner(w)
    /\ \E s \in {"settled", "waiting"} : stage' = [stage EXCEPT ![claim[w]] = s]
    /\ owner' = [owner EXCEPT ![claim[w]] = Nobody]
    /\ claim' = [claim EXCEPT ![w] = Nothing]

\* Workers let go, with or without owning their job; a crash takes all of them.
GiveUp ==
    /\ \E W \in SUBSET Workers :
         claim' = [w \in Workers |-> IF w \in W THEN Nothing ELSE claim[w]]
    /\ UNCHANGED <<stage, owner>>

Next ==
    \/ \E j \in JobIds : Submit(j)
    \/ \E w \in Workers, j \in JobIds : Grant(w, j)
    \/ \E w \in Workers : Extend(w) \/ Settle(w)
    \/ Lapse
    \/ GiveUp

Spec == Init /\ [][Next]_vars
=============================================================================
