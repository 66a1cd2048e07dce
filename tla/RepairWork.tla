------------------------------ MODULE RepairWork ------------------------------
(***************************************************************************)
(* The repair of the damaged shards of one stripe: the jobs, leases, plans  *)
(* and effects the metadata authority keeps, the workers that run them, and *)
(* the storage target (TargetStore) that takes the replacements.            *)
(*                                                                         *)
(* Source: crates/meshspan-metadata/src/repository/maintenance_work.rs and  *)
(* maintenance_work/repair*.rs (the commands, each one transaction),        *)
(* crates/meshspan-daemon/src/appliance_repair*.rs and                      *)
(* shard_repair_worker.rs (a worker), scrub_finding_scheduler.rs (jobs),    *)
(* crates/meshspan-filesystem/src/content_repair/resume.rs and              *)
(* content_catalog/protection/repair.rs.                                    *)
(*                                                                         *)
(* A worker runs one attempt at a time, so the claim generation and the     *)
(* fence, which tell attempts apart, are the identity of the holder: a new  *)
(* claim needs the old one to be expired, and replaces it.  The commands of *)
(* an attempt carry the time of its plan, so the authority sees that a      *)
(* lease is over only when somebody else has claimed the job.  A command    *)
(* whose reply is lost is a step followed by Abandon.                       *)
(***************************************************************************)
EXTENDS Naturals, Sequences, FiniteSets, FiniteSetsExt, SequencesExt

CONSTANTS
  Indexes,    \* the damaged shards of the stripe that are followed
  Workers,    \* nodes that run maintenance
  MaxOthers,  \* bound on the repairs of other shards of the stripe
  Attempts,   \* provider operation identities, per shard index
  None

Layouts == 1..(Cardinality(Indexes) + MaxOthers)

\* A repair job names a shard and the layout it starts from.  Every shard is
\* repaired once, which bounds the layouts.
Jobs == Indexes \X Layouts

Puts == Indexes \X Attempts

VARIABLES
  state,     \* maintenance_work_jobs.state
  holder,    \* the worker of the active claim, by job
  expired,   \* jobs whose active lease is over
  intent,    \* maintenance_repair_attempts: the provider operation, by job
  planned,   \* jobs whose retained plan names the active claim
  layout,    \* maintenance_repair_effects in order of revision
  known,     \* the layout generation in the catalogue of each worker
  task,      \* what each worker does next
  \* and those of the target the replacements go to:
  reservation, operation, inventory, tombstone, route, segment, reserved, committed, backup,
  file, receipts, call, late

authority == <<state, holder, expired, intent, planned, layout>>
workers == <<known, task>>
store == <<reservation, operation, inventory, tombstone, route, segment, reserved, committed,
           backup, file, receipts, call, late>>
vars == <<authority, workers, store>>

\* Room for every attempt, whose bytes count twice until they are committed.
Room == 2 * Cardinality(Puts)

Target ==
  INSTANCE TargetStore WITH
    Shards <- Indexes, RepairPuts <- Puts, Removals <- {}, Backups <- {},
    ShardOf <- [o \in Puts |-> o[1]],
    Maximum <- [o \in Puts |-> 1],
    Length <- [i \in Indexes |-> 1],
    Ceiling <- Room, Disk <- Room, RepairReserve <- 0,
    PackRecords <- Cardinality(Indexes), MaxPacks <- 1

ASSUME WorkAssumption ==
  /\ IsFiniteSet(Indexes) /\ Attempts \subseteq Nat /\ MaxOthers \in Nat
  /\ None \notin Workers \cup Indexes \cup Puts \cup Target!Packs \cup Target!Calls

Generation == Len(layout) + 1

HasEffect(j) == Contains(layout, j)

Others == Cardinality({k \in 1..Len(layout) : layout[k][1] = None})

\* The shards whose replacement the catalogue of w knows.
Replaced(w) == {layout[k][1] : k \in 1..(known[w] - 1)}

AtStep(w, step) == task[w] # None /\ task[w].step = step

Job(w) == task[w].job

Goto(w, step) == task' = [task EXCEPT ![w].step = step]

Idle(w) == task' = [task EXCEPT ![w] = None]
-----------------------------------------------------------------------------
(* Jobs and claims.                                                         *)

\* queue_repair, and queue of a job that does not exist: a scrub of the source
\* finds the copy damaged and the local catalogue still routes to it.
Queue(w, i) ==
  LET j == <<i, known[w]>>
  IN  /\ i \notin Replaced(w)
      /\ state[j] = "None"
      /\ state' = [state EXCEPT ![j] = "Queued"]
      /\ UNCHANGED <<holder, expired, intent, planned, layout, workers, store>>

\* Mutant: a claim is never taken over.
Ready_Unclaimed(j) == state[j] = "Queued"

\* ready_page and current_assignment.
Ready(j) == state[j] = "Queued" \/ (state[j] = "Claimed" /\ j \in expired)

Take(w, j, step) ==
  /\ task[w] = None /\ Ready(j)
  /\ state' = [state EXCEPT ![j] = "Claimed"]
  /\ holder' = [holder EXCEPT ![j] = w]
  /\ expired' = expired \ {j}
  /\ planned' = planned \ {j}
  /\ task' = [task EXCEPT ![w] = [job |-> j, step |-> step]]
  /\ UNCHANGED <<intent, layout, known, store>>

\* execute_repair_assignment up to the claim, which supersedes a former one: the
\* source must be current in the local catalogue.  The effects of the job were
\* read from a replica that may lag.
Claim(w, j) ==
  /\ known[w] = j[2] /\ j[1] \notin Replaced(w)
  /\ Take(w, j, "Plan")

\* Mutant: a committed effect is taken for a repair that is done.
ClaimEffect_Never(w, j) == FALSE

\* recover_committed_effect: the effect is read and projected, then claimed for.
ClaimEffect(w, j) ==
  /\ HasEffect(j) /\ known[w] > j[2]
  /\ Take(w, j, "CompleteEffect")

\* require_live_claim, for a command as old as its plan.
Live(w) == state[Job(w)] = "Claimed" /\ holder[Job(w)] = w
-----------------------------------------------------------------------------
(* One attempt.                                                             *)

\* validate_source and ensure_repair_stripe: the layout has not moved and the
\* job has no effect.
SourceIsCurrent(j) == Generation = j[2] /\ ~HasEffect(j)

Fresh(i) == {<<i, n>> : n \in Attempts} \ Range(intent)

\* Mutant: a takeover selects a new replacement.
Selected_Anew(j) == CHOOSE o \in Fresh(j[1]) : \A p \in Fresh(j[1]) : o[2] <= p[2]

\* The retained intent, or a fresh operation identity: their names are
\* interchangeable, the lowest is taken.
Selected(j) ==
  IF intent[j] # None THEN intent[j]
  ELSE CHOOSE o \in Fresh(j[1]) : \A p \in Fresh(j[1]) : o[2] <= p[2]

CanPlan(w) == Live(w) /\ SourceIsCurrent(Job(w)) /\ (intent[Job(w)] = None => Fresh(Job(w)[1]) # {})

\* RepairAttempt::plan and the command PlanShardRepair.
Plan(w) ==
  /\ AtStep(w, "Plan") /\ CanPlan(w)
  /\ intent' = [intent EXCEPT ![Job(w)] = Selected(Job(w))]
  /\ planned' = planned \cup {Job(w)}
  /\ Goto(w, "Prepare")
  /\ UNCHANGED <<state, holder, expired, layout, known, store>>

\* Mutant: the claim row stays active.
EndClaim_StaysActive(w, next) ==
  /\ state' = [state EXCEPT ![Job(w)] = next]
  /\ Idle(w)
  /\ UNCHANGED <<holder, expired, intent, planned, layout, known, store>>

\* complete: the claim is over, the job in its next state.
EndClaim(w, next) ==
  /\ state' = [state EXCEPT ![Job(w)] = next]
  /\ holder' = [holder EXCEPT ![Job(w)] = None]
  /\ expired' = expired \ {Job(w)}
  /\ planned' = planned \ {Job(w)}
  /\ Idle(w)
  /\ UNCHANGED <<intent, layout, known, store>>

\* No destination is eligible: defer, and complete with Retry at the present
\* time.
Defer(w) ==
  /\ AtStep(w, "Plan") /\ Live(w) /\ Job(w) \notin expired
  /\ intent[Job(w)] = None
  /\ EndClaim(w, "Queued")

\* resume_repair: prepare_repair_put, which may find the bytes.
Prepare(w) ==
  /\ AtStep(w, "Prepare")
  /\ Target!PrepareRepairPut(intent[Job(w)])
  /\ Goto(w, IF call' = None THEN "Finish" ELSE "Receipt")
  /\ UNCHANGED <<authority, known>>

\* finish_repair_put, with the reconstructed bytes.
Finish(w) ==
  /\ AtStep(w, "Finish")
  /\ Target!FinishRepairPut(intent[Job(w)])
  /\ Goto(w, "Receipt")
  /\ UNCHANGED <<authority, known>>

\* Mutant: the admission of the write is taken for its receipt.
HasReceipt_Prepared(w) == call = None /\ operation[intent[Job(w)]] # "None"

\* resolve_put finds the operation committed.
HasReceipt(w) == call = None /\ operation[intent[Job(w)]] = "Committed"

\* The target answers, at once if another attempt has finished the same write.
Receive(w) ==
  /\ AtStep(w, "Prepare") \/ AtStep(w, "Finish") \/ AtStep(w, "Receipt")
  /\ HasReceipt(w)
  /\ Goto(w, "Effect")
  /\ UNCHANGED <<authority, known, store>>

\* Mutant: the effect is not compared with the current layout.
CanCommit_AnyLayout(w) == Live(w) /\ Job(w) \in planned /\ ~HasEffect(Job(w))

\* repair::commit: the live claim, its plan, and the layout the job starts from.
CanCommit(w) == Live(w) /\ Job(w) \in planned /\ SourceIsCurrent(Job(w))

CommitRepair(w) ==
  /\ AtStep(w, "Effect") /\ CanCommit(w)
  /\ layout' = Append(layout, Job(w))
  /\ Goto(w, "Complete")
  /\ UNCHANGED <<state, holder, expired, intent, planned, known, store>>

\* The repair of a shard that is not followed here commits.
CommitOther ==
  /\ Others < MaxOthers
  /\ layout' = Append(layout, <<None, Generation>>)
  /\ UNCHANGED <<state, holder, expired, intent, planned, workers, store>>

\* complete with Succeeded: validate_effect.  complete_existing_effect takes the
\* present time, an attempt the time of its plan.
CanComplete(w) ==
  /\ Live(w) /\ HasEffect(Job(w))
  /\ AtStep(w, "CompleteEffect") => Job(w) \notin expired

Complete(w) ==
  /\ AtStep(w, "Complete") \/ AtStep(w, "CompleteEffect")
  /\ CanComplete(w)
  /\ EndClaim(w, "Complete")

\* The command is refused, or the target failed.
Refused(w) ==
  \/ AtStep(w, "Plan") /\ ~CanPlan(w)
  \/ AtStep(w, "Receipt") /\ call = None /\ ~HasReceipt(w)
  \/ AtStep(w, "Effect") /\ ~CanCommit(w)
  \/ (AtStep(w, "Complete") \/ AtStep(w, "CompleteEffect")) /\ ~CanComplete(w)

\* The attempt ends with its error.
Fail(w) ==
  /\ Refused(w)
  /\ Idle(w)
  /\ UNCHANGED <<authority, known, store>>

\* The worker stops, loses a reply, or finds its lease over
\* (require_live_execution) before any of its steps.
Abandon(w) ==
  /\ task[w] # None
  /\ Idle(w)
  /\ UNCHANGED <<authority, known, store>>
-----------------------------------------------------------------------------
(* Time, projection and the target.                                         *)

\* The lease of the active claim runs out.
Expire(j) ==
  /\ state[j] = "Claimed" /\ j \notin expired
  /\ expired' = expired \cup {j}
  /\ UNCHANGED <<state, holder, intent, planned, layout, workers, store>>

\* project_manifest, and install_shard_repair at the end of an attempt: the next
\* committed effect, one transaction each.
Project(w) ==
  /\ known[w] < Generation
  /\ known' = [known EXCEPT ![w] = @ + 1]
  /\ UNCHANGED <<authority, task, store>>

\* The target goes on with the call it has accepted, or crashes.
StoreStep ==
  /\ \E o \in Puts : Target!PutPack(o) \/ Target!CommitPut(o)
  /\ UNCHANGED <<authority, workers>>

StoreCrash == Target!Crash /\ UNCHANGED <<authority, workers>>
-----------------------------------------------------------------------------
Init ==
  /\ state = [j \in Jobs |-> "None"]
  /\ holder = [j \in Jobs |-> None]
  /\ expired = {}
  /\ intent = [j \in Jobs |-> None]
  /\ planned = {}
  /\ layout = <<>>
  /\ known = [w \in Workers |-> 1]
  /\ task = [w \in Workers |-> None]
  /\ Target!Init

\* What a worker does of itself once it has begun.
Proceed(w) ==
  \/ Plan(w) \/ Prepare(w) \/ Finish(w) \/ Receive(w) \/ CommitRepair(w) \/ Complete(w) \/ Fail(w)

Next ==
  \/ \E w \in Workers : \/ \E i \in Indexes : Queue(w, i)
                        \/ \E j \in Jobs : Claim(w, j) \/ ClaimEffect(w, j)
                        \/ Proceed(w) \/ Defer(w) \/ Abandon(w) \/ Project(w)
  \/ \E j \in Jobs : Expire(j)
  \/ CommitOther
  \/ StoreStep
  \/ StoreCrash

Spec == Init /\ [][Next]_vars

\* Fairness.  Workers stop failing, the target stops crashing, destinations are
\* found, and leases come to outlast the attempts they are for; scrubs are
\* periodic, the dispatcher's cursor visits every ready job, and projection
\* visits every manifest.
Attended(j) == holder[j] # None /\ task[holder[j]] # None /\ Job(holder[j]) = j

Calm ==
  /\ \A w \in Workers :
       task[w] # None /\ task'[w] = None => Refused(w) \/ state'[Job(w)] = "Complete"
  /\ call # None /\ call' = None => operation' # operation
  /\ \A j \in expired' \ expired : ~Attended(j)

Fairness ==
  /\ <>[][Calm]_vars
  /\ WF_vars(StoreStep)
  /\ \A j \in Jobs : WF_vars(Expire(j))
  /\ \A i \in Indexes : WF_vars(\E w \in Workers : Queue(w, i))
  /\ \A w \in Workers : WF_vars(Project(w)) /\ WF_vars(Proceed(w))
  /\ \A j \in Jobs : SF_vars(\E w \in Workers : Claim(w, j) \/ ClaimEffect(w, j))

FairSpec == Spec /\ Fairness
-----------------------------------------------------------------------------
(* What repair promises.                                                    *)

Steps == {"Plan", "Prepare", "Finish", "Receipt", "Effect", "Complete", "CompleteEffect"}

\* Rows are in the states the schema allows, and a claimed job has a holder.
TypeOK ==
  /\ state \in [Jobs -> {"None", "Queued", "Claimed", "Complete"}]
  /\ holder \in [Jobs -> Workers \cup {None}]
  /\ \A j \in Jobs : holder[j] # None <=> state[j] = "Claimed"
  /\ expired \subseteq Jobs /\ planned \subseteq Jobs
  /\ intent \in [Jobs -> Puts \cup {None}]
  /\ layout \in Seq((Indexes \cup {None}) \X Layouts)
  /\ known \in [Workers -> 1..Generation]
  /\ \A w \in Workers : task[w] = None \/ task[w] \in [job : Jobs, step : Steps]

\* The stripe's routes change one at a time: every effect starts from the
\* layout the one before it left, and replaces a shard that was not replaced,
\* so no concurrent repair undoes another (ensure_repair_stripe).
LayoutsAreSerial ==
  /\ \A k \in 1..Len(layout) : layout[k][2] = k
  /\ \A k, l \in 1..Len(layout) : layout[k][1] = layout[l][1] => k = l \/ layout[k][1] = None

\* A route never names bytes the target may not hold: the replacement of every
\* effect is committed and readable there, whoever wrote it and whatever was
\* superseded meanwhile (execute_shard_repair, finish_repair_put).
RoutesAreStored ==
  \A k \in {l \in 1..Len(layout) : layout[l][1] # None} :
    operation[intent[layout[k]]] = "Committed" /\ Target!Content(layout[k][1]) = "Stored"

\* Whatever a worker makes a target prepare is named by a plan the authority
\* retains, so that a later owner finds it again and no bytes are orphaned by a
\* takeover (RepairAttempt::plan, validate_takeover).
WritesAreRetained ==
  \A o \in Puts : operation[o] # "None" => o \in Range(intent)

\* Every damaged shard is replaced in the end, whichever workers, replies and
\* leases are lost on the way, and although a repair of another shard of the
\* stripe makes its job obsolete (execute_repair_assignment, queue_repair).
DamageIsRepaired == \A i \in Indexes : <>(\E k \in 1..Len(layout) : layout[k][1] = i)

\* A job whose effect is committed is closed in the end, also by a worker that
\* had no part in it (recover_committed_effect).
EffectsAreClosed == \A j \in Jobs : HasEffect(j) ~> state[j] = "Complete"
=============================================================================
