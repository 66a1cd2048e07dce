--------------------------- MODULE RepairWorkProofs ---------------------------
(***************************************************************************)
(* Proofs about the repair of one stripe, for any finite set of damaged     *)
(* shards and any sets of workers and attempts.                             *)
(*                                                                         *)
(* WorkInv is inductive.  It follows one replacement from the retained      *)
(* intent through the target to the layout, and says that a job is about a  *)
(* shard no layout before it has replaced.                                  *)
(***************************************************************************)
EXTENDS RepairWork, SequenceTheorems, FiniteSetTheorems, TLAPS

Effects == (Indexes \cup {None}) \X Layouts

\* TypeOK, and what the workers and the target keep.
WorkTypes ==
  /\ TypeOK
  /\ task \in [Workers -> [job : Jobs, step : Steps] \cup {None}]

TargetTypes ==
  /\ operation \in [Puts -> {"None", "Prepared", "Committed"}]
  /\ inventory \in [Indexes -> {"None", "Committed"}]
  /\ route \in [Indexes -> {1, None}]
  /\ file \in [{1} -> [Indexes -> {"None", "Active"}]]

\* The bytes of a shard are in the pack it is routed to.
Holds(i) == route[i] = 1 /\ file[1][i] = "Active"

\* What the target is about to do was prepared, and what it has committed is
\* there to be read.
WritesAreGrounded ==
  \A o \in Puts :
    /\ operation[o] # "None" => route[o[1]] = 1
    /\ operation[o] = "Committed" => inventory[o[1]] = "Committed" /\ Holds(o[1])
    /\ Target!Doing(o, "PutPack") => operation[o] # "None"
    /\ Target!Doing(o, "CommitPut") => operation[o] # "None" /\ Holds(o[1])

\* The intent of a job is a write of its shard.
IntentsAreOwn == \A j \in Jobs : intent[j] # None => intent[j][1] = j[1]

\* A worker past its plan has an intent, and past the receipt a stored one.
WorkersAreGrounded ==
  \A w \in Workers : task[w] # None =>
    /\ task[w].step \in {"Prepare", "Finish", "Receipt", "Effect"} => intent[Job(w)] # None
    /\ task[w].step = "Effect" => operation[intent[Job(w)]] = "Committed"

\* An effect of a followed shard has its intent, and that is stored.
EffectsAreStored ==
  \A k \in 1..Len(layout) : layout[k][1] # None =>
    intent[layout[k]] # None /\ operation[intent[layout[k]]] = "Committed"

\* A job was queued from a layout there was, for a shard that no layout before
\* its own has replaced.
JobsAreNew ==
  \A j \in Jobs : state[j] # "None" =>
    /\ j[2] <= Generation
    /\ \A k \in 1..Len(layout) : k < j[2] => layout[k][1] # j[1]

WorkInv ==
  /\ WorkTypes /\ TargetTypes
  /\ WritesAreGrounded /\ WritesAreRetained /\ IntentsAreOwn /\ WorkersAreGrounded
  /\ EffectsAreStored /\ JobsAreNew /\ LayoutsAreSerial
-----------------------------------------------------------------------------
(* The target.                                                              *)

\* The target has one pack, and a write is of the shard it names.
LEMMA TargetConstants ==
  /\ Target!Packs = {1}
  /\ Target!Operations = Puts
  /\ \A o \in Puts : o[1] \in Indexes /\ [p \in Puts |-> p[1]][o] = o[1]
BY DEF Target!Packs, Target!Operations, Puts

\* A call is over when the target is unlocked (Unlocked).
LEMMA UnlockedCalls ==
  ASSUME NEW o \in Puts, NEW step \in {"PutPack", "CommitPut"}
  PROVE  /\ [op |-> o, step |-> step] \in Target!Calls
         /\ [op |-> o, step |-> step] # None
BY WorkAssumption, TargetConstants DEF Target!Calls

\* prepare_repair_put prepares its own write and routes its shard.
LEMMA PrepareRows ==
  ASSUME TargetTypes, NEW o \in Puts, Target!PrepareRepairPut(o)
  PROVE  /\ \A p \in Puts :
              operation'[p] = IF p = o /\ operation[o] = "None" THEN "Prepared" ELSE operation[p]
         /\ \A i \in Indexes : route'[i] # route[i] => i = o[1] /\ route'[i] = 1
         /\ operation[o] = "None" => route'[o[1]] = 1
         /\ operation' \in [Puts -> {"None", "Prepared", "Committed"}]
         /\ route' \in [Indexes -> {1, None}]
         /\ UNCHANGED <<inventory, file>>
         /\ operation[o] \in {"None", "Prepared"}
         /\ \/ call' = None
            \/ /\ call' = [op |-> o, step |-> "CommitPut"]
               /\ operation[o] = "Prepared" /\ file[route[o[1]]][o[1]] = "Active"
<1>1. /\ UNCHANGED <<inventory, file>>
      /\ operation[o] \in {"None", "Prepared"}
  BY DEF Target!PrepareRepairPut, Target!packs
<1>2. \/ call' = None
      \/ /\ call' = [op |-> o, step |-> "CommitPut"]
         /\ operation[o] = "Prepared" /\ file[route[o[1]]][o[1]] = "Active"
  BY TargetConstants
  DEF Target!PrepareRepairPut, Target!Unlocked, Target!Next1, Target!Evidence, Target!Stored
<1>3. CASE operation[o] = "None"
  <2>1. /\ operation' = [operation EXCEPT ![o] = "Prepared"]
        /\ route' = [route EXCEPT ![o[1]] = Target!Assigned(o[1])]
        /\ Target!CanAssign(o[1])
    BY <1>3, TargetConstants DEF Target!PrepareRepairPut, Target!InsertPrepared
  <2>2. Target!Assigned(o[1]) = 1
    BY <2>1, TargetConstants DEF Target!CanAssign, Target!Assigned, TargetTypes
  <2>. QED BY <1>1, <1>2, <1>3, <2>1, <2>2, TargetConstants DEF TargetTypes
<1>4. CASE operation[o] # "None"
  BY <1>1, <1>2, <1>4 DEF Target!PrepareRepairPut, TargetTypes
<1>. QED BY <1>3, <1>4

\* prepare_repair_put keeps what the target holds.
LEMMA PrepareKeepsStore ==
  ASSUME TargetTypes, WritesAreGrounded, NEW o \in Puts, Target!PrepareRepairPut(o)
  PROVE  TargetTypes' /\ WritesAreGrounded'
<1>1. TargetTypes'
  BY PrepareRows DEF TargetTypes
<1>2. \A i \in Indexes : Holds(i) => Holds(i)'
  BY PrepareRows DEF Holds
<1>3. ASSUME NEW p \in Puts
      PROVE  /\ operation'[p] # "None" => route'[p[1]] = 1
             /\ operation'[p] = "Committed" => inventory'[p[1]] = "Committed" /\ Holds(p[1])'
             /\ Target!Doing(p, "PutPack")' => operation'[p] # "None"
             /\ Target!Doing(p, "CommitPut")' => operation'[p] # "None" /\ Holds(p[1])'
  <2>1. operation'[p] # "None" => route'[p[1]] = 1
    BY PrepareRows, TargetConstants DEF WritesAreGrounded
  <2>2. operation'[p] = "Committed" => inventory'[p[1]] = "Committed" /\ Holds(p[1])'
    BY PrepareRows, TargetConstants, <1>2 DEF WritesAreGrounded
  <2>3. call' = None => ~Target!Doing(p, "PutPack")' /\ ~Target!Doing(p, "CommitPut")'
    BY UnlockedCalls DEF Target!Doing
  <2>4. CASE call' = [op |-> o, step |-> "CommitPut"] /\ operation[o] = "Prepared"
             /\ file[route[o[1]]][o[1]] = "Active"
    <3>1. Holds(o[1])
      BY <2>4, TargetConstants DEF WritesAreGrounded, Holds
    <3>2. ~Target!Doing(p, "PutPack")' /\ (Target!Doing(p, "CommitPut")' => p = o)
      BY <2>4 DEF Target!Doing
    <3>. QED BY <1>2, <2>1, <2>2, <2>4, <3>1, <3>2, PrepareRows, TargetConstants
  <2>. QED BY <2>1, <2>2, <2>3, <2>4, PrepareRows
<1>. QED BY <1>1, <1>3 DEF WritesAreGrounded

\* finish_repair_put begins with what is prepared.
LEMMA FinishKeepsStore ==
  ASSUME TargetTypes, WritesAreGrounded, NEW o \in Puts, Target!FinishRepairPut(o)
  PROVE  TargetTypes' /\ WritesAreGrounded' /\ UNCHANGED operation
<1>1. /\ UNCHANGED <<operation, inventory, route, file>>
      /\ operation[o] = "Prepared"
      /\ \/ call' = [op |-> o, step |-> "CommitPut"] /\ file[route[o[1]]][o[1]] = "Active"
         \/ call' = [op |-> o, step |-> "PutPack"]
  BY TargetConstants
  DEF Target!FinishRepairPut, Target!journal, Target!packs, Target!Next1, Target!Evidence,
      Target!Stored
<1>2. route[o[1]] = 1
  BY <1>1 DEF WritesAreGrounded
<1>3. ASSUME NEW p \in Puts
      PROVE  /\ Target!Doing(p, "PutPack")' => operation[p] # "None"
             /\ Target!Doing(p, "CommitPut")' => operation[p] # "None" /\ Holds(p[1])
  BY <1>1, <1>2 DEF Target!Doing, Holds
<1>. QED BY <1>1, <1>3 DEF TargetTypes, WritesAreGrounded, Holds

\* The bytes of a prepared write reach its pack (PackStore::put_exact).
LEMMA PutPackKeepsStore ==
  ASSUME TargetTypes, WritesAreGrounded, NEW o \in Puts, Target!PutPack(o)
  PROVE  TargetTypes' /\ WritesAreGrounded' /\ UNCHANGED operation
<1>1. /\ UNCHANGED <<operation, inventory, route>>
      /\ operation[o] # "None" /\ route[o[1]] = 1
      /\ file' = [file EXCEPT ![1][o[1]] = "Active"]
      /\ call' = [op |-> o, step |-> "CommitPut"]
  BY TargetConstants
  DEF Target!PutPack, Target!journal, Target!Next1, WritesAreGrounded
<1>2. TargetTypes'
  BY <1>1, TargetConstants DEF TargetTypes
<1>3. Holds(o[1])' /\ \A i \in Indexes : Holds(i) => Holds(i)'
  BY <1>1, TargetConstants DEF Holds, TargetTypes
<1>4. ASSUME NEW p \in Puts
      PROVE  ~Target!Doing(p, "PutPack")' /\ (Target!Doing(p, "CommitPut")' => p = o)
  BY <1>1 DEF Target!Doing
<1>. QED BY <1>1, <1>2, <1>3, <1>4, TargetConstants DEF WritesAreGrounded

\* commit_put acknowledges what the pack holds.
LEMMA CommitPutKeepsStore ==
  ASSUME TargetTypes, WritesAreGrounded, NEW o \in Puts, Target!CommitPut(o)
  PROVE  /\ TargetTypes' /\ WritesAreGrounded'
         /\ operation[o] # "None"
         /\ \A p \in Puts : operation'[p] = IF p = o THEN "Committed" ELSE operation[p]
<1>1. /\ UNCHANGED <<route, file>>
      /\ operation[o] # "None" /\ Holds(o[1])
      /\ inventory' = [inventory EXCEPT ![o[1]] = "Committed"]
      /\ operation' = [operation EXCEPT ![o] = "Committed"]
      /\ call' = None
  BY TargetConstants
  DEF Target!CommitPut, Target!packs, WritesAreGrounded
<1>2. TargetTypes' /\ \A p \in Puts : operation'[p] = IF p = o THEN "Committed" ELSE operation[p]
  BY <1>1, TargetConstants DEF TargetTypes
<1>3. \A i \in Indexes : /\ Holds(i)' = Holds(i)
                         /\ inventory'[i] = IF i = o[1] THEN "Committed" ELSE inventory[i]
  BY <1>1, TargetConstants DEF Holds, TargetTypes
<1>4. ASSUME NEW p \in Puts
      PROVE  ~Target!Doing(p, "PutPack")' /\ ~Target!Doing(p, "CommitPut")'
  BY <1>1, UnlockedCalls DEF Target!Doing
<1>. QED BY <1>1, <1>2, <1>3, <1>4, TargetConstants DEF WritesAreGrounded, Holds

\* A crash of the target loses the call and nothing else.
LEMMA CrashKeepsStore ==
  ASSUME TargetTypes, WritesAreGrounded, Target!Crash
  PROVE  TargetTypes' /\ WritesAreGrounded' /\ UNCHANGED operation
<1>1. UNCHANGED <<operation, inventory, route, file>> /\ call' = None
  BY DEF Target!Crash, Target!journal, Target!packs
<1>2. ASSUME NEW p \in Puts
      PROVE  ~Target!Doing(p, "PutPack")' /\ ~Target!Doing(p, "CommitPut")'
  BY <1>1, UnlockedCalls DEF Target!Doing
<1>. QED BY <1>1, <1>2 DEF TargetTypes, WritesAreGrounded, Holds

\* Steps of the authority and the workers leave the target alone.
LEMMA StoreIsLeft ==
  ASSUME TargetTypes, WritesAreGrounded, UNCHANGED store
  PROVE  TargetTypes' /\ WritesAreGrounded' /\ UNCHANGED operation
BY DEF store, TargetTypes, WritesAreGrounded, Holds, Target!Doing
-----------------------------------------------------------------------------
(* The workers.                                                             *)

Tasks == [job : Jobs, step : Steps] \cup {None}

\* A worker goes on with its job.
LEMMA GotoRows ==
  ASSUME WorkTypes, NEW w \in Workers, task[w] # None, NEW step \in Steps, Goto(w, step)
  PROVE  /\ task' \in [Workers -> Tasks]
         /\ Job(w) \in Jobs
         /\ \A v \in Workers : task'[v] = IF v = w THEN [job |-> Job(w), step |-> step] ELSE task[v]
<1>1. task[w] \in [job : Jobs, step : Steps]
  BY DEF WorkTypes
<1>2. [task[w] EXCEPT !.step = step] = [job |-> Job(w), step |-> step]
  BY <1>1 DEF Job
<1>. QED BY <1>1, <1>2 DEF WorkTypes, Goto, Job, Tasks

\* A worker is done with its job.
LEMMA IdleRows ==
  ASSUME WorkTypes, NEW w \in Workers, Idle(w)
  PROVE  /\ task' \in [Workers -> Tasks]
         /\ \A v \in Workers : task'[v] = IF v = w THEN None ELSE task[v]
BY DEF WorkTypes, Idle, Tasks

\* The job of a busy worker is one.
LEMMA TaskFields ==
  ASSUME WorkTypes, NEW w \in Workers, task[w] # None
  PROVE  Job(w) \in Jobs /\ task[w].step \in Steps
BY DEF WorkTypes, Job

\* A job names a shard and a layout.
LEMMA JobFields ==
  ASSUME NEW j \in Jobs
  PROVE  j[1] \in Indexes /\ j[2] \in Layouts /\ j = <<j[1], j[2]>> /\ j[1] # None
BY WorkAssumption DEF Jobs

\* There are at least as many layouts as repairs of other shards.
LEMMA LayoutRange ==
  /\ Cardinality(Indexes) \in Nat /\ MaxOthers \in Nat
  /\ Layouts = 1..(Cardinality(Indexes) + MaxOthers)
  /\ Layouts \subseteq Nat
BY WorkAssumption, FS_CardinalityType DEF Layouts

\* The layout is a sequence of effects.
LEMMA LayoutFields ==
  ASSUME TypeOK
  PROVE  /\ layout \in Seq(Effects) /\ Len(layout) \in Nat /\ Generation \in Nat
         /\ \A k \in 1..Len(layout) : layout[k] \in Effects
BY LenProperties DEF TypeOK, Effects, Generation

\* The rest of the state when a step touches neither layout nor intents, and
\* what is committed at the target stays so.
LEMMA LinksAreKept ==
  ASSUME WorkInv, UNCHANGED <<intent, layout>>,
         \A o \in Puts : operation[o] = "Committed" => operation'[o] = "Committed"
  PROVE  IntentsAreOwn' /\ EffectsAreStored' /\ LayoutsAreSerial'
<1>1. ASSUME NEW k \in 1..Len(layout), layout[k][1] # None
      PROVE  intent[layout[k]] \in Puts
  <2>1. layout[k] \in Effects
    BY LayoutFields DEF WorkInv, WorkTypes
  <2>2. layout[k] \in Jobs
    BY <1>1, <2>1 DEF Effects, Jobs
  <2>. QED BY <1>1, <2>2 DEF WorkInv, EffectsAreStored, WorkTypes, TypeOK
<1>. QED BY <1>1 DEF WorkInv, IntentsAreOwn, EffectsAreStored, LayoutsAreSerial

\* A job is queued where the shard is not replaced.
LEMMA QueueKeeps ==
  ASSUME WorkInv, NEW w \in Workers, NEW i \in Indexes, Queue(w, i)
  PROVE  WorkInv'
<1> DEFINE q == <<i, known[w]>>
<1>1. /\ UNCHANGED <<holder, expired, intent, planned, layout, known, task, store>>
      /\ state[q] = "None"
      /\ state' = [state EXCEPT ![q] = "Queued"]
      /\ i \notin Replaced(w)
  BY DEF Queue, workers
<1>2. TargetTypes' /\ WritesAreGrounded' /\ UNCHANGED operation
  BY <1>1, StoreIsLeft DEF WorkInv
<1>3. \A j \in Jobs : state'[j] = IF j = q THEN "Queued" ELSE state[j]
  BY <1>1 DEF WorkInv, WorkTypes, TypeOK
<1>4. WorkTypes'
  <2>1. state' \in [Jobs -> {"None", "Queued", "Claimed", "Complete"}]
    BY <1>1 DEF WorkInv, WorkTypes, TypeOK
  <2>2. \A j \in Jobs : holder'[j] # None <=> state'[j] = "Claimed"
    BY <1>1, <1>3 DEF WorkInv, WorkTypes, TypeOK
  <2>. QED BY <1>1, <2>1, <2>2 DEF WorkInv, WorkTypes, TypeOK, Generation
<1>5. IntentsAreOwn' /\ EffectsAreStored' /\ LayoutsAreSerial'
  BY <1>1, <1>2, LinksAreKept
<1>6. WritesAreRetained' /\ WorkersAreGrounded'
  BY <1>1, <1>2 DEF WorkInv, WritesAreRetained, WorkersAreGrounded, Job
<1>7. JobsAreNew'
  <2>1. SUFFICES ASSUME NEW j \in Jobs, state'[j] # "None"
                 PROVE  /\ j[2] <= Generation
                        /\ \A k \in 1..Len(layout) : k < j[2] => layout[k][1] # j[1]
    BY <1>1 DEF JobsAreNew, Generation
  <2>2. CASE j # q
    BY <1>3, <2>1, <2>2 DEF WorkInv, JobsAreNew, Generation
  <2>3. CASE j = q
    <3>1. known[w] \in 1..Generation /\ j[2] = known[w] /\ j[1] = i
      BY <2>3 DEF WorkInv, WorkTypes, TypeOK
    <3>2. \A k \in 1..Len(layout) : k < j[2] => k \in 1..(known[w] - 1)
      BY <3>1, LayoutFields DEF WorkInv, WorkTypes
    <3>. QED BY <1>1, <3>1, <3>2, LayoutFields DEF Replaced, WorkInv, WorkTypes
  <2>. QED BY <2>2, <2>3
<1>. QED BY <1>2, <1>4, <1>5, <1>6, <1>7 DEF WorkInv

\* A claim is taken, or taken over, by a worker that begins at its first step.
LEMMA TakeKeeps ==
  ASSUME WorkInv, NEW w \in Workers, NEW j \in Jobs, NEW step \in {"Plan", "CompleteEffect"},
         Take(w, j, step)
  PROVE  WorkInv'
<1>1. /\ UNCHANGED <<intent, layout, known, store>>
      /\ Ready(j)
      /\ state' = [state EXCEPT ![j] = "Claimed"]
      /\ holder' = [holder EXCEPT ![j] = w]
      /\ expired' = expired \ {j} /\ planned' = planned \ {j}
      /\ task' = [task EXCEPT ![w] = [job |-> j, step |-> step]]
  BY DEF Take
<1>2. TargetTypes' /\ WritesAreGrounded' /\ UNCHANGED operation
  BY <1>1, StoreIsLeft DEF WorkInv
<1>3. /\ \A k \in Jobs : state'[k] = IF k = j THEN "Claimed" ELSE state[k]
      /\ \A k \in Jobs : holder'[k] = IF k = j THEN w ELSE holder[k]
      /\ \A v \in Workers : task'[v] = IF v = w THEN [job |-> j, step |-> step] ELSE task[v]
  BY <1>1 DEF WorkInv, WorkTypes, TypeOK
<1>4. WorkTypes'
  <2>1. [job |-> j, step |-> step] \in [job : Jobs, step : Steps]
    BY DEF Steps
  <2>2. task' \in [Workers -> [job : Jobs, step : Steps] \cup {None}]
    BY <1>1, <2>1 DEF WorkInv, WorkTypes
  <2>3. /\ state' \in [Jobs -> {"None", "Queued", "Claimed", "Complete"}]
        /\ holder' \in [Jobs -> Workers \cup {None}]
    BY <1>1 DEF WorkInv, WorkTypes, TypeOK
  <2>4. \A k \in Jobs : holder'[k] # None <=> state'[k] = "Claimed"
    BY <1>3, WorkAssumption DEF WorkInv, WorkTypes, TypeOK
  <2>. QED BY <1>1, <2>2, <2>3, <2>4 DEF WorkInv, WorkTypes, TypeOK, Generation
<1>5. IntentsAreOwn' /\ EffectsAreStored' /\ LayoutsAreSerial'
  BY <1>1, <1>2, LinksAreKept
<1>6. WritesAreRetained'
  BY <1>1, <1>2 DEF WorkInv, WritesAreRetained
<1>7. WorkersAreGrounded'
  BY <1>1, <1>2, <1>3 DEF WorkInv, WorkersAreGrounded, Job
<1>8. JobsAreNew'
  <2>1. state[j] # "None"
    BY <1>1 DEF Ready
  <2>. QED BY <1>1, <1>3, <2>1 DEF WorkInv, JobsAreNew, Generation
<1>. QED BY <1>2, <1>4, <1>5, <1>6, <1>7, <1>8 DEF WorkInv

\* A claim ends and its worker is free.
LEMMA EndClaimKeeps ==
  ASSUME WorkInv, NEW w \in Workers, task[w] # None, Live(w),
         NEW next \in {"Queued", "Complete"}, EndClaim(w, next)
  PROVE  WorkInv'
<1> DEFINE j == Job(w)
<1>1. /\ UNCHANGED <<intent, layout, known, store>>
      /\ state' = [state EXCEPT ![j] = next]
      /\ holder' = [holder EXCEPT ![j] = None]
      /\ expired' = expired \ {j} /\ planned' = planned \ {j}
      /\ Idle(w)
  BY DEF EndClaim
<1>2. TargetTypes' /\ WritesAreGrounded' /\ UNCHANGED operation
  BY <1>1, StoreIsLeft DEF WorkInv
<1>3. /\ j \in Jobs /\ state[j] = "Claimed"
      /\ \A k \in Jobs : state'[k] = IF k = j THEN next ELSE state[k]
      /\ \A k \in Jobs : holder'[k] = IF k = j THEN None ELSE holder[k]
  BY <1>1, TaskFields DEF WorkInv, WorkTypes, TypeOK, Live
<1>4. /\ task' \in [Workers -> Tasks]
      /\ \A v \in Workers : task'[v] = IF v = w THEN None ELSE task[v]
  BY <1>1, IdleRows DEF WorkInv
<1>5. WorkTypes'
  <2>1. /\ state' \in [Jobs -> {"None", "Queued", "Claimed", "Complete"}]
        /\ holder' \in [Jobs -> Workers \cup {None}]
    BY <1>1 DEF WorkInv, WorkTypes, TypeOK
  <2>2. \A k \in Jobs : holder'[k] # None <=> state'[k] = "Claimed"
    BY <1>3 DEF WorkInv, WorkTypes, TypeOK
  <2>. QED BY <1>1, <1>4, <2>1, <2>2 DEF WorkInv, WorkTypes, TypeOK, Generation, Tasks
<1>6. IntentsAreOwn' /\ EffectsAreStored' /\ LayoutsAreSerial'
  BY <1>1, <1>2, LinksAreKept
<1>7. WritesAreRetained' /\ WorkersAreGrounded'
  BY <1>1, <1>2, <1>4 DEF WorkInv, WritesAreRetained, WorkersAreGrounded, Job
<1>8. JobsAreNew'
  BY <1>1, <1>3 DEF WorkInv, JobsAreNew, Generation
<1>. QED BY <1>2, <1>5, <1>6, <1>7, <1>8 DEF WorkInv

\* A worker gives up: the authority and the target keep what they have.
LEMMA IdleKeeps ==
  ASSUME WorkInv, NEW w \in Workers, Idle(w), UNCHANGED <<authority, known, store>>
  PROVE  WorkInv'
<1>1. /\ task' \in [Workers -> Tasks]
      /\ \A v \in Workers : task'[v] = IF v = w THEN None ELSE task[v]
  BY IdleRows DEF WorkInv
<1>2. TargetTypes' /\ WritesAreGrounded' /\ UNCHANGED operation
  BY StoreIsLeft DEF WorkInv
<1>3. WorkTypes'
  BY <1>1 DEF WorkInv, WorkTypes, TypeOK, Generation, authority, Tasks
<1>4. IntentsAreOwn' /\ EffectsAreStored' /\ LayoutsAreSerial'
  BY <1>2, LinksAreKept DEF authority
<1>5. WritesAreRetained' /\ JobsAreNew'
  BY <1>2 DEF WorkInv, WritesAreRetained, JobsAreNew, authority, Generation
<1>6. WorkersAreGrounded'
  BY <1>1, <1>2 DEF WorkInv, WorkersAreGrounded, Job, authority
<1>. QED BY <1>2, <1>3, <1>4, <1>5, <1>6 DEF WorkInv
\* A new attempt has an identity nobody uses, and a takeover the retained one
\* (RepairAttempt::plan).
LEMMA SelectedRows ==
  ASSUME WorkInv, NEW j \in Jobs, intent[j] = None => Fresh(j[1]) # {}
  PROVE  /\ Selected(j) \in Puts /\ Selected(j)[1] = j[1]
         /\ intent[j] # None => Selected(j) = intent[j]
<1>1. CASE intent[j] # None
  BY <1>1 DEF Selected, WorkInv, WorkTypes, TypeOK, IntentsAreOwn
<1>2. CASE intent[j] = None
  <2> DEFINE F == Fresh(j[1])
             N == {o[2] : o \in F}
  <2>1. \A o \in F : o \in Puts /\ o[1] = j[1] /\ o[2] \in Nat
    BY JobFields, WorkAssumption DEF Fresh, Puts
  <2>2. N \subseteq Nat /\ N # {}
    BY <1>2, <2>1
  <2>3. PICK n \in N : \A m \in N : n <= m
    <3>1. PICK n \in N : \A m \in N : ~(<<m, n>> \in OpToRel(<, Nat))
      BY <2>2, NatLessThanWellFounded, WFMin
    <3>2. \A m \in N : ~(m < n)
      BY <2>2, <3>1 DEF OpToRel
    <3> HIDE DEF N
    <3>. QED BY <2>2, <3>2
  <2>4. \E o \in F : \A p \in F : o[2] <= p[2]
    BY <2>3
  <2>5. Selected(j) \in F
    BY <1>2, <2>4 DEF Selected
  <2>. QED BY <1>2, <2>1, <2>5
<1>. QED BY <1>1, <1>2

\* PlanShardRepair retains the intent before anything is written.
LEMMA PlanKeeps ==
  ASSUME WorkInv, NEW w \in Workers, Plan(w)
  PROVE  WorkInv'
<1> DEFINE j == Job(w)
<1>1. /\ UNCHANGED <<state, holder, expired, layout, known, store>>
      /\ task[w] # None
      /\ intent' = [intent EXCEPT ![j] = Selected(j)]
      /\ planned' = planned \cup {j}
      /\ Goto(w, "Prepare")
      /\ intent[j] = None => Fresh(j[1]) # {}
  BY DEF Plan, AtStep, CanPlan
<1>2. TargetTypes' /\ WritesAreGrounded' /\ UNCHANGED operation
  BY <1>1, StoreIsLeft DEF WorkInv
<1>3. /\ task' \in [Workers -> Tasks] /\ j \in Jobs
      /\ \A v \in Workers : task'[v] = IF v = w THEN [job |-> j, step |-> "Prepare"] ELSE task[v]
  BY <1>1, GotoRows DEF WorkInv, Steps
<1>4. Selected(j) \in Puts /\ Selected(j)[1] = j[1] /\ (intent[j] # None => Selected(j) = intent[j])
  BY <1>1, <1>3, SelectedRows
<1>5. /\ \A k \in Jobs : intent'[k] = IF k = j THEN Selected(j) ELSE intent[k]
      /\ intent' \in [Jobs -> Puts \cup {None}]
  BY <1>1, <1>3, <1>4 DEF WorkInv, WorkTypes, TypeOK
<1>6. \A k \in Jobs : intent[k] # None => intent'[k] = intent[k]
  BY <1>4, <1>5
<1>7. WorkTypes'
  BY <1>1, <1>3, <1>5 DEF WorkInv, WorkTypes, TypeOK, Generation, Tasks
<1>8. IntentsAreOwn'
  BY <1>4, <1>5 DEF WorkInv, IntentsAreOwn
<1>9. WritesAreRetained'
  <2>1. SUFFICES ASSUME NEW o \in Puts, operation[o] # "None"
                 PROVE  o \in Range(intent')
    BY <1>2 DEF WritesAreRetained
  <2>2. PICK k \in Jobs : intent[k] = o
    BY <2>1 DEF WorkInv, WritesAreRetained, Range, WorkTypes, TypeOK
  <2>3. o # None
    BY <2>1, WorkAssumption
  <2>. QED BY <1>5, <1>6, <2>2, <2>3 DEF Range
<1>10. WorkersAreGrounded'
  <2>1. SUFFICES ASSUME NEW v \in Workers, task'[v] # None
                 PROVE  /\ task'[v].step \in {"Prepare", "Finish", "Receipt", "Effect"} =>
                             intent'[task'[v].job] # None
                        /\ task'[v].step = "Effect" => operation[intent'[task'[v].job]] = "Committed"
    BY <1>2 DEF WorkersAreGrounded, Job
  <2>2. CASE v = w
    <3>1. task'[v].step = "Prepare" /\ task'[v].job = j
      BY <1>3, <2>2
    <3>. QED BY <1>3, <1>4, <1>5, <3>1, WorkAssumption
  <2>3. CASE v # w
    <3>1. task'[v] = task[v] /\ task[v] # None /\ Job(v) \in Jobs
      BY <1>3, <2>1, <2>3, TaskFields DEF WorkInv
    <3>. QED BY <1>6, <3>1 DEF WorkInv, WorkersAreGrounded, Job
  <2>. QED BY <2>2, <2>3
<1>11. EffectsAreStored'
  <2>1. SUFFICES ASSUME NEW k \in 1..Len(layout), layout[k][1] # None
                 PROVE  intent'[layout[k]] # None /\ operation[intent'[layout[k]]] = "Committed"
    BY <1>1, <1>2 DEF EffectsAreStored
  <2>2. layout[k] \in Effects
    BY LayoutFields DEF WorkInv, WorkTypes
  <2>3. layout[k] \in Jobs
    BY <2>1, <2>2 DEF Effects, Jobs
  <2>. QED BY <1>6, <2>1, <2>3 DEF WorkInv, EffectsAreStored
<1>12. JobsAreNew' /\ LayoutsAreSerial'
  BY <1>1 DEF WorkInv, JobsAreNew, LayoutsAreSerial, Generation
<1>. QED BY <1>2, <1>7, <1>8, <1>9, <1>10, <1>11, <1>12 DEF WorkInv

\* A worker has the target do a step, and goes on where its intent is prepared.
LEMMA WriteKeeps ==
  ASSUME WorkInv, NEW w \in Workers, AtStep(w, "Prepare") \/ AtStep(w, "Finish"),
         NEW step \in {"Finish", "Receipt"}, Goto(w, step), UNCHANGED <<authority, known>>,
         TargetTypes', WritesAreGrounded',
         \A p \in Puts : operation'[p] = IF p = intent[Job(w)] /\ operation[p] = "None"
                                         THEN "Prepared" ELSE operation[p]
  PROVE  WorkInv'
<1>1. /\ task' \in [Workers -> Tasks] /\ Job(w) \in Jobs /\ task[w] # None
      /\ \A v \in Workers : task'[v] = IF v = w THEN [job |-> Job(w), step |-> step] ELSE task[v]
  <2>1. task[w] # None /\ step \in Steps
    BY DEF AtStep, Steps
  <2>. QED BY <2>1, GotoRows DEF WorkInv
<1>2. intent[Job(w)] # None
  BY DEF WorkInv, WorkersAreGrounded, AtStep
<1>3. WorkTypes'
  BY <1>1 DEF WorkInv, WorkTypes, TypeOK, Generation, authority, Tasks
<1>4. \A o \in Puts : operation[o] = "Committed" => operation'[o] = "Committed"
  OBVIOUS
<1>5. IntentsAreOwn' /\ EffectsAreStored' /\ LayoutsAreSerial'
  BY <1>4, LinksAreKept DEF authority
<1>6. WritesAreRetained'
  <2>1. intent[Job(w)] \in Range(intent)
    BY <1>1 DEF Range, WorkInv, WorkTypes, TypeOK
  <2>. QED BY <2>1 DEF WorkInv, WritesAreRetained, authority
<1>7. WorkersAreGrounded'
  <2>1. SUFFICES ASSUME NEW v \in Workers, task'[v] # None
                 PROVE  /\ task'[v].step \in {"Prepare", "Finish", "Receipt", "Effect"} =>
                             intent[task'[v].job] # None
                        /\ task'[v].step = "Effect" => operation'[intent[task'[v].job]] = "Committed"
    BY DEF WorkersAreGrounded, Job, authority
  <2>2. CASE v = w
    BY <1>1, <1>2, <2>2
  <2>3. CASE v # w
    <3>1. task'[v] = task[v] /\ task[v] # None /\ Job(v) \in Jobs
      BY <1>1, <2>1, <2>3, TaskFields DEF WorkInv
    <3>2. intent[Job(v)] # None => intent[Job(v)] \in Puts
      BY <3>1 DEF WorkInv, WorkTypes, TypeOK
    <3>. QED BY <1>4, <3>1, <3>2 DEF WorkInv, WorkersAreGrounded, Job
  <2>. QED BY <2>2, <2>3
<1>8. JobsAreNew'
  BY DEF WorkInv, JobsAreNew, authority, Generation
<1>. QED BY <1>3, <1>5, <1>6, <1>7, <1>8 DEF WorkInv

\* prepare_repair_put by a worker.
LEMMA PrepareKeeps ==
  ASSUME WorkInv, NEW w \in Workers, Prepare(w)
  PROVE  WorkInv'
<1> DEFINE o == intent[Job(w)]
<1>1. /\ AtStep(w, "Prepare") /\ Target!PrepareRepairPut(o) /\ UNCHANGED <<authority, known>>
      /\ \E step \in {"Finish", "Receipt"} : Goto(w, step)
  BY DEF Prepare
<1>2. o \in Puts
  BY <1>1, TaskFields DEF AtStep, WorkInv, WorkersAreGrounded, WorkTypes, TypeOK
<1>3. TargetTypes' /\ WritesAreGrounded'
  BY <1>1, <1>2, PrepareKeepsStore DEF WorkInv
<1>4. \A p \in Puts : operation'[p] = IF p = o /\ operation[o] = "None" THEN "Prepared" ELSE operation[p]
  BY <1>1, <1>2, PrepareRows DEF WorkInv
<1>. QED BY <1>1, <1>3, <1>4, WriteKeeps

\* finish_repair_put by a worker.
LEMMA FinishKeeps ==
  ASSUME WorkInv, NEW w \in Workers, Finish(w)
  PROVE  WorkInv'
<1> DEFINE o == intent[Job(w)]
<1>1. /\ AtStep(w, "Finish") /\ Target!FinishRepairPut(o) /\ UNCHANGED <<authority, known>>
      /\ Goto(w, "Receipt")
  BY DEF Finish
<1>2. o \in Puts
  BY <1>1, TaskFields DEF AtStep, WorkInv, WorkersAreGrounded, WorkTypes, TypeOK
<1>3. TargetTypes' /\ WritesAreGrounded' /\ UNCHANGED operation
  BY <1>1, <1>2, FinishKeepsStore DEF WorkInv
<1>4. operation[o] = "Prepared"
  BY <1>1 DEF Target!FinishRepairPut
<1>. QED BY <1>1, <1>3, <1>4, WriteKeeps

\* A worker goes on to the effect with the receipt of its intent.
LEMMA ReceiveKeeps ==
  ASSUME WorkInv, NEW w \in Workers, Receive(w)
  PROVE  WorkInv'
<1>1. /\ task[w] # None /\ task[w].step \in {"Prepare", "Finish", "Receipt"}
      /\ operation[intent[Job(w)]] = "Committed"
      /\ Goto(w, "Effect") /\ UNCHANGED <<authority, known, store>>
  BY DEF Receive, AtStep, HasReceipt
<1>2. /\ task' \in [Workers -> Tasks] /\ Job(w) \in Jobs
      /\ \A v \in Workers : task'[v] = IF v = w THEN [job |-> Job(w), step |-> "Effect"] ELSE task[v]
  BY <1>1, GotoRows DEF WorkInv, Steps
<1>3. TargetTypes' /\ WritesAreGrounded' /\ UNCHANGED operation
  BY <1>1, StoreIsLeft DEF WorkInv
<1>4. WorkTypes'
  BY <1>1, <1>2 DEF WorkInv, WorkTypes, TypeOK, Generation, authority, Tasks
<1>5. IntentsAreOwn' /\ EffectsAreStored' /\ LayoutsAreSerial'
  BY <1>1, <1>3, LinksAreKept DEF authority
<1>6. WritesAreRetained' /\ JobsAreNew'
  BY <1>1, <1>3 DEF WorkInv, WritesAreRetained, JobsAreNew, authority, Generation
<1>7. WorkersAreGrounded'
  <2>1. intent[Job(w)] # None
    BY <1>1 DEF WorkInv, WorkersAreGrounded
  <2>. QED BY <1>1, <1>2, <1>3, <2>1 DEF WorkInv, WorkersAreGrounded, Job, authority
<1>. QED BY <1>3, <1>4, <1>5, <1>6, <1>7 DEF WorkInv

\* repair::commit appends a layout whose replacement is stored.
LEMMA CommitRepairKeeps ==
  ASSUME WorkInv, NEW w \in Workers, CommitRepair(w)
  PROVE  WorkInv'
<1> DEFINE j == Job(w)
           n == Len(layout)
<1>1. /\ UNCHANGED <<state, holder, expired, intent, planned, known, store>>
      /\ task[w] # None /\ task[w].step = "Effect"
      /\ state[j] = "Claimed"
      /\ Generation = j[2]
      /\ layout' = Append(layout, j)
      /\ Goto(w, "Complete")
  BY DEF CommitRepair, AtStep, CanCommit, Live, SourceIsCurrent
<1>2. TargetTypes' /\ WritesAreGrounded' /\ UNCHANGED operation
  BY <1>1, StoreIsLeft DEF WorkInv
<1>3. /\ task' \in [Workers -> Tasks] /\ j \in Jobs
      /\ \A v \in Workers : task'[v] = IF v = w THEN [job |-> j, step |-> "Complete"] ELSE task[v]
  BY <1>1, GotoRows DEF WorkInv, Steps
<1>4. j \in Effects /\ j[1] \in Indexes /\ j[1] # None
  BY <1>3, JobFields DEF Jobs, Effects
<1>5. /\ layout \in Seq(Effects) /\ n \in Nat /\ j[2] = n + 1
      /\ \A k \in 1..n : layout[k] \in Effects
  BY <1>1, LayoutFields DEF WorkInv, WorkTypes, Generation
<1>6. /\ layout' \in Seq(Effects) /\ Len(layout') = n + 1
      /\ \A k \in 1..n : layout'[k] = layout[k]
      /\ layout'[n + 1] = j
  BY <1>1, <1>4, <1>5, AppendProperties
<1>7. \A k \in 1..Len(layout') : k \in 1..n \/ k = n + 1
  BY <1>5, <1>6
<1>8. WorkTypes'
  <2>1. known' \in [Workers -> 1..Generation']
    BY <1>1, <1>5, <1>6 DEF WorkInv, WorkTypes, TypeOK, Generation
  <2>. QED BY <1>1, <1>3, <1>6, <2>1 DEF WorkInv, WorkTypes, TypeOK, Tasks, Effects
<1>9. IntentsAreOwn' /\ WritesAreRetained'
  BY <1>1, <1>2 DEF WorkInv, IntentsAreOwn, WritesAreRetained
<1>10. intent[j] # None /\ operation[intent[j]] = "Committed"
  BY <1>1 DEF WorkInv, WorkersAreGrounded
<1>11. WorkersAreGrounded'
  BY <1>1, <1>2, <1>3 DEF WorkInv, WorkersAreGrounded, Job
<1>12. EffectsAreStored'
  BY <1>1, <1>2, <1>6, <1>7, <1>10 DEF WorkInv, EffectsAreStored
<1>13. JobsAreNew'
  <2>1. SUFFICES ASSUME NEW q \in Jobs, state[q] # "None"
                 PROVE  /\ q[2] <= n + 2
                        /\ \A k \in 1..Len(layout') : k < q[2] => layout'[k][1] # q[1]
    BY <1>1, <1>5, <1>6 DEF JobsAreNew, Generation
  <2>2. q[2] <= n + 1 /\ q[2] \in Nat
    BY <2>1, LayoutRange, JobFields DEF WorkInv, JobsAreNew, Generation
  <2>3. \A k \in 1..Len(layout') : k < q[2] => k \in 1..n
    BY <1>5, <1>7, <2>2
  <2>4. \A k \in 1..n : k < q[2] => layout[k][1] # q[1]
    BY <2>1 DEF WorkInv, JobsAreNew
  <2>. QED BY <1>5, <1>6, <2>2, <2>3, <2>4
<1>14. LayoutsAreSerial'
  <2>1. \A k \in 1..n : layout[k][1] # j[1]
    BY <1>1, <1>3, <1>5 DEF WorkInv, JobsAreNew
  <2>2. \A k \in 1..Len(layout') : layout'[k][2] = k
    BY <1>5, <1>6, <1>7 DEF WorkInv, LayoutsAreSerial
  <2>3. \A k, l \in 1..Len(layout') :
          layout'[k][1] = layout'[l][1] => k = l \/ layout'[k][1] = None
    BY <1>6, <1>7, <2>1 DEF WorkInv, LayoutsAreSerial
  <2>. QED BY <2>2, <2>3 DEF LayoutsAreSerial
<1>. QED BY <1>2, <1>8, <1>9, <1>11, <1>12, <1>13, <1>14 DEF WorkInv
\* Every effect of a followed shard takes one index, so the effects of other
\* shards decide whether there is room for one more layout.
LEMMA LayoutHasRoom ==
  ASSUME TypeOK, LayoutsAreSerial, Others < MaxOthers
  PROVE  Generation \in Layouts
<1> DEFINE n == Len(layout)
           A == {k \in 1..n : layout[k][1] = None}
           B == {k \in 1..n : layout[k][1] # None}
           f == [k \in B |-> layout[k][1]]
<1>1. n \in Nat /\ \A k \in 1..n : layout[k] \in Effects
  BY LayoutFields
<1>2. IsFiniteSet(1..n) /\ Cardinality(1..n) = n
  BY <1>1, FS_Interval
<1>3. /\ IsFiniteSet(A) /\ IsFiniteSet(B)
      /\ Cardinality(A) \in Nat /\ Cardinality(B) \in Nat
  <2>1. A \in SUBSET (1..n) /\ B \in SUBSET (1..n)
    OBVIOUS
  <2>. QED BY <1>2, <2>1, FS_Subset, FS_CardinalityType
<1>4. f \in Injection(B, Indexes)
  <2>1. f \in [B -> Indexes]
    BY <1>1 DEF Effects
  <2>2. \A k, l \in B : f[k] = f[l] => k = l
    BY DEF LayoutsAreSerial
  <2>. QED BY <2>1, <2>2 DEF Injection, IsInjective
<1>5. Cardinality(B) <= Cardinality(Indexes)
  <2> HIDE DEF f, B
  <2>. QED BY <1>4, WorkAssumption, FS_Injection
<1>6. Cardinality(A) + Cardinality(B) = n
  <2>1. A \cup B = 1..n /\ A \cap B = {}
    OBVIOUS
  <2> HIDE DEF A, B
  <2>2. Cardinality(A \cup B) = Cardinality(A) + Cardinality(B) - Cardinality(A \cap B)
    BY <1>3, FS_Union
  <2>3. Cardinality(A \cup B) = n
    BY <1>2, <2>1
  <2>4. Cardinality(A \cap B) = 0
    BY <2>1, FS_EmptySet
  <2> HIDE DEF n
  <2>. QED BY <1>1, <1>3, <2>2, <2>3, <2>4
<1>7. Cardinality(A) < MaxOthers
  BY DEF Others
<1> HIDE DEF A, B
<1>. QED BY <1>1, <1>3, <1>5, <1>6, <1>7, LayoutRange DEF Generation

\* The repair of another shard of the stripe moves the layout on.
LEMMA CommitOtherKeeps ==
  ASSUME WorkInv, CommitOther
  PROVE  WorkInv'
<1> DEFINE j == <<None, Generation>>
           n == Len(layout)
<1>1. /\ UNCHANGED <<state, holder, expired, intent, planned, known, task, store>>
      /\ Others < MaxOthers
      /\ layout' = Append(layout, j)
  BY DEF CommitOther, workers
<1>2. TargetTypes' /\ WritesAreGrounded' /\ UNCHANGED operation
  BY <1>1, StoreIsLeft DEF WorkInv
<1>3. j \in Effects /\ j[1] = None
  BY <1>1, LayoutHasRoom DEF WorkInv, WorkTypes, Effects
<1>4. /\ layout \in Seq(Effects) /\ n \in Nat /\ j[2] = n + 1
      /\ \A k \in 1..n : layout[k] \in Effects
  BY LayoutFields DEF WorkInv, WorkTypes, Generation
<1>5. /\ layout' \in Seq(Effects) /\ Len(layout') = n + 1
      /\ \A k \in 1..n : layout'[k] = layout[k]
      /\ layout'[n + 1] = j
  BY <1>1, <1>3, <1>4, AppendProperties
<1>6. \A k \in 1..Len(layout') : k \in 1..n \/ k = n + 1
  BY <1>4, <1>5
<1>7. WorkTypes'
  <2>1. known' \in [Workers -> 1..Generation']
    BY <1>1, <1>4, <1>5 DEF WorkInv, WorkTypes, TypeOK, Generation
  <2>. QED BY <1>1, <1>5, <2>1 DEF WorkInv, WorkTypes, TypeOK, Effects
<1>8. IntentsAreOwn' /\ WritesAreRetained' /\ WorkersAreGrounded'
  BY <1>1, <1>2 DEF WorkInv, IntentsAreOwn, WritesAreRetained, WorkersAreGrounded, Job
<1>9. EffectsAreStored'
  BY <1>1, <1>2, <1>3, <1>5, <1>6 DEF WorkInv, EffectsAreStored
<1>10. JobsAreNew'
  <2>1. SUFFICES ASSUME NEW q \in Jobs, state[q] # "None"
                 PROVE  /\ q[2] <= n + 2
                        /\ \A k \in 1..Len(layout') : k < q[2] => layout'[k][1] # q[1]
    BY <1>1, <1>4, <1>5 DEF JobsAreNew, Generation
  <2>2. q[2] <= n + 1 /\ q[2] \in Nat
    BY <2>1, LayoutRange, JobFields DEF WorkInv, JobsAreNew, Generation
  <2>3. \A k \in 1..Len(layout') : k < q[2] => k \in 1..n
    BY <1>4, <1>6, <2>2
  <2>4. \A k \in 1..n : k < q[2] => layout[k][1] # q[1]
    BY <2>1 DEF WorkInv, JobsAreNew
  <2>. QED BY <1>4, <1>5, <2>2, <2>3, <2>4
<1>11. LayoutsAreSerial'
  <2>1. \A k \in 1..Len(layout') : layout'[k][2] = k
    BY <1>4, <1>5, <1>6 DEF WorkInv, LayoutsAreSerial
  <2>2. \A k, l \in 1..Len(layout') :
          layout'[k][1] = layout'[l][1] => k = l \/ layout'[k][1] = None
    BY <1>3, <1>5, <1>6 DEF WorkInv, LayoutsAreSerial
  <2>. QED BY <2>1, <2>2 DEF LayoutsAreSerial
<1>. QED BY <1>2, <1>7, <1>8, <1>9, <1>10, <1>11 DEF WorkInv

\* A lease runs out, or a catalogue catches up.
LEMMA TimeKeeps ==
  ASSUME WorkInv, (\E j \in Jobs : Expire(j)) \/ (\E w \in Workers : Project(w))
  PROVE  WorkInv'
<1>1. UNCHANGED <<state, holder, intent, planned, layout, task, store>>
  BY DEF Expire, Project, authority, workers
<1>2. TargetTypes' /\ WritesAreGrounded' /\ UNCHANGED operation
  BY <1>1, StoreIsLeft DEF WorkInv
<1>3. expired' \subseteq Jobs
  BY DEF Expire, Project, authority, WorkInv, WorkTypes, TypeOK
<1>4. known' \in [Workers -> 1..Generation]
  <2>1. CASE \E j \in Jobs : Expire(j)
    BY <2>1 DEF Expire, workers, WorkInv, WorkTypes, TypeOK
  <2>2. ASSUME NEW w \in Workers, Project(w)
        PROVE  known' \in [Workers -> 1..Generation]
    <3>1. known[w] + 1 \in 1..Generation
      BY <2>2, LayoutFields DEF Project, WorkInv, WorkTypes, TypeOK
    <3>. QED BY <2>2, <3>1 DEF Project, WorkInv, WorkTypes, TypeOK
  <2>. QED BY <2>1, <2>2
<1>5. WorkTypes'
  BY <1>1, <1>3, <1>4 DEF WorkInv, WorkTypes, TypeOK, Generation
<1>6. /\ IntentsAreOwn' /\ WritesAreRetained' /\ WorkersAreGrounded' /\ EffectsAreStored'
      /\ JobsAreNew' /\ LayoutsAreSerial'
  BY <1>1, <1>2
  DEF WorkInv, IntentsAreOwn, WritesAreRetained, WorkersAreGrounded, Job, EffectsAreStored,
      JobsAreNew, LayoutsAreSerial, Generation
<1>. QED BY <1>2, <1>5, <1>6 DEF WorkInv

\* The target goes on by itself.
LEMMA TargetKeeps ==
  ASSUME WorkInv, StoreStep \/ StoreCrash
  PROVE  WorkInv'
<1>1. UNCHANGED <<authority, workers>>
  BY DEF StoreStep, StoreCrash
<1>2. /\ TargetTypes' /\ WritesAreGrounded'
      /\ \A p \in Puts : operation[p] = "Committed" => operation'[p] = "Committed"
      /\ \A p \in Puts : operation'[p] # "None" => operation[p] # "None"
  <2>1. ASSUME NEW o \in Puts, Target!PutPack(o)
        PROVE  TargetTypes' /\ WritesAreGrounded' /\ UNCHANGED operation
    BY <2>1, PutPackKeepsStore DEF WorkInv
  <2>2. ASSUME NEW o \in Puts, Target!CommitPut(o)
        PROVE  /\ TargetTypes' /\ WritesAreGrounded'
               /\ operation[o] # "None"
               /\ \A p \in Puts : operation'[p] = IF p = o THEN "Committed" ELSE operation[p]
    BY <2>2, CommitPutKeepsStore DEF WorkInv
  <2>3. Target!Crash => TargetTypes' /\ WritesAreGrounded' /\ UNCHANGED operation
    BY CrashKeepsStore DEF WorkInv
  <2>. QED BY <2>1, <2>2, <2>3 DEF StoreStep, StoreCrash
<1>3. WorkTypes'
  BY <1>1 DEF WorkInv, WorkTypes, TypeOK, Generation, authority, workers
<1>4. IntentsAreOwn' /\ EffectsAreStored' /\ LayoutsAreSerial'
  BY <1>1, <1>2, LinksAreKept DEF authority
<1>5. WritesAreRetained' /\ JobsAreNew'
  BY <1>1, <1>2 DEF WorkInv, WritesAreRetained, JobsAreNew, Generation, authority
<1>6. WorkersAreGrounded'
  <2>1. SUFFICES ASSUME NEW v \in Workers, task[v] # None
                 PROVE  /\ task[v].step \in {"Prepare", "Finish", "Receipt", "Effect"} =>
                             intent[Job(v)] # None
                        /\ task[v].step = "Effect" => operation'[intent[Job(v)]] = "Committed"
    BY <1>1 DEF WorkersAreGrounded, Job, authority, workers
  <2>2. intent[Job(v)] # None => intent[Job(v)] \in Puts
    BY <2>1, TaskFields DEF WorkInv, WorkTypes, TypeOK
  <2>. QED BY <1>2, <2>1, <2>2 DEF WorkInv, WorkersAreGrounded
<1>. QED BY <1>2, <1>3, <1>4, <1>5, <1>6 DEF WorkInv
-----------------------------------------------------------------------------
(* The theorems.                                                            *)

\* Nothing is queued, claimed, written or replaced at first.
LEMMA InitWork == Init => WorkInv
<1> SUFFICES ASSUME Init PROVE WorkInv
  OBVIOUS
<1>1. /\ operation = [o \in Puts |-> "None"] /\ inventory = [i \in Indexes |-> "None"]
      /\ route = [i \in Indexes |-> None] /\ file = [p \in {1} |-> [i \in Indexes |-> "None"]]
      /\ call = None
  BY TargetConstants DEF Init, Target!Init
<1>2. layout = <<>> /\ Len(layout) = 0 /\ layout \in Seq((Indexes \cup {None}) \X Layouts)
  BY DEF Init
<1>3. WorkTypes
  BY <1>2 DEF Init, WorkTypes, TypeOK, Generation
<1>4. TargetTypes
  BY <1>1 DEF TargetTypes
<1>5. WritesAreGrounded
  <2>1. \A o \in Puts : ~Target!Doing(o, "PutPack") /\ ~Target!Doing(o, "CommitPut")
    BY <1>1, UnlockedCalls DEF Target!Doing
  <2>. QED BY <1>1, <2>1 DEF WritesAreGrounded
<1>6. WritesAreRetained /\ IntentsAreOwn /\ WorkersAreGrounded
  BY <1>1 DEF Init, WritesAreRetained, IntentsAreOwn, WorkersAreGrounded
<1>7. EffectsAreStored /\ JobsAreNew /\ LayoutsAreSerial
  BY <1>2 DEF Init, EffectsAreStored, JobsAreNew, LayoutsAreSerial
<1>. QED BY <1>3, <1>4, <1>5, <1>6, <1>7 DEF WorkInv

\* Every command, worker step and step of the target keeps WorkInv.
LEMMA NextWork == WorkInv /\ [Next]_vars => WorkInv'
<1> SUFFICES ASSUME WorkInv, [Next]_vars PROVE WorkInv'
  OBVIOUS
<1>1. ASSUME NEW w \in Workers, NEW i \in Indexes, Queue(w, i) PROVE WorkInv'
  BY <1>1, QueueKeeps
<1>2. ASSUME NEW w \in Workers, NEW j \in Jobs, Claim(w, j) \/ ClaimEffect(w, j) PROVE WorkInv'
  BY <1>2, TakeKeeps DEF Claim, ClaimEffect
<1>3. ASSUME NEW w \in Workers, Proceed(w) PROVE WorkInv'
  <2>1. CASE Complete(w)
    BY <2>1, EndClaimKeeps DEF Complete, CanComplete, AtStep
  <2>2. CASE Fail(w)
    BY <2>2, IdleKeeps DEF Fail
  <2>. QED BY <1>3, <2>1, <2>2, PlanKeeps, PrepareKeeps, FinishKeeps, ReceiveKeeps, CommitRepairKeeps
           DEF Proceed
<1>4. ASSUME NEW w \in Workers, Defer(w) PROVE WorkInv'
  BY <1>4, EndClaimKeeps DEF Defer, AtStep
<1>5. ASSUME NEW w \in Workers, Abandon(w) PROVE WorkInv'
  BY <1>5, IdleKeeps DEF Abandon
<1>6. CASE UNCHANGED vars
  <2>1. TargetTypes' /\ WritesAreGrounded' /\ UNCHANGED operation
    BY <1>6, StoreIsLeft DEF WorkInv, vars
  <2>2. WorkTypes'
    BY <1>6 DEF WorkInv, WorkTypes, TypeOK, Generation, vars, authority, workers
  <2>. QED
    BY <1>6, <2>1, <2>2
    DEF vars, authority, workers, WorkInv, IntentsAreOwn, WritesAreRetained, WorkersAreGrounded, Job,
        EffectsAreStored, JobsAreNew, LayoutsAreSerial, Generation
<1>. QED
  BY <1>1, <1>2, <1>3, <1>4, <1>5, <1>6, CommitOtherKeeps, TimeKeeps, TargetKeeps DEF Next

\* WorkInv holds always.
LEMMA AlwaysWork == Spec => []WorkInv
BY InitWork, NextWork, PTL DEF Spec

\* What a committed effect names can be read.
LEMMA StoredContent ==
  ASSUME WorkInv PROVE RoutesAreStored
<1> SUFFICES ASSUME NEW k \in 1..Len(layout), layout[k][1] # None
             PROVE  operation[intent[layout[k]]] = "Committed" /\ Target!Content(layout[k][1]) = "Stored"
  BY DEF RoutesAreStored
<1> DEFINE j == layout[k]
           o == intent[j]
<1>1. j \in Effects
  BY LayoutFields DEF WorkInv, WorkTypes
<1>2. j \in Jobs /\ j[1] \in Indexes
  BY <1>1 DEF Effects, Jobs
<1>3. o # None /\ operation[o] = "Committed"
  BY DEF WorkInv, EffectsAreStored
<1>4. o \in Puts /\ o[1] = j[1]
  BY <1>2, <1>3 DEF WorkInv, WorkTypes, TypeOK, IntentsAreOwn
<1>5. inventory[j[1]] = "Committed" /\ route[j[1]] = 1 /\ file[1][j[1]] = "Active"
  BY <1>3, <1>4 DEF WorkInv, WritesAreGrounded, Holds
<1>6. Target!Content(j[1]) = "Stored"
  BY <1>5, WorkAssumption DEF Target!Content, Target!Place, Target!Packs
<1>. QED BY <1>3, <1>6

\* Job, claim, intent and plan rows are in the states the schema allows, a
\* claimed job has one holder, and no catalogue is ahead of the effects
\* (maintenance_work.rs, content_repair/resume.rs).
THEOREM WorkTypesHold == Spec => []TypeOK
BY AlwaysWork, PTL DEF WorkInv, WorkTypes

\* The stripe's layouts change one at a time and no shard is replaced twice,
\* however many workers repair it at once (ensure_repair_stripe).
THEOREM RepairsAreSerial == Spec => []LayoutsAreSerial
BY AlwaysWork, PTL DEF WorkInv

\* Whatever is written at the target is named by a retained intent
\* (RepairAttempt::plan, validate_takeover).
THEOREM IntentsAreRetained == Spec => []WritesAreRetained
BY AlwaysWork, PTL DEF WorkInv

\* The replacement of every committed effect is acknowledged and readable at the
\* target (execute_shard_repair, finish_repair_put).
THEOREM RepairsAreStored == Spec => []RoutesAreStored
BY AlwaysWork, StoredContent, PTL

\* Repair uses the target as any client may: every step of it is one that the
\* target's own specification has, with a write it was given, or leaves the
\* target alone (resume_repair; prepare_repair_put and finish_repair_put are
\* never called without an intent).
THEOREM TargetIsRespected == Spec => Target!Spec
<1>1. Init => Target!Init
  BY DEF Init
<1>2. WorkInv /\ [Next]_vars => [Target!Next]_(Target!vars)
  <2> SUFFICES ASSUME WorkInv, [Next]_vars PROVE Target!Next \/ UNCHANGED Target!vars
    OBVIOUS
  <2>1. UNCHANGED store => UNCHANGED Target!vars
    BY DEF store, Target!vars, Target!journal, Target!packs
  <2>2. ASSUME NEW w \in Workers, Prepare(w) \/ Finish(w) PROVE Target!Next
    <3> DEFINE o == intent[Job(w)]
    <3>1. AtStep(w, "Prepare") \/ AtStep(w, "Finish")
      BY <2>2 DEF Prepare, Finish
    <3>2. o \in Puts
      BY <3>1, TaskFields DEF AtStep, WorkInv, WorkersAreGrounded, WorkTypes, TypeOK
    <3>3. Target!PutStep(o)
      BY <2>2 DEF Prepare, Finish, Target!PutStep
    <3>. QED BY <3>2, <3>3 DEF Target!Next
  <2>3. StoreStep \/ StoreCrash => Target!Next
    BY DEF StoreStep, StoreCrash, Target!Next, Target!PutStep
  <2>4. ASSUME NEW w \in Workers, Proceed(w), ~Prepare(w), ~Finish(w) PROVE UNCHANGED store
    BY <2>4 DEF Proceed, Plan, Receive, CommitRepair, Complete, EndClaim, Fail
  <2>5. ASSUME NEW w \in Workers,
               \/ \E i \in Indexes : Queue(w, i)
               \/ \E j \in Jobs : Claim(w, j) \/ ClaimEffect(w, j)
               \/ Defer(w) \/ Abandon(w) \/ Project(w)
        PROVE  UNCHANGED store
    BY <2>5 DEF Queue, Claim, ClaimEffect, Take, Defer, EndClaim, Abandon, Project
  <2>6. (\E j \in Jobs : Expire(j)) \/ CommitOther \/ UNCHANGED vars => UNCHANGED store
    BY DEF Expire, CommitOther, vars
  <2>. QED BY <2>1, <2>2, <2>3, <2>4, <2>5, <2>6 DEF Next
<1>. QED BY <1>1, <1>2, AlwaysWork, PTL DEF Spec, Target!Spec
===============================================================================
