-------------------------- MODULE TargetStoreProofs --------------------------
(***************************************************************************)
(* Proofs about one storage target, for any finite sets of shards, writes,  *)
(* removals, backups and packs.                                             *)
(*                                                                         *)
(* RowsInv is inductive: it says how far the journal and the packs can be   *)
(* apart when a call is cut, what the holder of the mutex may rely on, and  *)
(* that the newest pack is never retired.  From it follow                   *)
(*   - RetiredPacksAreIdle (a conjunct of it);                              *)
(*   - the refinement of ShardStore, one abstract step or none per step;    *)
(*   - with sums over finite sets, CapacityBalanced, which with RowsInv is  *)
(*     inductive, and from both TypeOK and PayloadIsCharged.                *)
(***************************************************************************)
EXTENDS TargetStore, FiniteSetTheorems, TLAPS
-----------------------------------------------------------------------------
(* The inductive invariant.                                                 *)

\* TypeOK without the counters.
RowTypes ==
  /\ reservation \in [Puts -> {"None", "Active", "InProgress", "Consumed", "Expired"}]
  /\ operation \in [Operations -> {"None", "Prepared", "Committed"}]
  /\ inventory \in [Shards -> {"None", "Committed", "Tombstoned", "Unlinked"}]
  /\ tombstone \in [Shards -> Removals \cup {None}]
  /\ route \in [Shards -> Packs \cup {None}]
  /\ segment \in [Packs -> {"None", "Available", "Retiring", "Retired"}]
  /\ backup \in [Backups -> {"None", "Held", "Stored", "Released"}]
  /\ file \in [Packs -> [Shards -> {"None", "Active", "Tombstoned", "Unlinked"}]]
  /\ receipts \subseteq Operations
  /\ late \subseteq Operations

\* A write holds its reservation exactly while it is prepared.
ReservationsFollow ==
  \A o \in Puts : /\ operation[o] = "Prepared" <=> reservation[o] = "InProgress"
                  /\ operation[o] = "Committed" <=> reservation[o] = "Consumed"

\* What the mutex holder is about to do is still what the journal prepared.
CallsAreGrounded ==
  /\ \A o \in Puts :
       /\ Doing(o, "PutPack") => operation[o] = "Prepared"
       /\ Doing(o, "CommitPut") =>
            operation[o] = "Prepared" /\ o \in receipts /\ Place(ShardOf[o]) = "Active"
  /\ \A r \in Removals :
       /\ Doing(r, "TombstonePack") => operation[r] = "Prepared"
       /\ Doing(r, "CommitTombstone") => operation[r] = "Prepared" /\ r \in receipts
       /\ Doing(r, "CommitUnlink") =>
            inventory[ShardOf[r]] = "Tombstoned" /\ Place(ShardOf[r]) = "Unlinked"
  /\ \A p \in Packs :
       Doing(p, "RetireFiles") \/ Doing(p, "CompleteRetirement") => segment[p] = "Retiring"

\* Bytes are where the journal routes them.
PlacesHold ==
  /\ \A p \in Packs, s \in Shards : file[p][s] # "None" => route[s] = p
  /\ \A o \in Operations : operation[o] = "Prepared" => route[ShardOf[o]] # None
  /\ \A s \in Shards : inventory[s] # "None" => route[s] # None

\* The journal and the packs are at most one step apart.
RowsAgree ==
  \A s \in Shards :
    /\ inventory[s] = "None" =>
         \/ Place(s) = "None"
         \/ /\ Place(s) = "Active"
            /\ \E o \in Puts : ShardOf[o] = s /\ operation[o] = "Prepared"
    /\ inventory[s] = "Committed" => Place(s) \in {"Active", "Tombstoned"}
    /\ inventory[s] = "Tombstoned" => Place(s) \in {"Tombstoned", "Unlinked"}
    /\ inventory[s] = "Unlinked" => Place(s) \in {"Unlinked", "None"}
    /\ inventory[s] = "Unlinked" /\ Place(s) = "None" =>
         segment[route[s]] \in {"Retiring", "Retired"}

\* Receipts of the packs say what was done there.
ReceiptsHold ==
  /\ \A o \in receipts : Place(ShardOf[o]) # "None"
  /\ \A r \in receipts \cap Removals : Place(ShardOf[r]) \in {"Tombstoned", "Unlinked"}

\* A removal is prepared on stored bytes, and is the only one to commit.
RemovalsAreFinal ==
  \A r \in Removals :
    /\ operation[r] = "Prepared" => inventory[ShardOf[r]] # "None"
    /\ operation[r] = "Committed" => inventory[ShardOf[r]] \in {"Tombstoned", "Unlinked"}
    /\ tombstone[ShardOf[r]] = r => operation[r] = "Committed"

\* The newest pack is never retired.
NewestStays ==
  /\ segment[1] # "None"
  /\ \A p \in Packs : segment[p] \in {"Retiring", "Retired"} =>
                        \E q \in Packs : q > p /\ segment[q] # "None"

RowsInv ==
  /\ RowTypes /\ ReservationsFollow /\ CallsAreGrounded /\ PlacesHold /\ RowsAgree
  /\ ReceiptsHold /\ RemovalsAreFinal /\ NewestStays /\ RetiredPacksAreIdle
-----------------------------------------------------------------------------
(* Facts about finite sets.                                                  *)

\* Induction over the subsets of a finite set, with the property as a set: the
\* library's induction theorems take it as an operator.
LEMMA SubsetInduction ==
  ASSUME NEW S, IsFiniteSet(S), NEW F \in SUBSET SUBSET S,
         \A T \in SUBSET S : (\A U \in SUBSET T : U # T => U \in F) => T \in F
  PROVE  F = SUBSET S
<1> SUFFICES ASSUME (SUBSET S) \ F # {} PROVE FALSE
  OBVIOUS
<1> DEFINE B == (SUBSET S) \ F
<1>1. IsWellFoundedOn(StrictSubsetOrdering(S), SUBSET S)
  <2>1. IsWellFoundedOn(StrictSubsetOrdering(S), FiniteSubsetsOf(S))
    BY FS_StrictSubsetOrderingWellFounded
  <2>2. FiniteSubsetsOf(S) = SUBSET S
    BY FS_FiniteSubsetsOfFinite
  <2> QED BY <2>1, <2>2
<1>2. PICK T \in B : \A U \in B : <<U, T>> \notin StrictSubsetOrdering(S)
  <2> HIDE DEF B
  <2>1. B \subseteq SUBSET S /\ B # {} BY DEF B
  <2> QED BY <1>1, <2>1, WFMin
<1>3. \A U \in SUBSET T : U # T => U \in F
  BY <1>2 DEF StrictSubsetOrdering
<1> QED BY <1>2, <1>3

\* A set of packs that is not empty has a largest one, which is its Max.
LEMMA LargestPack ==
  ASSUME NEW S \in SUBSET Packs, S # {}
  PROVE  Max(S) \in S /\ \A p \in S : p <= Max(S)
<1> DEFINE F == {T \in SUBSET Packs : T # {} => \E m \in T : \A p \in T : p <= m}
<1>1. ASSUME NEW T \in SUBSET Packs, \A U \in SUBSET T : U # T => U \in F
      PROVE  T \in F
  <2>1. SUFFICES ASSUME NEW x \in T PROVE \E m \in T : \A p \in T : p <= m
    OBVIOUS
  <2>2. T \subseteq Int
    BY BoundsAssumption DEF Packs
  <2>3. CASE T \ {x} = {}
    BY <2>2, <2>3
  <2>4. CASE T \ {x} # {}
    <3>1. T \ {x} \in F
      <4>1. T \ {x} \in SUBSET T /\ T \ {x} # T
        OBVIOUS
      <4> HIDE DEF F
      <4> QED
        BY <1>1, <4>1
    <3>2. PICK m \in T \ {x} : \A p \in T \ {x} : p <= m
      BY <2>4, <3>1
    <3> QED
      BY <2>2, <3>2
  <2> QED
    BY <2>3, <2>4
<1>2. F = SUBSET Packs
  <2>1. IsFiniteSet(Packs)
    BY BoundsAssumption, FS_Interval DEF Packs
  <2>2. F \in SUBSET SUBSET Packs
    OBVIOUS
  <2> HIDE DEF F
  <2> QED
    BY <1>1, <2>1, <2>2, SubsetInduction
<1>3. \E m \in S : \A p \in S : p <= m
  BY <1>2
<1>4. S \subseteq Int
  BY BoundsAssumption DEF Packs
<1> QED
  BY <1>3, <1>4 DEF Max

\* A step of a call is a record, which None is not.
LEMMA NoneIsNoCall ==
  \A c \in Operations \cup Packs :
    /\ None # [op |-> c, step |-> "PutPack"]
    /\ None # [op |-> c, step |-> "CommitPut"]
    /\ None # [op |-> c, step |-> "TombstonePack"]
    /\ None # [op |-> c, step |-> "CommitTombstone"]
    /\ None # [op |-> c, step |-> "CommitUnlink"]
    /\ None # [op |-> c, step |-> "RetireFiles"]
    /\ None # [op |-> c, step |-> "CompleteRetirement"]
BY OperationsAssumption DEF Calls

\* A call that is over promises nothing.
LEMMA EndedCall ==
  ASSUME call' = None
  PROVE  CallsAreGrounded'
BY NoneIsNoCall DEF CallsAreGrounded, Doing, Operations

\* The rows between two states of a step that leaves them alone.
LEMMA RowsKeep ==
  ASSUME RowsInv, UNCHANGED <<reservation, operation, inventory, tombstone, route, segment, packs>>,
         backup' \in [Backups -> {"None", "Held", "Stored", "Released"}],
         late' \subseteq Operations, CallsAreGrounded'
  PROVE  RowsInv'
<1>1. RowTypes' /\ ReservationsFollow'
  BY DEF RowsInv, RowTypes, ReservationsFollow, packs
<1>2. \A s : Place(s)' = Place(s)
  BY DEF Place, packs
<1>3. PlacesHold' /\ RowsAgree' /\ ReceiptsHold'
  BY <1>2 DEF RowsInv, PlacesHold, RowsAgree, ReceiptsHold, packs
<1>4. RemovalsAreFinal' /\ NewestStays' /\ RetiredPacksAreIdle'
  BY DEF RowsInv, RemovalsAreFinal, NewestStays, RetiredPacksAreIdle, Idle, packs
<1> QED
  BY <1>1, <1>3, <1>4 DEF RowsInv

\* Steps that change no row: the call goes on, ends or is cut, time passes.
LEMMA QuietSteps ==
  ASSUME RowsInv,
         \/ \E o \in Puts : FinishRepairPut(o) \/ ResolvePut(o)
         \/ \E r \in Removals : RecoverTombstone(r)
         \/ \E b \in Backups : BackupStep(b)
         \/ \E o \in Operations : Lapse(o)
         \/ Refuse \/ Crash \/ UNCHANGED vars
  PROVE  RowsInv'
<1>0. Puts \subseteq Operations /\ Removals \subseteq Operations /\ Puts \cap Removals = {}
  BY OperationsAssumption DEF Operations
<1>1. ASSUME NEW o \in Puts, FinishRepairPut(o) \/ ResolvePut(o)
      PROVE  RowsInv'
  <2>1. /\ UNCHANGED <<reservation, operation, inventory, tombstone, route, segment, packs, backup, late>>
        /\ operation[o] = "Prepared"
        /\ \/ call' = [op |-> o, step |-> "PutPack"]
           \/ call' = [op |-> o, step |-> "CommitPut"] /\ Evidence(o)
    BY <1>1 DEF FinishRepairPut, ResolvePut, Next1, journal
  <2>2. Evidence(o) => o \in receipts /\ Place(ShardOf[o]) = "Active"
    BY <2>1, <1>0 DEF Evidence, Stored, Place, RowsInv, PlacesHold
  <2>3. CallsAreGrounded'
    BY <2>1, <2>2, <1>0 DEF CallsAreGrounded, Doing, Place, packs
  <2> QED
    BY <2>1, <2>3, RowsKeep DEF RowsInv, RowTypes
<1>2. ASSUME NEW r \in Removals, RecoverTombstone(r)
      PROVE  RowsInv'
  <2>1. /\ UNCHANGED <<reservation, operation, inventory, tombstone, route, segment, packs, backup, late>>
        /\ operation[r] = "Prepared" /\ r \in receipts
        /\ call' = [op |-> r, step |-> "CommitTombstone"]
    BY <1>2 DEF RecoverTombstone, Next1, journal
  <2>2. CallsAreGrounded'
    BY <2>1, <1>0 DEF CallsAreGrounded, Doing, Place, packs
  <2> QED
    BY <2>1, <2>2, RowsKeep DEF RowsInv, RowTypes
<1>3. ASSUME NEW b \in Backups, BackupStep(b)
      PROVE  RowsInv'
  <2>1. PICK to \in {"None", "Held", "Stored", "Released"} :
          /\ backup' = [backup EXCEPT ![b] = to]
          /\ UNCHANGED <<reservation, operation, inventory, tombstone, route, segment, packs, call, late>>
    BY <1>3 DEF BackupStep, ReserveBackup, CancelBackup, CommitBackup, ReconcileBackup, ReleaseBackup,
                ChargeBackup
  <2>2. CallsAreGrounded'
    BY <2>1 DEF RowsInv, CallsAreGrounded, Doing, Place, packs
  <2> QED
    BY <2>1, <2>2, RowsKeep DEF RowsInv, RowTypes
<1>4. ASSUME NEW o \in Operations, Lapse(o)
      PROVE  RowsInv'
  <2>1. late' = late \cup {o} /\ UNCHANGED <<journal, packs, call>>
    BY <1>4 DEF Lapse
  <2>2. CallsAreGrounded'
    BY <2>1 DEF RowsInv, CallsAreGrounded, Doing, Place, packs, journal
  <2> QED
    BY <2>1, <2>2, RowsKeep DEF RowsInv, RowTypes, journal
<1>5. CASE Refuse \/ Crash
  <2>1. call' = None /\ UNCHANGED <<journal, packs, late>>
    BY <1>5 DEF Refuse, Crash
  <2> QED
    BY <2>1, EndedCall, RowsKeep DEF RowsInv, RowTypes, journal
<1>6. CASE UNCHANGED vars
  <2>1. CallsAreGrounded'
    BY <1>6 DEF vars, RowsInv, CallsAreGrounded, Doing, Place, packs, journal
  <2> QED
    BY <1>6, <2>1, RowsKeep DEF RowsInv, RowTypes, journal, vars
<1> QED
  BY <1>1, <1>2, <1>3, <1>4, <1>5, <1>6
-----------------------------------------------------------------------------
(* The rows: one lemma per action that changes them.                         *)

\* insert_prepared_put routes the shard to an available pack and moves no
\* other shard.
LEMMA Assignment ==
  ASSUME RowsInv, NEW s \in Shards, CanAssign(s)
  PROVE  /\ Assigned(s) \in Packs
         /\ segment[Assigned(s)] \in {"None", "Available"}
         /\ route[s] # None => Assigned(s) = route[s]
<1>0. RowTypes /\ NewestStays
  BY DEF RowsInv
<1>1. CASE route[s] # None
  BY <1>0, <1>1 DEF CanAssign, Assigned, RowTypes
<1>2. CASE route[s] = None
  <2> DEFINE U == {p \in Packs : segment[p] # "None"}
  <2>1. U \in SUBSET Packs /\ U # {}
    BY <1>0, BoundsAssumption DEF NewestStays, Packs
  <2>2. Newest \in U /\ \A p \in U : p <= Newest
    BY <2>1, LargestPack DEF Newest
  <2>3. segment[Newest] = "Available"
    <3>1. Newest \in Packs /\ segment[Newest] # "None"
      BY <2>2
    <3>2. ASSUME segment[Newest] \in {"Retiring", "Retired"} PROVE FALSE
      <4>1. PICK q \in Packs : q > Newest /\ segment[q] # "None"
        BY <1>0, <3>1, <3>2 DEF NewestStays
      <4>2. q \in Int /\ Newest \in Int
        BY <3>1, BoundsAssumption DEF Packs
      <4> QED
        BY <2>2, <4>1, <4>2
    <3> QED
      BY <1>0, <3>1, <3>2 DEF RowTypes
  <2>4. Choice \in Packs
    BY <1>2, <1>0, OperationsAssumption DEF CanAssign
  <2>5. segment[Choice] \in {"None", "Available"}
    <3>1. CASE Choice = Newest
      BY <2>3, <3>1
    <3>2. CASE Choice = Newest + 1
      <4>1. Choice \notin U
        BY <2>2, <3>2, BoundsAssumption DEF Packs
      <4> QED
        BY <2>4, <4>1
    <3> QED
      BY <3>1, <3>2 DEF Choice
  <2> QED
    BY <1>2, <2>4, <2>5 DEF Assigned
<1> QED
  BY <1>1, <1>2

\* What the preparation of a write leaves of the invariant.
LEMMA PreparePut ==
  ASSUME RowsInv, NEW o \in Puts, operation[o] = "None", InsertPrepared(o),
         reservation' \in [Puts -> {"None", "Active", "InProgress", "Consumed", "Expired"}],
         reservation'[o] = "InProgress",
         \A w \in Puts \ {o} : reservation'[w] # reservation[w] =>
                                 reservation[w] = "Active" /\ reservation'[w] = "Expired",
         CallsAreGrounded',
         UNCHANGED <<inventory, tombstone, backup, packs, late>>
  PROVE  RowsInv'
<1> DEFINE s == ShardOf[o]
           a == Assigned(s)
<1>0. /\ RowTypes /\ ReservationsFollow /\ PlacesHold /\ RowsAgree /\ ReceiptsHold
      /\ RemovalsAreFinal /\ NewestStays /\ RetiredPacksAreIdle
  BY DEF RowsInv
<1>1. s \in Shards /\ o \in Operations /\ o \notin Removals
  BY OperationsAssumption DEF Operations
<1>2. CanAssign(s)
  BY DEF InsertPrepared
<1>3. a \in Packs /\ segment[a] \in {"None", "Available"} /\ (route[s] # None => a = route[s])
  BY <1>1, <1>2, Assignment
<1>4. /\ operation' = [operation EXCEPT ![o] = "Prepared"]
      /\ route' = [route EXCEPT ![s] = a]
      /\ segment' = [segment EXCEPT ![a] = IF @ = "None" THEN "Available" ELSE @]
  BY DEF InsertPrepared
<1>5. /\ \A w \in Operations : operation'[w] = IF w = o THEN "Prepared" ELSE operation[w]
      /\ \A t \in Shards : route'[t] = IF t = s THEN a ELSE route[t]
      /\ \A p \in Packs : segment'[p] = IF p = a THEN "Available" ELSE segment[p]
  BY <1>0, <1>3, <1>4 DEF RowTypes
<1>6. RowTypes'
  BY <1>0, <1>3, <1>4, <1>1 DEF RowTypes, packs
<1>7. ReservationsFollow'
  BY <1>0, <1>5 DEF ReservationsFollow, RowTypes, Operations
<1>8. a # None
  BY <1>3, OperationsAssumption
<1>9. \A t \in Shards : Place(t)' = Place(t)
  <2>1. ASSUME NEW t \in Shards PROVE Place(t)' = Place(t)
    <3>1. CASE t = s /\ route[s] = None
      <4>1. file[a][s] = "None"
        BY <1>0, <1>1, <1>3, <1>8, <3>1 DEF PlacesHold
      <4> QED
        BY <3>1, <4>1, <1>5, <1>8, <1>1 DEF Place, packs
    <3>2. CASE t # s \/ route[s] # None
      BY <3>2, <1>5, <1>3, <1>8, <1>1 DEF Place, packs
    <3> QED
      BY <3>1, <3>2
  <2> QED
    BY <2>1
<1>10. PlacesHold'
  <2>1. \A p \in Packs, t \in Shards : file'[p][t] # "None" => route'[t] = p
    BY <1>0, <1>5, <1>3, <1>8, OperationsAssumption DEF PlacesHold, packs
  <2>2. \A w \in Operations : operation'[w] = "Prepared" => route'[ShardOf[w]] # None
    BY <1>0, <1>5, <1>8, OperationsAssumption DEF PlacesHold
  <2>3. \A t \in Shards : inventory'[t] # "None" => route'[t] # None
    BY <1>0, <1>5, <1>8 DEF PlacesHold
  <2> QED
    BY <2>1, <2>2, <2>3 DEF PlacesHold
<1>11. RetiredPacksAreIdle'
  BY <1>0, <1>1, <1>3, <1>5, <1>8, OperationsAssumption DEF RetiredPacksAreIdle, Idle, RowTypes
<1>12. RowsAgree'
  <2>1. ASSUME NEW t \in Shards, inventory[t] = "Unlinked", Place(t) = "None"
        PROVE  segment'[route'[t]] \in {"Retiring", "Retired"}
    <3>1. segment[route[t]] \in {"Retiring", "Retired"} /\ route[t] # None
      BY <1>0, <2>1 DEF RowsAgree, PlacesHold
    <3>2. route[t] \in Packs
      BY <3>1, <1>0 DEF RowTypes
    <3>3. t # s
      BY <3>1, <1>3
    <3>4. route[t] # a
      BY <3>1, <1>3
    <3> QED
      BY <3>1, <3>2, <3>3, <3>4, <1>5
  <2>2. \A t \in Shards : (\E w \in Puts : ShardOf[w] = t /\ operation[w] = "Prepared") =>
                             (\E w \in Puts : ShardOf[w] = t /\ operation'[w] = "Prepared")
    BY <1>5 DEF Operations
  <2> QED
    BY <2>1, <2>2, <1>9, <1>0 DEF RowsAgree
<1>13. ReceiptsHold'
  BY <1>0, <1>9, OperationsAssumption DEF ReceiptsHold, packs, RowTypes
<1>14. RemovalsAreFinal'
  BY <1>0, <1>1, <1>5 DEF RemovalsAreFinal, Operations
<1>15. NewestStays'
  <2>1. \A p \in Packs : segment[p] # "None" => segment'[p] # "None"
    BY <1>5
  <2>2. \A p \in Packs : segment'[p] \in {"Retiring", "Retired"} => segment[p] \in {"Retiring", "Retired"}
    BY <1>5
  <2>3. 1 \in Packs
    BY BoundsAssumption DEF Packs
  <2> QED
    BY <1>0, <2>1, <2>2, <2>3 DEF NewestStays
<1> QED
  BY <1>6, <1>7, <1>10, <1>11, <1>12, <1>13, <1>14, <1>15 DEF RowsInv

\* Expiry only ends active reservations.
LEMMA ExpiryKeeps ==
  ASSUME RowsInv
  PROVE  /\ Expired \in [Puts -> {"None", "Active", "InProgress", "Consumed", "Expired"}]
         /\ \A w \in Puts : Expired[w] # reservation[w] =>
                              reservation[w] = "Active" /\ Expired[w] = "Expired"
BY DEF Expired, Due, RowsInv, RowTypes

\* A change of reservations that is not about prepared writes.
LEMMA ReservationStep ==
  ASSUME RowsInv, reservation' \in [Puts -> {"None", "Active", "InProgress", "Consumed", "Expired"}],
         \A w \in Puts : reservation'[w] # reservation[w] =>
                           /\ reservation[w] \in {"None", "Active"}
                           /\ reservation'[w] \in {"Active", "Expired"},
         CallsAreGrounded',
         UNCHANGED <<operation, inventory, tombstone, route, segment, backup, packs, late>>
  PROVE  RowsInv'
<1>1. RowTypes'
  BY DEF RowsInv, RowTypes, packs
<1>2. ReservationsFollow'
  BY DEF RowsInv, ReservationsFollow
<1>3. \A s : Place(s)' = Place(s)
  BY DEF Place, packs
<1>4. PlacesHold' /\ RowsAgree' /\ ReceiptsHold'
  BY <1>3 DEF RowsInv, PlacesHold, RowsAgree, ReceiptsHold, packs
<1>5. RemovalsAreFinal' /\ NewestStays' /\ RetiredPacksAreIdle'
  BY DEF RowsInv, RemovalsAreFinal, NewestStays, RetiredPacksAreIdle, Idle, packs
<1> QED
  BY <1>1, <1>2, <1>4, <1>5 DEF RowsInv

\* reserve.
LEMMA ReserveRows ==
  ASSUME RowsInv, NEW o \in Puts, Reserve(o)
  PROVE  RowsInv'
<1>1. /\ reservation[o] = "None" /\ reservation' = [Expired EXCEPT ![o] = "Active"]
      /\ UNCHANGED <<operation, inventory, tombstone, route, segment, backup, packs, call, late>>
  BY DEF Reserve
<1>2. CallsAreGrounded'
  BY <1>1 DEF RowsInv, CallsAreGrounded, Doing, Place, packs
<1> QED
  BY <1>1, <1>2, ExpiryKeeps, ReservationStep

\* put_exact, its first transaction.
LEMMA BeginPutRows ==
  ASSUME RowsInv, NEW o \in Puts, BeginPut(o)
  PROVE  RowsInv'
<1>0. Puts \subseteq Operations /\ Removals \subseteq Operations /\ Puts \cap Removals = {}
  BY OperationsAssumption DEF Operations
<1>1. call' = [op |-> o, step |-> "PutPack"] /\ UNCHANGED <<inventory, tombstone, backup, packs, late>>
  BY DEF BeginPut, Next1
<1>2. CASE operation[o] = "None" /\ reservation[o] = "Active" /\ InsertPrepared(o)
           /\ reservation' = [reservation EXCEPT ![o] = "InProgress"]
  <2>1. operation'[o] = "Prepared"
    BY <1>0, <1>2 DEF InsertPrepared, RowsInv, RowTypes
  <2>2. CallsAreGrounded'
    BY <1>0, <1>1, <2>1 DEF CallsAreGrounded, Doing
  <2> QED
    BY <1>1, <1>2, <2>2, PreparePut DEF RowsInv, RowTypes
<1>3. CASE operation[o] = "Prepared" /\ UNCHANGED <<operation, route, segment, reservation>>
  <2>1. CallsAreGrounded'
    BY <1>0, <1>1, <1>3 DEF CallsAreGrounded, Doing
  <2> QED
    BY <1>1, <1>3, <2>1, RowsKeep DEF RowsInv, RowTypes
<1> QED
  BY <1>2, <1>3 DEF BeginPut

\* prepare_repair_put, its transaction and resolve_put.
LEMMA PrepareRepairRows ==
  ASSUME RowsInv, NEW o \in Puts, PrepareRepairPut(o)
  PROVE  RowsInv'
<1>0. Puts \subseteq Operations /\ Removals \subseteq Operations /\ Puts \cap Removals = {}
  BY OperationsAssumption DEF Operations
<1>1. call = None /\ UNCHANGED <<inventory, tombstone, backup, packs, late>>
  BY DEF PrepareRepairPut, Unlocked
<1>2. CASE operation[o] = "None" /\ InsertPrepared(o) /\ RepairReservation(o)
  <2>1. call' = None
    BY <1>1, <1>2 DEF PrepareRepairPut
  <2>2. reservation' = [Expired EXCEPT ![o] = "InProgress"]
    BY <1>2 DEF RepairReservation
  <2>3. /\ reservation' \in [Puts -> {"None", "Active", "InProgress", "Consumed", "Expired"}]
        /\ reservation'[o] = "InProgress"
        /\ \A w \in Puts \ {o} : reservation'[w] # reservation[w] =>
                                 reservation[w] = "Active" /\ reservation'[w] = "Expired"
    BY <2>2, ExpiryKeeps
  <2> QED
    BY <1>1, <1>2, <2>1, <2>3, EndedCall, PreparePut
<1>3. CASE operation[o] = "Prepared" /\ reservation' = Expired /\ UNCHANGED <<operation, route, segment>>
  <2>1. CASE ~Evidence(o)
    <3>1. call' = None
      BY <1>1, <1>3, <2>1 DEF PrepareRepairPut
    <3> QED
      BY <1>1, <1>3, <3>1, EndedCall, ExpiryKeeps, ReservationStep
  <2>2. CASE Evidence(o)
    <3>1. call' = [op |-> o, step |-> "CommitPut"]
      BY <1>3, <2>2 DEF PrepareRepairPut, Next1
    <3>2. o \in receipts /\ Place(ShardOf[o]) = "Active"
      BY <1>0, <1>3, <2>2 DEF Evidence, Stored, Place, RowsInv, PlacesHold
    <3>3. CallsAreGrounded'
      BY <1>0, <1>1, <1>3, <3>1, <3>2 DEF CallsAreGrounded, Doing, Place, packs
    <3> QED
      BY <1>1, <1>3, <3>3, ExpiryKeeps, ReservationStep
  <2> QED
    BY <2>1, <2>2
<1> QED
  BY <1>2, <1>3 DEF PrepareRepairPut

\* A write to the row of one shard in the pack that holds it.
LEMMA PlaceWritten ==
  ASSUME RowsInv, NEW s \in Shards, route[s] # None,
         NEW v \in {"Active", "Tombstoned", "Unlinked"},
         file' = [file EXCEPT ![route[s]][s] = v], UNCHANGED route
  PROVE  /\ file' \in [Packs -> [Shards -> {"None", "Active", "Tombstoned", "Unlinked"}]]
         /\ \A t \in Shards : Place(t)' = IF t = s THEN v ELSE Place(t)
         /\ \A p \in Packs, t \in Shards : file'[p][t] # "None" => route'[t] = p
<1>1. route[s] \in Packs /\ file \in [Packs -> [Shards -> {"None", "Active", "Tombstoned", "Unlinked"}]]
  BY DEF RowsInv, RowTypes
<1>2. \A p \in Packs, t \in Shards :
        file'[p][t] = IF p = route[s] /\ t = s THEN v ELSE file[p][t]
  BY <1>1
<1>3. file' \in [Packs -> [Shards -> {"None", "Active", "Tombstoned", "Unlinked"}]]
  BY <1>1
<1>4. \A t \in Shards : Place(t)' = IF t = s THEN v ELSE Place(t)
  BY <1>1, <1>2 DEF Place, RowsInv, RowTypes
<1>5. \A p \in Packs, t \in Shards : file'[p][t] # "None" => route'[t] = p
  BY <1>2 DEF RowsInv, PlacesHold
<1> QED
  BY <1>3, <1>4, <1>5

\* PackStore::put_exact.
LEMMA PutPackRows ==
  ASSUME RowsInv, NEW o \in Puts, PutPack(o)
  PROVE  RowsInv'
<1> DEFINE s == ShardOf[o]
<1>0. /\ RowTypes /\ ReservationsFollow /\ PlacesHold /\ RowsAgree /\ ReceiptsHold
      /\ RemovalsAreFinal /\ NewestStays /\ RetiredPacksAreIdle
  BY DEF RowsInv
<1>1. s \in Shards /\ o \in Operations /\ o \notin Removals
  BY OperationsAssumption DEF Operations
<1>2. operation[o] = "Prepared" /\ route[s] # None
  BY <1>0, <1>1 DEF PutPack, RowsInv, CallsAreGrounded, PlacesHold
<1>3. /\ file' = [file EXCEPT ![route[s]][s] = "Active"] /\ receipts' = receipts \cup {o}
      /\ call' = [op |-> o, step |-> "CommitPut"] /\ UNCHANGED <<journal, late>>
      /\ Place(s) = "Active" \/ Place(s) = "None"
  BY <1>2 DEF PutPack, Next1, CanInstall, Stored, Place
<1>4. /\ file' \in [Packs -> [Shards -> {"None", "Active", "Tombstoned", "Unlinked"}]]
      /\ \A t \in Shards : Place(t)' = IF t = s THEN "Active" ELSE Place(t)
      /\ \A p \in Packs, t \in Shards : file'[p][t] # "None" => route'[t] = p
  BY <1>1, <1>2, <1>3, PlaceWritten DEF journal
<1>5. RowTypes'
  BY <1>0, <1>1, <1>3, <1>4 DEF RowTypes, journal
<1>6. CallsAreGrounded'
  BY <1>1, <1>2, <1>3, <1>4 DEF CallsAreGrounded, Doing, journal, Operations
<1>7. PlacesHold'
  BY <1>0, <1>3, <1>4 DEF PlacesHold, journal
<1>8. inventory[s] \in {"None", "Committed"}
  <2>1. CASE inventory[s] = "Unlinked"
    <3>1. Place(s) = "None"
      BY <1>0, <1>1, <1>3, <2>1 DEF RowsAgree
    <3>2. segment[route[s]] \in {"Retiring", "Retired"}
      BY <1>0, <1>1, <2>1, <3>1 DEF RowsAgree
    <3> QED
      BY <1>0, <1>1, <1>2, <3>2 DEF RetiredPacksAreIdle, Idle
  <2>2. inventory[s] # "Tombstoned"
    BY <1>0, <1>1, <1>3 DEF RowsAgree
  <2> QED
    BY <1>0, <1>1, <2>1, <2>2 DEF RowTypes
<1>9. RowsAgree'
  BY <1>0, <1>1, <1>2, <1>3, <1>4, <1>8 DEF RowsAgree, journal
<1>10. ReceiptsHold'
  <2>1. \A w \in receipts' : Place(ShardOf[w])' # "None"
    BY <1>0, <1>1, <1>3, <1>4, OperationsAssumption DEF ReceiptsHold, RowTypes
  <2>2. \A r \in receipts' \cap Removals : ShardOf[r] # s
    BY <1>0, <1>1, <1>3 DEF ReceiptsHold
  <2>3. \A r \in receipts' \cap Removals : Place(ShardOf[r])' \in {"Tombstoned", "Unlinked"}
    BY <1>0, <1>1, <1>3, <1>4, <2>2, OperationsAssumption DEF ReceiptsHold, RowTypes
  <2> QED
    BY <2>1, <2>3 DEF ReceiptsHold
<1>11. ReservationsFollow' /\ RemovalsAreFinal' /\ NewestStays' /\ RetiredPacksAreIdle'
  BY <1>0, <1>3 DEF ReservationsFollow, RemovalsAreFinal, NewestStays, RetiredPacksAreIdle, Idle, journal
<1> QED
  BY <1>5, <1>6, <1>7, <1>9, <1>10, <1>11 DEF RowsInv

\* commit_put.
LEMMA CommitPutRows ==
  ASSUME RowsInv, NEW o \in Puts, CommitPut(o)
  PROVE  RowsInv'
<1> DEFINE s == ShardOf[o]
<1>0. /\ RowTypes /\ ReservationsFollow /\ PlacesHold /\ RowsAgree /\ ReceiptsHold
      /\ RemovalsAreFinal /\ NewestStays /\ RetiredPacksAreIdle
  BY DEF RowsInv
<1>1. s \in Shards /\ o \in Operations /\ o \notin Removals
  BY OperationsAssumption DEF Operations
<1>2. operation[o] = "Prepared" /\ Place(s) = "Active" /\ route[s] # None
  BY <1>0, <1>1 DEF CommitPut, RowsInv, CallsAreGrounded, PlacesHold
<1>3. /\ inventory[s] \in {"None", "Committed"}
      /\ inventory' = [inventory EXCEPT ![s] = "Committed"]
      /\ operation' = [operation EXCEPT ![o] = "Committed"]
      /\ reservation' = [reservation EXCEPT ![o] = "Consumed"]
      /\ call' = None
      /\ UNCHANGED <<tombstone, route, segment, backup, packs, late>>
  BY DEF CommitPut
<1>4. /\ \A t \in Shards : inventory'[t] = IF t = s THEN "Committed" ELSE inventory[t]
      /\ \A w \in Operations : operation'[w] = IF w = o THEN "Committed" ELSE operation[w]
      /\ \A w \in Puts : reservation'[w] = IF w = o THEN "Consumed" ELSE reservation[w]
  BY <1>0, <1>3 DEF RowTypes
<1>5. \A t \in Shards : Place(t)' = Place(t)
  BY <1>3 DEF Place, packs
<1>6. RowTypes' /\ CallsAreGrounded'
  BY <1>0, <1>1, <1>3, EndedCall DEF RowTypes, packs
<1>7. ReservationsFollow'
  BY <1>0, <1>4 DEF ReservationsFollow, Operations
<1>8. PlacesHold'
  BY <1>0, <1>2, <1>3, <1>4 DEF PlacesHold, packs
<1>9. RowsAgree'
  <2>1. ASSUME NEW t \in Shards, t # s, NEW w \in Puts, ShardOf[w] = t, operation[w] = "Prepared"
        PROVE  operation'[w] = "Prepared"
    BY <1>4, <2>1 DEF Operations
  <2> QED
    BY <1>0, <1>2, <1>3, <1>4, <1>5, <2>1 DEF RowsAgree
<1>10. ReceiptsHold'
  BY <1>0, <1>3, <1>5, OperationsAssumption DEF ReceiptsHold, RowTypes, packs
<1>11. RemovalsAreFinal'
  BY <1>0, <1>1, <1>3, <1>4, OperationsAssumption DEF RemovalsAreFinal, Operations
<1>12. NewestStays'
  BY <1>0, <1>3 DEF NewestStays
<1>13. RetiredPacksAreIdle'
  BY <1>0, <1>1, <1>2, <1>3, <1>4 DEF RetiredPacksAreIdle, Idle
<1> QED
  BY <1>6, <1>7, <1>8, <1>9, <1>10, <1>11, <1>12, <1>13 DEF RowsInv

\* tombstone, its first transaction.
LEMMA BeginTombstoneRows ==
  ASSUME RowsInv, NEW r \in Removals, BeginTombstone(r)
  PROVE  RowsInv'
<1> DEFINE s == ShardOf[r]
<1>0. /\ RowTypes /\ ReservationsFollow /\ PlacesHold /\ RowsAgree /\ ReceiptsHold
      /\ RemovalsAreFinal /\ NewestStays /\ RetiredPacksAreIdle
  BY DEF RowsInv
<1>1. s \in Shards /\ r \in Operations /\ r \notin Puts
  BY OperationsAssumption DEF Operations
<1>2. /\ call' = [op |-> r, step |-> "TombstonePack"]
      /\ UNCHANGED <<reservation, inventory, tombstone, route, segment, backup, packs, late>>
  BY DEF BeginTombstone, Next1
<1>3. CASE /\ operation[r] = "None" /\ inventory[s] = "Committed"
           /\ operation' = [operation EXCEPT ![r] = "Prepared"]
  <2>1. \A w \in Operations : operation'[w] = IF w = r THEN "Prepared" ELSE operation[w]
    BY <1>0, <1>3 DEF RowTypes
  <2>2. \A t \in Shards : Place(t)' = Place(t)
    BY <1>2 DEF Place, packs
  <2>3. RowTypes'
    BY <1>0, <1>1, <1>2, <1>3 DEF RowTypes, packs
  <2>4. CallsAreGrounded'
    BY <1>1, <1>2, <2>1 DEF CallsAreGrounded, Doing
  <2>5. ReservationsFollow'
    BY <1>0, <1>1, <1>2, <2>1 DEF ReservationsFollow, Operations
  <2>6. PlacesHold'
    BY <1>0, <1>1, <1>2, <1>3, <2>1 DEF PlacesHold, packs
  <2>7. RowsAgree'
    <3>1. \A w \in Puts : operation'[w] = operation[w]
      BY <1>1, <2>1 DEF Operations
    <3> QED
      BY <1>0, <1>2, <2>2, <3>1 DEF RowsAgree
  <2>8. ReceiptsHold'
    BY <1>0, <1>2, <2>2, OperationsAssumption DEF ReceiptsHold, RowTypes, packs
  <2>9. RemovalsAreFinal'
    BY <1>0, <1>2, <1>3, <2>1 DEF RemovalsAreFinal, Operations
  <2>10. NewestStays'
    BY <1>0, <1>2 DEF NewestStays
  <2>11. RetiredPacksAreIdle'
    BY <1>0, <1>1, <1>2, <1>3, <2>1 DEF RetiredPacksAreIdle, Idle
  <2> QED
    BY <2>3, <2>4, <2>5, <2>6, <2>7, <2>8, <2>9, <2>10, <2>11 DEF RowsInv
<1>4. CASE operation[r] = "Prepared" /\ UNCHANGED operation
  <2>1. CallsAreGrounded'
    BY <1>1, <1>2, <1>4 DEF CallsAreGrounded, Doing
  <2> QED
    BY <1>0, <1>2, <1>4, <2>1, RowsKeep DEF RowTypes
<1> QED
  BY <1>3, <1>4 DEF BeginTombstone

\* PackStore::tombstone_exact.
LEMMA TombstonePackRows ==
  ASSUME RowsInv, NEW r \in Removals, TombstonePack(r)
  PROVE  RowsInv'
<1> DEFINE s == ShardOf[r]
<1>0. /\ RowTypes /\ ReservationsFollow /\ PlacesHold /\ RowsAgree /\ ReceiptsHold
      /\ RemovalsAreFinal /\ NewestStays /\ RetiredPacksAreIdle
  BY DEF RowsInv
<1>1. s \in Shards /\ r \in Operations /\ r \notin Puts
  BY OperationsAssumption DEF Operations
<1>2. operation[r] = "Prepared" /\ route[s] # None /\ inventory[s] # "None"
  BY <1>0, <1>1 DEF TombstonePack, RowsInv, CallsAreGrounded, PlacesHold, RemovalsAreFinal
<1>3. /\ receipts' = receipts \cup {r}
      /\ call' = [op |-> r, step |-> "CommitTombstone"]
      /\ UNCHANGED <<journal, late>>
  BY DEF TombstonePack, Next1
<1>4. CallsAreGrounded'
  BY <1>1, <1>2, <1>3 DEF CallsAreGrounded, Doing, journal, Operations
<1>5. CASE r \in receipts /\ UNCHANGED file
  BY <1>0, <1>3, <1>4, <1>5, RowsKeep DEF RowTypes, journal, packs
<1>6. CASE Stored(r) = "Active" /\ file' = [file EXCEPT ![route[s]][s] = "Tombstoned"]
  <2>1. Place(s) = "Active"
    BY <1>2, <1>6 DEF Stored, Place
  <2>2. inventory[s] = "Committed"
    BY <1>0, <1>1, <1>2, <2>1 DEF RowsAgree, RowTypes
  <2>3. /\ file' \in [Packs -> [Shards -> {"None", "Active", "Tombstoned", "Unlinked"}]]
        /\ \A t \in Shards : Place(t)' = IF t = s THEN "Tombstoned" ELSE Place(t)
        /\ \A p \in Packs, t \in Shards : file'[p][t] # "None" => route'[t] = p
    BY <1>1, <1>2, <1>3, <1>6, PlaceWritten DEF journal
  <2>4. RowTypes'
    BY <1>0, <1>1, <1>3, <2>3 DEF RowTypes, journal
  <2>5. PlacesHold'
    BY <1>0, <1>3, <2>3 DEF PlacesHold, journal
  <2>6. RowsAgree'
    BY <1>0, <1>1, <1>3, <2>2, <2>3 DEF RowsAgree, journal
  <2>7. ReceiptsHold'
    BY <1>0, <1>1, <1>3, <2>3, OperationsAssumption DEF ReceiptsHold, RowTypes
  <2>8. ReservationsFollow' /\ RemovalsAreFinal' /\ NewestStays' /\ RetiredPacksAreIdle'
    BY <1>0, <1>3 DEF ReservationsFollow, RemovalsAreFinal, NewestStays, RetiredPacksAreIdle, Idle, journal
  <2> QED
    BY <1>4, <2>4, <2>5, <2>6, <2>7, <2>8 DEF RowsInv
<1> QED
  BY <1>5, <1>6 DEF TombstonePack

\* commit_tombstone.
LEMMA CommitTombstoneRows ==
  ASSUME RowsInv, NEW r \in Removals, CommitTombstone(r)
  PROVE  RowsInv'
<1> DEFINE s == ShardOf[r]
<1>0. /\ RowTypes /\ ReservationsFollow /\ PlacesHold /\ RowsAgree /\ ReceiptsHold
      /\ RemovalsAreFinal /\ NewestStays /\ RetiredPacksAreIdle
  BY DEF RowsInv
<1>1. s \in Shards /\ r \in Operations /\ r \notin Puts
  BY OperationsAssumption DEF Operations
<1>2. operation[r] = "Prepared" /\ r \in receipts
  BY DEF CommitTombstone, RowsInv, CallsAreGrounded
<1>3. /\ inventory[s] = "Committed"
      /\ inventory' = [inventory EXCEPT ![s] = "Tombstoned"]
      /\ tombstone' = [tombstone EXCEPT ![s] = r]
      /\ operation' = [operation EXCEPT ![r] = "Committed"]
      /\ call' = None
      /\ UNCHANGED <<reservation, route, segment, backup, packs, late>>
  BY DEF CommitTombstone
<1>4. /\ \A t \in Shards : inventory'[t] = IF t = s THEN "Tombstoned" ELSE inventory[t]
      /\ \A t \in Shards : tombstone'[t] = IF t = s THEN r ELSE tombstone[t]
      /\ \A w \in Operations : operation'[w] = IF w = r THEN "Committed" ELSE operation[w]
  BY <1>0, <1>3 DEF RowTypes
<1>5. \A t \in Shards : Place(t)' = Place(t)
  BY <1>3 DEF Place, packs
<1>6. RowTypes' /\ CallsAreGrounded'
  BY <1>0, <1>1, <1>3, EndedCall DEF RowTypes, packs
<1>7. ReservationsFollow'
  BY <1>0, <1>1, <1>3, <1>4 DEF ReservationsFollow, Operations
<1>8. PlacesHold'
  BY <1>0, <1>3, <1>4, <1>1 DEF PlacesHold, packs
<1>9. Place(s) = "Tombstoned"
  BY <1>0, <1>1, <1>2, <1>3 DEF ReceiptsHold, RowsAgree
<1>10. RowsAgree'
  <2>1. \A w \in Puts : operation'[w] = operation[w]
    BY <1>1, <1>4 DEF Operations
  <2> QED
    BY <1>0, <1>3, <1>4, <1>5, <1>9, <2>1 DEF RowsAgree
<1>11. ReceiptsHold'
  BY <1>0, <1>3, <1>5, OperationsAssumption DEF ReceiptsHold, RowTypes, packs
<1>12. RemovalsAreFinal'
  <2>1. \A q \in Removals : q \in Operations /\ ShardOf[q] \in Shards
    BY OperationsAssumption DEF Operations
  <2> QED
    BY <1>0, <1>3, <1>4, <2>1 DEF RemovalsAreFinal
<1>13. NewestStays'
  BY <1>0, <1>3 DEF NewestStays
<1>14. RetiredPacksAreIdle'
  BY <1>0, <1>1, <1>2, <1>3, <1>4 DEF RetiredPacksAreIdle, Idle
<1> QED
  BY <1>6, <1>7, <1>8, <1>10, <1>11, <1>12, <1>13, <1>14 DEF RowsInv

\* unlink_tombstoned in the pack.
LEMMA BeginUnlinkRows ==
  ASSUME RowsInv, NEW r \in Removals, BeginUnlink(r)
  PROVE  RowsInv'
<1> DEFINE s == ShardOf[r]
<1>0. /\ RowTypes /\ ReservationsFollow /\ PlacesHold /\ RowsAgree /\ ReceiptsHold
      /\ RemovalsAreFinal /\ NewestStays /\ RetiredPacksAreIdle
  BY DEF RowsInv
<1>1. s \in Shards /\ r \in Operations /\ r \notin Puts
  BY OperationsAssumption DEF Operations
<1>2. /\ inventory[s] = "Tombstoned" /\ file' = [file EXCEPT ![route[s]][s] = "Unlinked"]
      /\ call' = [op |-> r, step |-> "CommitUnlink"] /\ UNCHANGED <<journal, receipts, late>>
  BY DEF BeginUnlink, CanUnlink, Next1
<1>3. route[s] # None
  BY <1>0, <1>1, <1>2 DEF PlacesHold
<1>4. /\ file' \in [Packs -> [Shards -> {"None", "Active", "Tombstoned", "Unlinked"}]]
      /\ \A t \in Shards : Place(t)' = IF t = s THEN "Unlinked" ELSE Place(t)
      /\ \A p \in Packs, t \in Shards : file'[p][t] # "None" => route'[t] = p
  BY <1>1, <1>2, <1>3, PlaceWritten DEF journal
<1>5. RowTypes'
  BY <1>0, <1>1, <1>2, <1>4 DEF RowTypes, journal
<1>6. CallsAreGrounded'
  BY <1>1, <1>2, <1>4 DEF CallsAreGrounded, Doing, journal, Operations
<1>7. PlacesHold' /\ RowsAgree'
  BY <1>0, <1>1, <1>2, <1>4 DEF PlacesHold, RowsAgree, journal
<1>8. ReceiptsHold'
  BY <1>0, <1>2, <1>4, OperationsAssumption DEF ReceiptsHold, RowTypes
<1>9. ReservationsFollow' /\ RemovalsAreFinal' /\ NewestStays' /\ RetiredPacksAreIdle'
  BY <1>0, <1>2 DEF ReservationsFollow, RemovalsAreFinal, NewestStays, RetiredPacksAreIdle, Idle, journal
<1> QED
  BY <1>5, <1>6, <1>7, <1>8, <1>9 DEF RowsInv

\* commit_unlink.
LEMMA CommitUnlinkRows ==
  ASSUME RowsInv, NEW r \in Removals, CommitUnlink(r)
  PROVE  RowsInv'
<1> DEFINE s == ShardOf[r]
<1>0. /\ RowTypes /\ ReservationsFollow /\ PlacesHold /\ RowsAgree /\ ReceiptsHold
      /\ RemovalsAreFinal /\ NewestStays /\ RetiredPacksAreIdle
  BY DEF RowsInv
<1>1. s \in Shards /\ r \in Operations /\ r \notin Puts
  BY OperationsAssumption DEF Operations
<1>2. inventory[s] = "Tombstoned" /\ Place(s) = "Unlinked" /\ route[s] # None
  BY <1>1 DEF CommitUnlink, RowsInv, CallsAreGrounded, PlacesHold
<1>3. /\ inventory' = [inventory EXCEPT ![s] = "Unlinked"]
      /\ call' = None
      /\ UNCHANGED <<reservation, operation, tombstone, route, segment, backup, packs, late>>
  BY DEF CommitUnlink
<1>4. \A t \in Shards : inventory'[t] = IF t = s THEN "Unlinked" ELSE inventory[t]
  BY <1>0, <1>3 DEF RowTypes
<1>5. \A t \in Shards : Place(t)' = Place(t)
  BY <1>3 DEF Place, packs
<1>6. RowTypes' /\ CallsAreGrounded'
  BY <1>0, <1>1, <1>3, EndedCall DEF RowTypes, packs
<1>7. ReservationsFollow' /\ NewestStays'
  BY <1>0, <1>3 DEF ReservationsFollow, NewestStays
<1>8. PlacesHold' /\ RowsAgree'
  BY <1>0, <1>2, <1>3, <1>4, <1>5 DEF PlacesHold, RowsAgree, packs
<1>9. ReceiptsHold'
  BY <1>0, <1>3, <1>5, OperationsAssumption DEF ReceiptsHold, RowTypes, packs
<1>10. RemovalsAreFinal'
  <2>1. \A q \in Removals : q \in Operations /\ ShardOf[q] \in Shards
    BY OperationsAssumption DEF Operations
  <2> QED
    BY <1>0, <1>3, <1>4, <2>1 DEF RemovalsAreFinal
<1>11. RetiredPacksAreIdle'
  BY <1>0, <1>3, <1>4 DEF RetiredPacksAreIdle, Idle
<1> QED
  BY <1>6, <1>7, <1>8, <1>9, <1>10, <1>11 DEF RowsInv

\* prepare_pack_retirement.
LEMMA BeginRetirementRows ==
  ASSUME RowsInv, NEW p \in Packs, BeginRetirement(p)
  PROVE  RowsInv'
<1>0. /\ RowTypes /\ ReservationsFollow /\ PlacesHold /\ RowsAgree /\ ReceiptsHold
      /\ RemovalsAreFinal /\ NewestStays /\ RetiredPacksAreIdle
  BY DEF RowsInv
<1>1. /\ call' = [op |-> p, step |-> "RetireFiles"]
      /\ UNCHANGED <<reservation, operation, inventory, tombstone, route, backup, packs, late>>
  BY DEF BeginRetirement, Next1
<1>2. CASE /\ segment[p] = "Available" /\ p < Newest /\ Reclaimed(p)
           /\ segment' = [segment EXCEPT ![p] = "Retiring"]
  <2>1. \A q \in Packs : segment'[q] = IF q = p THEN "Retiring" ELSE segment[q]
    BY <1>0, <1>2 DEF RowTypes
  <2>2. \A t \in Shards : Place(t)' = Place(t)
    BY <1>1 DEF Place, packs
  <2>3. RowTypes'
    BY <1>0, <1>1, <1>2 DEF RowTypes, packs
  <2>4. CallsAreGrounded'
    BY <1>1, <2>1 DEF CallsAreGrounded, Doing
  <2>5. PlacesHold'
    BY <1>0, <1>1 DEF PlacesHold, packs
  <2>6. RowsAgree'
    <3>1. \A t \in Shards : inventory[t] = "Unlinked" => route[t] \in Packs
      BY <1>0 DEF PlacesHold, RowTypes
    <3> QED
      BY <1>0, <1>1, <2>1, <2>2, <3>1 DEF RowsAgree
  <2>7. ReceiptsHold'
    BY <1>0, <1>1, <2>2, OperationsAssumption DEF ReceiptsHold, RowTypes, packs
  <2>8. ReservationsFollow' /\ RemovalsAreFinal'
    BY <1>0, <1>1 DEF ReservationsFollow, RemovalsAreFinal
  <2>9. NewestStays'
    <3> DEFINE U == {q \in Packs : segment[q] # "None"}
    <3>1. U \in SUBSET Packs /\ p \in U
      BY <1>2
    <3>2. Newest \in U
      BY <3>1, LargestPack DEF Newest
    <3>3. 1 \in Packs
      BY BoundsAssumption DEF Packs
    <3>4. \A q \in Packs : segment[q] # "None" => segment'[q] # "None"
      BY <2>1
    <3>5. \E q \in Packs : q > p /\ segment'[q] # "None"
      <4>1. Newest \in Packs /\ segment[Newest] # "None"
        BY <3>2
      <4>2. Newest > p
        BY <1>2, <4>1, BoundsAssumption DEF Packs
      <4> QED
        BY <3>4, <4>1, <4>2
    <3> QED
      BY <1>0, <2>1, <3>3, <3>4, <3>5 DEF NewestStays
  <2>10. RetiredPacksAreIdle'
    <3>1. ASSUME NEW t \in Shards, route[t] # None, segment'[route[t]] \in {"Retiring", "Retired"}
          PROVE  Idle(t) /\ inventory[t] = "Unlinked"
      <4>1. route[t] \in Packs
        BY <1>0, <3>1 DEF RowTypes
      <4>2. CASE route[t] = p
        BY <1>2, <4>2 DEF Reclaimed, Routed
      <4>3. CASE route[t] # p
        BY <1>0, <2>1, <3>1, <4>1, <4>3 DEF RetiredPacksAreIdle
      <4> QED
        BY <4>2, <4>3
    <3> QED
      BY <1>1, <3>1 DEF RetiredPacksAreIdle, Idle
  <2> QED
    BY <2>3, <2>4, <2>5, <2>6, <2>7, <2>8, <2>9, <2>10 DEF RowsInv
<1>3. CASE segment[p] = "Retiring" /\ UNCHANGED segment
  <2>1. CallsAreGrounded'
    BY <1>1, <1>3 DEF CallsAreGrounded, Doing
  <2> QED
    BY <1>0, <1>1, <1>3, <2>1, RowsKeep DEF RowTypes
<1> QED
  BY <1>2, <1>3 DEF BeginRetirement

\* retire_pack_files.
LEMMA RetireFilesRows ==
  ASSUME RowsInv, NEW p \in Packs, RetireFiles(p)
  PROVE  RowsInv'
<1>0. /\ RowTypes /\ ReservationsFollow /\ PlacesHold /\ RowsAgree /\ ReceiptsHold
      /\ RemovalsAreFinal /\ NewestStays /\ RetiredPacksAreIdle
  BY DEF RowsInv
<1>1. segment[p] = "Retiring"
  BY DEF RetireFiles, RowsInv, CallsAreGrounded
<1>2. /\ file' = [file EXCEPT ![p] = [s \in Shards |-> "None"]]
      /\ receipts' = {o \in receipts : route[ShardOf[o]] # p}
      /\ call' = [op |-> p, step |-> "CompleteRetirement"] /\ UNCHANGED <<journal, late>>
  BY DEF RetireFiles, Next1
<1>3. \A q \in Packs, t \in Shards : file'[q][t] = IF q = p THEN "None" ELSE file[q][t]
  BY <1>0, <1>2 DEF RowTypes
<1>4. \A t \in Shards : Place(t)' = IF route[t] = p THEN "None" ELSE Place(t)
  BY <1>0, <1>2, <1>3 DEF Place, journal, RowTypes
<1>5. RowTypes'
  BY <1>0, <1>2 DEF RowTypes, journal
<1>6. CallsAreGrounded'
  BY <1>1, <1>2 DEF CallsAreGrounded, Doing, journal
<1>7. PlacesHold'
  BY <1>0, <1>2, <1>3 DEF PlacesHold, journal
<1>8. \A t \in Shards : route[t] = p => inventory[t] = "Unlinked" /\ p # None
  BY <1>0, <1>1, OperationsAssumption DEF RetiredPacksAreIdle
<1>9. RowsAgree'
  BY <1>0, <1>1, <1>2, <1>4, <1>8 DEF RowsAgree, journal
<1>10. ReceiptsHold'
  BY <1>0, <1>2, <1>4, OperationsAssumption DEF ReceiptsHold, RowTypes
<1>11. ReservationsFollow' /\ RemovalsAreFinal' /\ NewestStays' /\ RetiredPacksAreIdle'
  BY <1>0, <1>2 DEF ReservationsFollow, RemovalsAreFinal, NewestStays, RetiredPacksAreIdle, Idle, journal
<1> QED
  BY <1>5, <1>6, <1>7, <1>9, <1>10, <1>11 DEF RowsInv

\* complete_pack_retirement.
LEMMA CompleteRetirementRows ==
  ASSUME RowsInv, NEW p \in Packs, CompleteRetirement(p)
  PROVE  RowsInv'
<1>0. /\ RowTypes /\ ReservationsFollow /\ PlacesHold /\ RowsAgree /\ ReceiptsHold
      /\ RemovalsAreFinal /\ NewestStays /\ RetiredPacksAreIdle
  BY DEF RowsInv
<1>1. segment[p] = "Retiring"
  BY DEF CompleteRetirement, RowsInv, CallsAreGrounded
<1>2. /\ segment' = [segment EXCEPT ![p] = "Retired"] /\ call' = None
      /\ UNCHANGED <<reservation, operation, inventory, tombstone, route, backup, packs, late>>
  BY DEF CompleteRetirement
<1>3. \A q \in Packs : segment'[q] = IF q = p THEN "Retired" ELSE segment[q]
  BY <1>0, <1>2 DEF RowTypes
<1>4. \A t \in Shards : Place(t)' = Place(t)
  BY <1>2 DEF Place, packs
<1>5. RowTypes' /\ CallsAreGrounded'
  BY <1>0, <1>2, EndedCall DEF RowTypes, packs
<1>6. PlacesHold'
  BY <1>0, <1>2 DEF PlacesHold, packs
<1>7. \A t \in Shards : route[t] # None =>
        (segment'[route[t]] \in {"Retiring", "Retired"} <=> segment[route[t]] \in {"Retiring", "Retired"})
  BY <1>0, <1>1, <1>3 DEF RowTypes
<1>8. RowsAgree'
  BY <1>0, <1>2, <1>4, <1>7 DEF RowsAgree, PlacesHold
<1>9. ReceiptsHold'
  BY <1>0, <1>2, <1>4, OperationsAssumption DEF ReceiptsHold, RowTypes, packs
<1>10. ReservationsFollow' /\ RemovalsAreFinal'
  BY <1>0, <1>2 DEF ReservationsFollow, RemovalsAreFinal
<1>11. NewestStays'
  <2>1. 1 \in Packs
    BY BoundsAssumption DEF Packs
  <2> QED
    BY <1>0, <1>1, <1>3, <2>1 DEF NewestStays
<1>12. RetiredPacksAreIdle'
  BY <1>0, <1>2, <1>7 DEF RetiredPacksAreIdle, Idle
<1> QED
  BY <1>5, <1>6, <1>8, <1>9, <1>10, <1>11, <1>12 DEF RowsInv

\* The rows at the start.
LEMMA InitRows ==
  ASSUME Init
  PROVE  RowsInv
<1>1. \A s \in Shards : Place(s) = "None"
  BY DEF Init, Place
<1>2. RowTypes
  BY BoundsAssumption DEF Init, RowTypes
<1>3. ReservationsFollow /\ RemovalsAreFinal
  BY OperationsAssumption DEF Init, ReservationsFollow, RemovalsAreFinal, Operations
<1>4. CallsAreGrounded
  BY NoneIsNoCall DEF Init, CallsAreGrounded, Doing, Operations
<1>5. PlacesHold /\ RowsAgree /\ ReceiptsHold
  BY <1>1 DEF Init, PlacesHold, RowsAgree, ReceiptsHold
<1>6. NewestStays
  BY BoundsAssumption DEF Init, NewestStays, Packs
<1>7. RetiredPacksAreIdle
  BY DEF Init, RetiredPacksAreIdle
<1> QED
  BY <1>2, <1>3, <1>4, <1>5, <1>6, <1>7 DEF RowsInv

\* Every step keeps the rows in order.
LEMMA NextRows ==
  ASSUME RowsInv, [Next]_vars
  PROVE  RowsInv'
<1>1. ASSUME NEW o \in Puts, PutStep(o)
      PROVE  RowsInv'
  BY <1>1, ReserveRows, BeginPutRows, PrepareRepairRows, PutPackRows, CommitPutRows, QuietSteps
     DEF PutStep
<1>2. ASSUME NEW r \in Removals, RemovalStep(r)
      PROVE  RowsInv'
  BY <1>2, BeginTombstoneRows, TombstonePackRows, CommitTombstoneRows, BeginUnlinkRows, CommitUnlinkRows,
     QuietSteps DEF RemovalStep
<1>3. ASSUME NEW p \in Packs, RetirementStep(p)
      PROVE  RowsInv'
  BY <1>3, BeginRetirementRows, RetireFilesRows, CompleteRetirementRows DEF RetirementStep
<1> QED
  BY <1>1, <1>2, <1>3, QuietSteps DEF Next

\* The journal and the packs never drift further apart than one step.
LEMMA RowsHold == Spec => []RowsInv
<1>1. Init => RowsInv
  BY InitRows
<1>2. RowsInv /\ [Next]_vars => RowsInv'
  BY NextRows
<1> QED
  BY <1>1, <1>2, PTL DEF Spec

\* Once prepare_pack_retirement has chosen a pack, no operation is pending on
\* its shards and all their bytes are acknowledged as freed, for any number of
\* shards, operations and packs and any cut of the calls.
THEOREM RetirementIsSafe == Spec => []RetiredPacksAreIdle
<1>1. RowsInv => RetiredPacksAreIdle
  BY DEF RowsInv
<1> QED
  BY <1>1, RowsHold, PTL
-----------------------------------------------------------------------------
(* The abstract store.                                                      *)

\* Every shard of the inventory was acknowledged to some put.
Acknowledged ==
  \A s \in Shards : inventory[s] # "None" =>
    \E o \in Puts : ShardOf[o] = s /\ operation[o] = "Committed"

\* No put loses its acknowledgement, and commit_put gives one with the row.
LEMMA AcknowledgedStep ==
  ASSUME RowsInv, Acknowledged, [Next]_vars
  PROVE  Acknowledged'
<1>0. /\ RowTypes /\ CallsAreGrounded
      /\ \A o \in Operations : ShardOf[o] \in Shards
      /\ Puts \subseteq Operations /\ Removals \subseteq Operations /\ Puts \cap Removals = {}
  BY OperationsAssumption DEF RowsInv, Operations
<1>1. ASSUME \A s \in Shards : inventory'[s] # "None" => inventory[s] # "None",
             \A o \in Puts : operation[o] = "Committed" => operation'[o] = "Committed"
      PROVE  Acknowledged'
  BY <1>1 DEF Acknowledged
<1>2. ASSUME NEW o \in Puts, operation[o] = "None", InsertPrepared(o)
      PROVE  \A w \in Puts : operation[w] = "Committed" => operation'[w] = "Committed"
  BY <1>0, <1>2 DEF InsertPrepared, RowTypes
<1>3. ASSUME NEW o \in Puts, PutStep(o)
      PROVE  Acknowledged'
  <2>1. CASE Reserve(o) \/ FinishRepairPut(o) \/ ResolvePut(o) \/ PutPack(o)
    BY <1>1, <2>1 DEF Reserve, FinishRepairPut, ResolvePut, PutPack, journal
  <2>2. CASE BeginPut(o) \/ PrepareRepairPut(o)
    BY <1>1, <1>2, <2>2 DEF BeginPut, PrepareRepairPut
  <2>3. CASE CommitPut(o)
    <3>1. /\ inventory' = [inventory EXCEPT ![ShardOf[o]] = "Committed"]
          /\ operation' = [operation EXCEPT ![o] = "Committed"]
      BY <2>3 DEF CommitPut
    <3>2. \A w \in Puts : operation[w] = "Committed" \/ w = o => operation'[w] = "Committed"
      BY <1>0, <3>1 DEF RowTypes
    <3>3. \A s \in Shards : inventory'[s] # "None" => inventory[s] # "None" \/ s = ShardOf[o]
      BY <1>0, <3>1 DEF RowTypes
    <3> QED
      BY <3>2, <3>3 DEF Acknowledged
  <2> QED
    BY <1>3, <2>1, <2>2, <2>3 DEF PutStep
<1>4. ASSUME NEW r \in Removals, RemovalStep(r)
      PROVE  Acknowledged'
  <2>0. r \notin Puts
    BY <1>0
  <2>1. CASE TombstonePack(r) \/ RecoverTombstone(r) \/ BeginUnlink(r)
    BY <1>1, <2>1 DEF TombstonePack, RecoverTombstone, BeginUnlink, journal
  <2>2. CASE BeginTombstone(r)
    BY <1>0, <1>1, <2>0, <2>2 DEF BeginTombstone, RowTypes
  <2>3. CASE CommitTombstone(r)
    BY <1>0, <1>1, <2>0, <2>3 DEF CommitTombstone, RowTypes
  <2>4. CASE CommitUnlink(r)
    BY <1>0, <1>1, <2>4 DEF CommitUnlink, CallsAreGrounded, RowTypes
  <2> QED
    BY <1>4, <2>1, <2>2, <2>3, <2>4 DEF RemovalStep
<1>5. ASSUME NEW p \in Packs, RetirementStep(p)
      PROVE  Acknowledged'
  BY <1>1, <1>5 DEF RetirementStep, BeginRetirement, RetireFiles, CompleteRetirement, journal
<1>6. ASSUME NEW b \in Backups, BackupStep(b)
      PROVE  Acknowledged'
  BY <1>1, <1>6 DEF BackupStep, ReserveBackup, CancelBackup, CommitBackup, ReconcileBackup, ReleaseBackup,
                    ChargeBackup
<1>7. CASE (\E o \in Operations : Lapse(o)) \/ Refuse \/ Crash \/ UNCHANGED vars
  BY <1>1, <1>7 DEF Lapse, Refuse, Crash, vars, journal
<1> QED
  BY <1>3, <1>4, <1>5, <1>6, <1>7 DEF Next

\* Acknowledged holds always.
LEMMA AcknowledgedHolds == Spec => []Acknowledged
<1>1. Init => Acknowledged
  BY DEF Init, Acknowledged
<1> QED
  BY <1>1, RowsHold, AcknowledgedStep, PTL DEF Spec

\* What a reader finds, from what the journal and the pack say.
Found(row, place) ==
  IF place = "Active" THEN "Stored"
  ELSE IF place = "Tombstoned" THEN "Removed"
  ELSE IF place = "Unlinked" \/ row # "None" THEN "Freed" ELSE "Absent"

\* Content reads the journal row and the pack row of the shard.
LEMMA ContentIsFound ==
  ASSUME RowsInv
  PROVE  \A s \in Shards : Content(s) = Found(inventory[s], Place(s))
<1> SUFFICES ASSUME NEW s \in Shards PROVE Content(s) = Found(inventory[s], Place(s))
  OBVIOUS
<1>1. Place(s) \in {"None", "Active", "Tombstoned", "Unlinked"}
  BY DEF Place, RowsInv, RowTypes
<1> QED
  BY <1>1 DEF Content, Found

\* The same in the next state.
LEMMA ContentIsFoundNext ==
  ASSUME RowsInv'
  PROVE  \A s \in Shards : Content(s)' = Found(inventory'[s], Place(s)')
<1> SUFFICES ASSUME NEW s \in Shards PROVE Content(s)' = Found(inventory'[s], Place(s)')
  OBVIOUS
<1>1. Place(s)' \in {"None", "Active", "Tombstoned", "Unlinked"}
  BY DEF Place, RowsInv, RowTypes
<1> QED
  BY <1>1 DEF Content, Found

\* A step that moves no row of a shard and completes no operation stutters.
LEMMA AbstractStutter ==
  ASSUME \A s \in Shards : Content(s)' = Content(s),
         \A o \in Operations : operation'[o] = "Committed" <=> operation[o] = "Committed"
  PROVE  UNCHANGED Abstract!vars
BY DEF Abstract!vars

\* Steps of the store that no caller can tell apart from none: what they
\* change of a row is not readable yet, or no longer.
LEMMA InvisibleSteps ==
  ASSUME RowsInv, RowsInv',
         UNCHANGED inventory,
         \A s \in Shards : Found(inventory[s], Place(s)') = Found(inventory[s], Place(s)),
         \A o \in Operations : operation'[o] = "Committed" <=> operation[o] = "Committed"
  PROVE  UNCHANGED Abstract!vars
<1>1. \A s \in Shards : Content(s)' = Content(s)
  BY ContentIsFound, ContentIsFoundNext
<1> QED
  BY <1>1, AbstractStutter

\* Every step of the two databases is one of the store, or none.
LEMMA AbstractStep ==
  ASSUME RowsInv, RowsInv', Acknowledged, [Next]_vars
  PROVE  [Abstract!Next]_(Abstract!vars)
<1>0. /\ RowTypes /\ PlacesHold /\ RowsAgree /\ ReceiptsHold /\ RemovalsAreFinal /\ CallsAreGrounded
  BY DEF RowsInv
<1>a. \A o \in Operations : ShardOf[o] \in Shards
  BY OperationsAssumption
<1>b. Puts \subseteq Operations /\ Removals \subseteq Operations /\ Puts \cap Removals = {}
  BY OperationsAssumption DEF Operations
<1>1. ASSUME UNCHANGED <<inventory, route, file>>,
             \A o \in Operations : operation'[o] = "Committed" <=> operation[o] = "Committed"
      PROVE  UNCHANGED Abstract!vars
  <2>1. \A s \in Shards : Place(s)' = Place(s)
    BY <1>1 DEF Place
  <2> QED
    BY <1>1, <2>1, InvisibleSteps
<1>2. ASSUME NEW o \in Puts, operation[o] = "None", InsertPrepared(o), UNCHANGED <<inventory, file>>
      PROVE  UNCHANGED Abstract!vars
  <2>1. \A w \in Operations : operation'[w] = "Committed" <=> operation[w] = "Committed"
    BY <1>0, <1>2 DEF InsertPrepared, RowTypes
  <2>2. \A s \in Shards : Place(s)' = Place(s)
    <3> SUFFICES ASSUME NEW s \in Shards PROVE Place(s)' = Place(s)
      OBVIOUS
    <3>1. CASE route[s] # None
      <4>1. route'[s] = route[s]
        BY <1>0, <1>2, <3>1 DEF InsertPrepared, Assigned, RowTypes
      <4> QED
        BY <1>2, <4>1 DEF Place
    <3>2. CASE route[s] = None
      <4>1. \A p \in Packs : file'[p][s] = "None"
        BY <1>0, <1>2, <3>2, OperationsAssumption DEF PlacesHold
      <4>2. route'[s] \in Packs \cup {None}
        BY DEF RowsInv, RowTypes
      <4> QED
        BY <3>2, <4>1, <4>2 DEF Place
    <3> QED
      BY <3>1, <3>2
  <2> QED
    BY <1>2, <2>1, <2>2, InvisibleSteps
<1>3. ASSUME NEW o \in Puts, PutPack(o)
      PROVE  UNCHANGED Abstract!vars \/ Abstract!Write(ShardOf[o])
  <2> DEFINE s == ShardOf[o]
  <2>1. operation[o] = "Prepared" /\ s \in Shards /\ route[s] # None
    BY <1>0, <1>a, <1>b, <1>3 DEF PutPack, CallsAreGrounded, PlacesHold
  <2>2. file' = [file EXCEPT ![route[s]][s] = "Active"] /\ UNCHANGED journal
        /\ Place(s) \in {"Active", "None"}
    BY <1>3, <2>1 DEF PutPack, CanInstall, Stored, Place
  <2>3. \A t \in Shards : Place(t)' = IF t = s THEN "Active" ELSE Place(t)
    BY <2>1, <2>2, PlaceWritten DEF journal
  <2>4. CASE Place(s) = "Active"
    BY <2>2, <2>3, <2>4, InvisibleSteps DEF journal
  <2>5. CASE Place(s) = "None"
    <3>1. inventory[s] = "None"
      <4>1. RowsAgree' /\ inventory'[s] = inventory[s] /\ Place(s)' = "Active"
        BY <2>1, <2>2, <2>3 DEF RowsInv, journal
      <4>2. inventory[s] \notin {"Tombstoned", "Unlinked"}
        BY <2>1, <4>1 DEF RowsAgree
      <4>3. inventory[s] # "Committed"
        BY <1>0, <2>1, <2>5 DEF RowsAgree
      <4> QED
        BY <1>0, <2>1, <4>2, <4>3 DEF RowTypes
    <3>2. Content(s) = "Absent"
      BY <2>1, <2>5, <3>1, ContentIsFound DEF Found
    <3>3. \A t \in Shards : Content(t)' = IF t = s THEN "Stored" ELSE Content(t)
      BY <2>1, <2>2, <2>3, ContentIsFound, ContentIsFoundNext DEF Found, journal
    <3>4. [t \in Shards |-> Content(t)'] = [[t \in Shards |-> Content(t)] EXCEPT ![s] = "Stored"]
      BY <2>1, <3>3
    <3> QED
      BY <2>1, <2>2, <3>2, <3>4 DEF Abstract!Write, journal
  <2> QED
    BY <2>2, <2>4, <2>5
<1>4. ASSUME NEW o \in Puts, CommitPut(o)
      PROVE  Abstract!Acknowledge(o)
  <2> DEFINE s == ShardOf[o]
  <2>1. /\ operation[o] = "Prepared" /\ Place(s) = "Active" /\ s \in Shards
        /\ inventory' = [inventory EXCEPT ![s] = "Committed"]
        /\ operation' = [operation EXCEPT ![o] = "Committed"]
        /\ UNCHANGED <<route, packs>>
    BY <1>0, <1>a, <1>b, <1>4 DEF CommitPut, CallsAreGrounded
  <2>2. \A t \in Shards : Place(t)' = Place(t)
    BY <2>1 DEF Place, packs
  <2>3. Content(s) = "Stored"
    BY <2>1, ContentIsFound DEF Found
  <2>4. \A t \in Shards : Content(t)' = Content(t)
    BY <2>1, <2>2, <1>0, ContentIsFound, ContentIsFoundNext DEF Found, RowTypes
  <2>5. {w \in Operations : operation'[w] = "Committed"} = {w \in Operations : operation[w] = "Committed"} \cup {o}
    BY <1>0, <1>b, <2>1 DEF RowTypes
  <2> QED
    BY <2>1, <2>3, <2>4, <2>5 DEF Abstract!Acknowledge
<1>5. ASSUME NEW r \in Removals, TombstonePack(r)
      PROVE  UNCHANGED Abstract!vars \/ Abstract!Remove(ShardOf[r])
  <2> DEFINE s == ShardOf[r]
  <2>1. s \in Shards /\ operation[r] = "Prepared" /\ inventory[s] # "None" /\ route[s] # None /\ UNCHANGED journal
    BY <1>0, <1>a, <1>b, <1>5 DEF TombstonePack, CallsAreGrounded, RemovalsAreFinal, PlacesHold
  <2>2. CASE UNCHANGED file
    BY <1>1, <2>1, <2>2 DEF journal
  <2>3. CASE Stored(r) = "Active" /\ file' = [file EXCEPT ![route[s]][s] = "Tombstoned"]
    <3>1. Place(s) = "Active"
      BY <2>1, <2>3 DEF Stored, Place
    <3>2. \A t \in Shards : Place(t)' = IF t = s THEN "Tombstoned" ELSE Place(t)
      BY <2>1, <2>3, PlaceWritten DEF journal
    <3>3. Content(s) = "Stored"
      BY <2>1, <3>1, ContentIsFound DEF Found
    <3>4. \A t \in Shards : Content(t)' = IF t = s THEN "Removed" ELSE Content(t)
      BY <2>1, <3>2, ContentIsFound, ContentIsFoundNext DEF Found, journal
    <3>5. [t \in Shards |-> Content(t)'] = [[t \in Shards |-> Content(t)] EXCEPT ![s] = "Removed"]
      BY <2>1, <3>4
    <3>6. \E o \in {w \in Operations : operation[w] = "Committed"} \cap Puts : ShardOf[o] = s
      BY <1>b, <2>1 DEF Acknowledged
    <3> QED
      BY <2>1, <3>3, <3>5, <3>6 DEF Abstract!Remove, journal
  <2> QED
    BY <1>5, <2>2, <2>3 DEF TombstonePack
<1>6. ASSUME NEW r \in Removals, CommitTombstone(r)
      PROVE  Abstract!Confirm(r)
  <2> DEFINE s == ShardOf[r]
  <2>1. /\ operation[r] = "Prepared" /\ r \in receipts /\ s \in Shards
        /\ inventory[s] = "Committed"
        /\ inventory' = [inventory EXCEPT ![s] = "Tombstoned"]
        /\ operation' = [operation EXCEPT ![r] = "Committed"]
        /\ UNCHANGED <<route, packs>>
    BY <1>0, <1>a, <1>b, <1>6 DEF CommitTombstone, CallsAreGrounded
  <2>2. \A t \in Shards : Place(t)' = Place(t)
    BY <2>1 DEF Place, packs
  <2>3. Place(s) = "Tombstoned"
    BY <1>0, <2>1 DEF ReceiptsHold, RowsAgree
  <2>4. Content(s) = "Removed"
    BY <2>1, <2>3, ContentIsFound DEF Found
  <2>5. \A t \in Shards : Content(t)' = Content(t)
    BY <2>1, <2>2, <1>0, ContentIsFound, ContentIsFoundNext DEF Found, RowTypes
  <2>6. {w \in Operations : operation'[w] = "Committed"} = {w \in Operations : operation[w] = "Committed"} \cup {r}
    BY <1>0, <1>b, <2>1 DEF RowTypes
  <2>7. \A other \in {w \in Operations : operation[w] = "Committed"} \cap Removals : ShardOf[other] # s
    BY <1>0, <2>1 DEF RemovalsAreFinal
  <2> QED
    BY <2>1, <2>4, <2>5, <2>6, <2>7 DEF Abstract!Confirm
<1>7. ASSUME NEW r \in Removals, BeginUnlink(r)
      PROVE  UNCHANGED Abstract!vars \/ Abstract!Free(ShardOf[r])
  <2> DEFINE s == ShardOf[r]
  <2>1. /\ s \in Shards /\ inventory[s] = "Tombstoned" /\ tombstone[s] = r /\ UNCHANGED journal
        /\ file' = [file EXCEPT ![route[s]][s] = "Unlinked"]
    BY <1>a, <1>b, <1>7 DEF BeginUnlink, CanUnlink
  <2>2. route[s] # None
    BY <1>0, <2>1 DEF PlacesHold
  <2>3. \A t \in Shards : Place(t)' = IF t = s THEN "Unlinked" ELSE Place(t)
    BY <2>1, <2>2, PlaceWritten DEF journal
  <2>4. CASE Place(s) = "Unlinked"
    BY <2>1, <2>3, <2>4, InvisibleSteps DEF journal
  <2>5. CASE Place(s) = "Tombstoned"
    <3>1. Content(s) = "Removed"
      BY <2>1, <2>5, ContentIsFound DEF Found
    <3>2. \A t \in Shards : Content(t)' = IF t = s THEN "Freed" ELSE Content(t)
      BY <2>1, <2>3, ContentIsFound, ContentIsFoundNext DEF Found, journal
    <3>3. [t \in Shards |-> Content(t)'] = [[t \in Shards |-> Content(t)] EXCEPT ![s] = "Freed"]
      BY <2>1, <3>2
    <3>4. r \in {w \in Operations : operation[w] = "Committed"} \cap Removals
      BY <1>0, <1>b, <2>1 DEF RemovalsAreFinal
    <3> QED
      BY <2>1, <3>1, <3>3, <3>4 DEF Abstract!Free, journal
  <2> QED
    BY <1>0, <2>1, <2>4, <2>5 DEF RowsAgree
<1>8. ASSUME NEW r \in Removals, CommitUnlink(r)
      PROVE  UNCHANGED Abstract!vars
  <2> DEFINE s == ShardOf[r]
  <2>1. /\ s \in Shards /\ inventory[s] = "Tombstoned" /\ Place(s) = "Unlinked"
        /\ inventory' = [inventory EXCEPT ![s] = "Unlinked"]
        /\ UNCHANGED <<operation, route, packs>>
    BY <1>0, <1>a, <1>b, <1>8 DEF CommitUnlink, CallsAreGrounded
  <2>2. \A t \in Shards : Place(t)' = Place(t)
    BY <2>1 DEF Place, packs
  <2>3. \A t \in Shards : Content(t)' = Content(t)
    BY <2>1, <2>2, <1>0, ContentIsFound, ContentIsFoundNext DEF Found, RowTypes
  <2> QED
    BY <2>1, <2>3, AbstractStutter
<1>9. ASSUME NEW p \in Packs, RetireFiles(p)
      PROVE  UNCHANGED Abstract!vars
  <2>1. segment[p] = "Retiring" /\ file' = [file EXCEPT ![p] = [s \in Shards |-> "None"]] /\ UNCHANGED journal
    BY <1>0, <1>9 DEF RetireFiles, CallsAreGrounded
  <2>2. \A t \in Shards : Place(t)' = IF route[t] = p THEN "None" ELSE Place(t)
    BY <1>0, <2>1, OperationsAssumption DEF Place, journal, RowTypes
  <2>3. \A t \in Shards : route[t] = p => inventory[t] = "Unlinked"
    BY <2>1, OperationsAssumption DEF RowsInv, RetiredPacksAreIdle
  <2>4. ASSUME NEW t \in Shards
        PROVE  Found(inventory[t], Place(t)') = Found(inventory[t], Place(t))
    BY <1>0, <2>2, <2>3, <2>4 DEF Found, RowsAgree
  <2> QED
    BY <2>1, <2>4, InvisibleSteps DEF journal
<1>10. ASSUME NEW o \in Puts, PutStep(o)
       PROVE  [Abstract!Next]_(Abstract!vars)
  <2>1. CASE Reserve(o) \/ FinishRepairPut(o) \/ ResolvePut(o)
    BY <1>1, <2>1 DEF Reserve, FinishRepairPut, ResolvePut, journal, packs
  <2>2. CASE BeginPut(o)
    BY <1>1, <1>2, <2>2 DEF BeginPut, packs
  <2>3. CASE PrepareRepairPut(o)
    BY <1>1, <1>2, <2>3 DEF PrepareRepairPut, packs
  <2>4. CASE PutPack(o)
    BY <1>3, <1>a, <1>b, <2>4 DEF Abstract!Next
  <2>5. CASE CommitPut(o)
    BY <1>4, <2>5 DEF Abstract!Next
  <2> QED
    BY <1>10, <2>1, <2>2, <2>3, <2>4, <2>5 DEF PutStep
<1>11. ASSUME NEW r \in Removals, RemovalStep(r)
       PROVE  [Abstract!Next]_(Abstract!vars)
  <2>0. ShardOf[r] \in Shards
    BY <1>a, <1>b
  <2>1. CASE BeginTombstone(r)
    <3>1. \A w \in Operations : operation'[w] = "Committed" <=> operation[w] = "Committed"
      BY <1>0, <2>1 DEF BeginTombstone, RowTypes
    <3> QED
      BY <1>1, <2>1, <3>1 DEF BeginTombstone, packs
  <2>2. CASE TombstonePack(r)
    BY <1>5, <2>0, <2>2 DEF Abstract!Next
  <2>3. CASE RecoverTombstone(r)
    BY <1>1, <2>3 DEF RecoverTombstone, journal, packs
  <2>4. CASE CommitTombstone(r)
    BY <1>6, <2>4 DEF Abstract!Next
  <2>5. CASE BeginUnlink(r)
    BY <1>7, <2>0, <2>5 DEF Abstract!Next
  <2>6. CASE CommitUnlink(r)
    BY <1>8, <2>6
  <2> QED
    BY <1>11, <2>1, <2>2, <2>3, <2>4, <2>5, <2>6 DEF RemovalStep
<1>12. ASSUME NEW p \in Packs, RetirementStep(p)
       PROVE  [Abstract!Next]_(Abstract!vars)
  BY <1>1, <1>9, <1>12 DEF RetirementStep, BeginRetirement, CompleteRetirement, packs
<1>13. ASSUME NEW b \in Backups, BackupStep(b)
       PROVE  [Abstract!Next]_(Abstract!vars)
  BY <1>1, <1>13 DEF BackupStep, ReserveBackup, CancelBackup, CommitBackup, ReconcileBackup, ReleaseBackup,
                     ChargeBackup, packs
<1>14. CASE (\E o \in Operations : Lapse(o)) \/ Refuse \/ Crash \/ UNCHANGED vars
  BY <1>1, <1>14 DEF Lapse, Refuse, Crash, vars, journal, packs
<1> QED
  BY <1>10, <1>11, <1>12, <1>13, <1>14 DEF Next

\* The two databases of a target, cut anywhere and retried at will, behave as
\* the store that the StorageProvider contract promises: installed bytes are
\* readable before they are acknowledged, what a put acknowledges stays readable
\* until it is removed, and what is removed never comes back.
THEOREM StoreIsImplemented == Spec => ImplementsShardStore
<1>1. Init => Abstract!Init
  BY OperationsAssumption DEF Init, Content, Place, Abstract!Init
<1>2. RowsInv /\ RowsInv' /\ Acknowledged /\ [Next]_vars => [Abstract!Next]_(Abstract!vars)
  BY AbstractStep
<1> QED
  BY <1>1, <1>2, RowsHold, AcknowledgedHolds, PTL DEF Spec, ImplementsShardStore, Abstract!Spec
-----------------------------------------------------------------------------
(* Sums over finite sets: MapThenSumSet, which folds in an order of its own. *)

\* The element the fold takes next.
Pick(s) == CHOOSE x \in s : TRUE

\* g sums f over every subset of S, one element at a time.
Sums(f, S, g) == g = [s \in SUBSET S |-> IF s = {} THEN 0 ELSE f[Pick(s)] + g[s \ {Pick(s)}]]

\* SumOf is the value at S of a function that satisfies that equation.
LEMMA SumDef ==
  ASSUME NEW f, NEW S
  PROVE  SumOf(f, S) = (CHOOSE g : Sums(f, S, g))[S]
BY DEF SumOf, MapThenSumSet, MapThenFoldSet, Sums, Pick

\* The next element is one of the set.
LEMMA PickIn == \A s : s # {} => Pick(s) \in s
BY DEF Pick

\* The equation at one subset.
LEMMA SumsEquation ==
  ASSUME NEW f, NEW S, NEW g, Sums(f, S, g), NEW s \in SUBSET S
  PROVE  g[s] = IF s = {} THEN 0 ELSE f[Pick(s)] + g[s \ {Pick(s)}]
BY DEF Sums

\* Two such functions agree where both are defined.
LEMMA SumsAgree ==
  ASSUME NEW f, NEW S, NEW T, NEW g, NEW h, IsFiniteSet(S), T \subseteq S, Sums(f, S, g), Sums(f, T, h)
  PROVE  \A s \in SUBSET T : g[s] = h[s]
<1> DEFINE F == {s \in SUBSET T : g[s] = h[s]}
<1>0. IsFiniteSet(T)
  BY FS_Subset
<1>1. ASSUME NEW s \in SUBSET T, \A U \in SUBSET s : U # s => U \in F
      PROVE  s \in F
  <2>1. CASE s = {}
    BY <2>1, SumsEquation
  <2>2. CASE s # {}
    <3>1. Pick(s) \in s
      BY <2>2, PickIn
    <3>2. s \ {Pick(s)} \in F
      BY <3>1, <1>1
    <3>3. g[s] = f[Pick(s)] + g[s \ {Pick(s)}]
      BY <2>2, SumsEquation
    <3>4. h[s] = f[Pick(s)] + h[s \ {Pick(s)}]
      BY <2>2, SumsEquation
    <3> QED BY <3>2, <3>3, <3>4
  <2> QED BY <2>1, <2>2
<1>2. F = SUBSET T
  <2> HIDE DEF F
  <2>1. F \in SUBSET SUBSET T BY DEF F
  <2> QED BY <1>0, <1>1, <2>1, SubsetInduction
<1> QED BY <1>2

\* One unfolding of a sum, where both sides are defined.
LEMMA SumStep ==
  ASSUME NEW f, NEW S, IsFiniteSet(S), S # {},
         \E g : Sums(f, S, g), \E g : Sums(f, S \ {Pick(S)}, g)
  PROVE  SumOf(f, S) = f[Pick(S)] + SumOf(f, S \ {Pick(S)})
<1> DEFINE T == S \ {Pick(S)}
           g == CHOOSE gg : Sums(f, S, gg)
           h == CHOOSE gg : Sums(f, T, gg)
<1>1. Sums(f, S, g) /\ Sums(f, T, h)
  OBVIOUS
<1>2. SumOf(f, S) = g[S] /\ SumOf(f, T) = h[T]
  BY SumDef
<1>3. T \subseteq S /\ T \in SUBSET T
  OBVIOUS
<1> HIDE DEF g, h
<1>4. g[T] = h[T]
  <2> HIDE DEF T
  <2> QED BY <1>1, <1>3, SumsAgree
<1>5. g[S] = f[Pick(S)] + g[T]
  BY <1>1, SumsEquation
<1> QED BY <1>2, <1>4, <1>5

\* Over a finite set the equation has a solution.
LEMMA SumsExist ==
  ASSUME NEW f, NEW S, IsFiniteSet(S)
  PROVE  \E g : Sums(f, S, g)
<1> DEFINE F == {s \in SUBSET S : \E g : Sums(f, s, g)}
<1>1. ASSUME NEW T \in SUBSET S, \A U \in SUBSET T : U # T => U \in F
      PROVE  T \in F
  <2> DEFINE g == [s \in SUBSET T |-> IF s = {} THEN 0 ELSE f[Pick(s)] + SumOf(f, s \ {Pick(s)})]
  <2>1. ASSUME NEW s \in SUBSET T, s # {}
        PROVE  g[s \ {Pick(s)}] = SumOf(f, s \ {Pick(s)})
    <3> DEFINE U == s \ {Pick(s)}
    <3>1. U \in SUBSET T /\ U # T /\ IsFiniteSet(U)
      <4>1. IsFiniteSet(T) BY FS_Subset
      <4>2. U \in SUBSET T OBVIOUS
      <4>3. IsFiniteSet(U) BY <4>1, <4>2, FS_Subset
      <4> QED BY <2>1, <4>2, <4>3, PickIn
    <3>2. \E gg : Sums(f, U, gg)
      BY <3>1, <1>1
    <3>3. CASE U = {}
      <4>1. g[U] = 0
        BY <3>3
      <4>2. PICK gg : gg = CHOOSE ggg : Sums(f, U, ggg)
        OBVIOUS
      <4>3. Sums(f, U, gg)
        BY <3>2, <4>2
      <4>4. gg[U] = 0
        BY <3>3, <4>3, SumsEquation
      <4> QED BY <4>1, <4>2, <4>4, SumDef
    <3>4. CASE U # {}
      <4>1. U \ {Pick(U)} \in SUBSET T /\ U \ {Pick(U)} # T
        BY <3>1, <3>4, PickIn
      <4>2. \E gg : Sums(f, U \ {Pick(U)}, gg)
        BY <4>1, <1>1
      <4>3. SumOf(f, U) = f[Pick(U)] + SumOf(f, U \ {Pick(U)})
        <5> HIDE DEF U
        <5> QED BY <3>1, <3>2, <3>4, <4>2, SumStep
      <4>4. g[U] = f[Pick(U)] + SumOf(f, U \ {Pick(U)})
        BY <3>1, <3>4
      <4> QED BY <4>3, <4>4
    <3> QED BY <3>3, <3>4
  <2>2. Sums(f, T, g)
    <3> DEFINE h == [s \in SUBSET T |-> IF s = {} THEN 0 ELSE f[Pick(s)] + g[s \ {Pick(s)}]]
    <3>1. \A s \in SUBSET T : g[s] = h[s]
      <4>1. ASSUME NEW s \in SUBSET T PROVE g[s] = h[s]
        <5>1. CASE s = {}
          BY <5>1
        <5>2. CASE s # {}
          <6>1. g[s] = f[Pick(s)] + SumOf(f, s \ {Pick(s)})
            BY <5>2
          <6>2. h[s] = f[Pick(s)] + g[s \ {Pick(s)}]
            <7> HIDE DEF g
            <7> QED BY <5>2
          <6>3. g[s \ {Pick(s)}] = SumOf(f, s \ {Pick(s)})
            BY <5>2, <2>1
          <6> HIDE DEF g, h
          <6> QED BY <6>1, <6>2, <6>3
        <5> QED BY <5>1, <5>2
      <4> QED BY <4>1
    <3>2. g = [s \in SUBSET T |-> g[s]] /\ h = [s \in SUBSET T |-> h[s]]
      OBVIOUS
    <3>3. g = h
      <4> HIDE DEF g, h
      <4> QED BY <3>1, <3>2
    <3>4. Sums(f, T, g) <=> g = h
      BY DEF Sums
    <3> QED BY <3>3, <3>4
  <2> QED BY <2>2
<1>2. F = SUBSET S
  <2> HIDE DEF F
  <2>1. F \in SUBSET SUBSET S BY DEF F
  <2> QED BY <1>1, <2>1, SubsetInduction
<1> QED BY <1>2

\* The empty sum.
LEMMA SumEmpty ==
  ASSUME NEW f
  PROVE  SumOf(f, {}) = 0
<1> DEFINE g == CHOOSE gg : Sums(f, {}, gg)
<1>1. Sums(f, {}, g)
  BY SumsExist, FS_EmptySet
<1>2. SumOf(f, {}) = g[{}]
  BY SumDef
<1> HIDE DEF g
<1>3. g[{}] = 0
  BY <1>1, SumsEquation
<1> QED BY <1>2, <1>3

\* The sum unfolds at the element that is taken next.
LEMMA SumPick ==
  ASSUME NEW f, NEW S, IsFiniteSet(S), S # {}
  PROVE  SumOf(f, S) = f[Pick(S)] + SumOf(f, S \ {Pick(S)})
<1>1. IsFiniteSet(S \ {Pick(S)}) BY FS_RemoveElement
<1> QED BY <1>1, SumStep, SumsExist

\* A sum of naturals is one.
LEMMA SumNat ==
  ASSUME NEW D, NEW f \in [D -> Nat], NEW S \in SUBSET D, IsFiniteSet(S)
  PROVE  SumOf(f, S) \in Nat
<1> DEFINE F == {s \in SUBSET S : SumOf(f, s) \in Nat}
<1>1. ASSUME NEW T \in SUBSET S, \A U \in SUBSET T : U # T => U \in F
      PROVE  T \in F
  <2>1. CASE T = {}
    BY <2>1, SumEmpty
  <2>2. CASE T # {}
    <3>1. Pick(T) \in T
      BY <2>2, PickIn
    <3>2. SumOf(f, T \ {Pick(T)}) \in Nat
      BY <3>1, <1>1
    <3>3. IsFiniteSet(T) BY FS_Subset
    <3>4. SumOf(f, T) = f[Pick(T)] + SumOf(f, T \ {Pick(T)})
      BY <3>3, <2>2, SumPick
    <3>5. f[Pick(T)] \in Nat
      BY <3>1
    <3> QED BY <3>2, <3>4, <3>5
  <2> QED BY <2>1, <2>2
<1>2. F = SUBSET S
  <2> HIDE DEF F
  <2>1. F \in SUBSET SUBSET S BY DEF F
  <2> QED BY <1>1, <2>1, SubsetInduction
<1> QED BY <1>2

\* Any element may be taken first, so the order does not matter.
LEMMA SumRemove ==
  ASSUME NEW D, NEW f \in [D -> Nat], NEW S \in SUBSET D, IsFiniteSet(S), NEW x \in S
  PROVE  SumOf(f, S) = f[x] + SumOf(f, S \ {x})
<1> DEFINE F == {s \in SUBSET S : \A y \in s : SumOf(f, s) = f[y] + SumOf(f, s \ {y})}
<1>1. ASSUME NEW T \in SUBSET S, \A U \in SUBSET T : U # T => U \in F
      PROVE  T \in F
  <2>1. SUFFICES ASSUME NEW y \in T PROVE SumOf(f, T) = f[y] + SumOf(f, T \ {y})
    OBVIOUS
  <2> DEFINE c == Pick(T)
  <2>2. c \in T
    BY PickIn
  <2>3. IsFiniteSet(T) /\ IsFiniteSet(T \ {c}) /\ IsFiniteSet(T \ {y}) /\ IsFiniteSet((T \ {c}) \ {y})
    BY FS_Subset
  <2>4. SumOf(f, T) = f[c] + SumOf(f, T \ {c})
    BY <2>3, SumPick
  <2>5. CASE y = c
    BY <2>4, <2>5
  <2>6. CASE y # c
    <3>1. SumOf(f, T \ {c}) = f[y] + SumOf(f, (T \ {c}) \ {y})
      BY <1>1, <2>2, <2>6
    <3>2. SumOf(f, T \ {y}) = f[c] + SumOf(f, (T \ {y}) \ {c})
      BY <1>1, <2>2, <2>6
    <3>3. (T \ {y}) \ {c} = (T \ {c}) \ {y}
      OBVIOUS
    <3>4. SumOf(f, (T \ {c}) \ {y}) \in Nat
      BY <2>3, SumNat
    <3>5. f[c] \in Nat /\ f[y] \in Nat
      BY <2>2
    <3> QED BY <2>4, <3>1, <3>2, <3>3, <3>4, <3>5
  <2> QED BY <2>5, <2>6
<1>2. F = SUBSET S
  <2> HIDE DEF F
  <2>1. F \in SUBSET SUBSET S BY DEF F
  <2> QED BY <1>1, <2>1, SubsetInduction
<1> QED BY <1>2

\* One element more.
LEMMA SumAdd ==
  ASSUME NEW D, NEW f \in [D -> Nat], NEW S \in SUBSET D, IsFiniteSet(S), NEW x \in D, x \notin S
  PROVE  SumOf(f, S \cup {x}) = f[x] + SumOf(f, S)
<1>1. IsFiniteSet(S \cup {x})
  BY FS_AddElement
<1>2. (S \cup {x}) \ {x} = S /\ S \cup {x} \in SUBSET D /\ x \in S \cup {x}
  OBVIOUS
<1> QED
  BY <1>1, <1>2, SumRemove

\* A sum is the sum of its parts.
LEMMA SumSplit ==
  ASSUME NEW D, NEW f \in [D -> Nat], NEW S \in SUBSET D, IsFiniteSet(S), NEW T \in SUBSET S
  PROVE  SumOf(f, S) = SumOf(f, S \ T) + SumOf(f, T)
<1> DEFINE F == {U \in SUBSET T : SumOf(f, S) = SumOf(f, S \ U) + SumOf(f, U)}
<1>0. IsFiniteSet(T)
  BY FS_Subset
<1>1. ASSUME NEW U \in SUBSET T, \A V \in SUBSET U : V # U => V \in F
      PROVE  U \in F
  <2>1. CASE U = {}
    <3>1. S \ U = S
      BY <2>1
    <3> QED
      BY <2>1, <3>1, SumEmpty, SumNat
  <2>2. CASE U # {}
    <3>1. PICK x : x \in U
      BY <2>2
    <3> DEFINE V == U \ {x}
    <3>2. V \in F
      <4> HIDE DEF F
      <4> QED
        BY <1>1, <3>1
    <3>3. IsFiniteSet(U) /\ IsFiniteSet(V) /\ IsFiniteSet(S \ V) /\ IsFiniteSet(S \ U)
      BY <1>0, FS_Subset
    <3>4. SumOf(f, U) = f[x] + SumOf(f, V)
      BY <3>1, <3>3, SumRemove
    <3>5. (S \ V) \ {x} = S \ U /\ x \in S \ V
      BY <3>1
    <3>6. SumOf(f, S \ V) = f[x] + SumOf(f, S \ U)
      <4>1. S \ V \in SUBSET D
        OBVIOUS
      <4>2. SumOf(f, S \ V) = f[x] + SumOf(f, (S \ V) \ {x})
        <5> HIDE DEF V
        <5> QED
          BY <3>3, <3>5, <4>1, SumRemove
      <4> QED
        BY <3>5, <4>2
    <3>7. SumOf(f, V) \in Nat /\ SumOf(f, S \ U) \in Nat /\ f[x] \in Nat
      BY <3>1, <3>3, SumNat
    <3>8. SumOf(f, S) = SumOf(f, S \ V) + SumOf(f, V)
      BY <3>2
    <3> QED
      BY <3>4, <3>6, <3>7, <3>8
  <2> QED
    BY <2>1, <2>2
<1>2. F = SUBSET T
  <2>1. F \in SUBSET SUBSET T
    OBVIOUS
  <2> HIDE DEF F
  <2> QED
    BY <1>0, <1>1, <2>1, SubsetInduction
<1> QED
  BY <1>2

\* Shards that each have a write in progress are covered by its reservation.
LEMMA SumCover ==
  ASSUME NEW A \in SUBSET Shards, NEW B \in SUBSET Puts,
         \A s \in A : \E o \in B : ShardOf[o] = s
  PROVE  SumOf(Length, A) <= SumOf(Maximum, B)
<1> DEFINE F == {U \in SUBSET A : \A V \in SUBSET B :
                   (\A s \in U : \E o \in V : ShardOf[o] = s) => SumOf(Length, U) <= SumOf(Maximum, V)}
<1>0. IsFiniteSet(A) /\ Length \in [Shards -> Nat] /\ Maximum \in [Puts -> Nat]
  BY OperationsAssumption, BytesAssumption, FS_Subset
<1>a. \A V \in SUBSET B : IsFiniteSet(V) /\ SumOf(Maximum, V) \in Nat
  <2> TAKE V \in SUBSET B
  <2>1. IsFiniteSet(V)
    BY OperationsAssumption, FS_Subset
  <2> QED
    BY <1>0, <2>1, SumNat
<1>1. ASSUME NEW U \in SUBSET A, \A W \in SUBSET U : W # U => W \in F
      PROVE  U \in F
  <2>1. SUFFICES ASSUME NEW V \in SUBSET B, \A s \in U : \E o \in V : ShardOf[o] = s
                 PROVE  SumOf(Length, U) <= SumOf(Maximum, V)
    OBVIOUS
  <2>2. CASE U = {}
    BY <1>a, <2>2, SumEmpty
  <2>3. CASE U # {}
    <3>1. PICK s : s \in U
      BY <2>3
    <3>2. PICK o \in V : ShardOf[o] = s
      BY <2>1, <3>1
    <3>3. U \ {s} \in F
      <4> HIDE DEF F
      <4> QED
        BY <1>1, <3>1
    <3>4. \A t \in U \ {s} : \E w \in V \ {o} : ShardOf[w] = t
      BY <2>1, <3>2
    <3>5. SumOf(Length, U \ {s}) <= SumOf(Maximum, V \ {o})
      BY <3>3, <3>4
    <3>6. SumOf(Length, U) = Length[s] + SumOf(Length, U \ {s})
      <4>1. IsFiniteSet(U)
        BY <1>0, FS_Subset
      <4> QED
        BY <1>0, <3>1, <4>1, SumRemove
    <3>7. SumOf(Maximum, V) = Maximum[o] + SumOf(Maximum, V \ {o})
      BY <1>0, <1>a, <3>2, SumRemove
    <3>8. Length[s] <= Maximum[o] /\ Length[s] \in Nat /\ Maximum[o] \in Nat
      BY <1>0, <3>1, <3>2, BytesAssumption
    <3>9. SumOf(Length, U \ {s}) \in Nat /\ SumOf(Maximum, V \ {o}) \in Nat
      <4>1. IsFiniteSet(U \ {s})
        BY <1>0, FS_Subset
      <4> QED
        BY <1>0, <1>a, <4>1, SumNat
    <3> QED
      BY <3>5, <3>6, <3>7, <3>8, <3>9
  <2> QED
    BY <2>2, <2>3
<1>2. F = SUBSET A
  <2>1. F \in SUBSET SUBSET A
    OBVIOUS
  <2> HIDE DEF F
  <2> QED
    BY <1>0, <1>1, <2>1, SubsetInduction
<1> QED
  BY <1>2
-----------------------------------------------------------------------------
(* Capacity.                                                                *)

\* What the two counters are about.
Holding == {o \in Puts : reservation[o] \in {"Active", "InProgress"}}

Charged == {s \in Shards : inventory[s] \in {"Committed", "Tombstoned"}}

Backed(state) == {b \in Backups : backup[b] = state}

\* All of them are finite sets, and the sums are natural numbers.
LEMMA CapacityTypes ==
  /\ Maximum \in [Puts -> Nat] /\ Length \in [Shards -> Nat]
  /\ \A S \in SUBSET Puts : IsFiniteSet(S) /\ SumOf(Maximum, S) \in Nat
  /\ \A S \in SUBSET Shards : IsFiniteSet(S) /\ SumOf(Length, S) \in Nat
  /\ \A S \in SUBSET Backups : IsFiniteSet(S) /\ Cardinality(S) \in Nat
<1>1. Maximum \in [Puts -> Nat] /\ Length \in [Shards -> Nat]
  BY BytesAssumption
<1>2. \A S \in SUBSET Puts : IsFiniteSet(S)
  BY OperationsAssumption, FS_Subset
<1>3. \A S \in SUBSET Shards : IsFiniteSet(S)
  BY OperationsAssumption, FS_Subset
<1>4. \A S \in SUBSET Backups : IsFiniteSet(S)
  BY OperationsAssumption, FS_Subset
<1>5. \A S \in SUBSET Backups : Cardinality(S) \in Nat
  BY <1>4, FS_CardinalityType
<1>6. \A S \in SUBSET Puts : SumOf(Maximum, S) \in Nat
  BY <1>1, <1>2, SumNat
<1>7. \A S \in SUBSET Shards : SumOf(Length, S) \in Nat
  BY <1>1, <1>3, SumNat
<1> QED
  BY <1>1, <1>2, <1>3, <1>4, <1>5, <1>6, <1>7

\* The counters in terms of those sets.
LEMMA BalancedIs ==
  CapacityBalanced <=> /\ reserved = SumOf(Maximum, Holding) + Cardinality(Backed("Held"))
                       /\ committed = SumOf(Length, Charged) + Cardinality(Backed("Stored"))
BY DEF CapacityBalanced, Holding, Charged, Backed

\* The same in the next state.
LEMMA BalancedIsNext ==
  CapacityBalanced' <=>
    /\ reserved' = SumOf(Maximum, Holding') + Cardinality(Backed("Held")')
    /\ committed' = SumOf(Length, Charged') + Cardinality(Backed("Stored")')
BY DEF CapacityBalanced, Holding, Charged, Backed

\* A step that leaves both counters and what they are about alone.
LEMMA BalanceKeeps ==
  ASSUME CapacityBalanced, UNCHANGED <<reserved, committed, backup>>,
         Holding' = Holding, Charged' = Charged
  PROVE  CapacityBalanced'
<1>1. Backed("Held")' = Backed("Held") /\ Backed("Stored")' = Backed("Stored")
  BY DEF Backed
<1> QED
  BY <1>1, BalancedIs, BalancedIsNext

\* expire_active_reservations gives back what is due and keeps the rest.
LEMMA ExpiryBalances ==
  ASSUME RowsInv, CapacityBalanced
  PROVE  /\ Unexpired = SumOf(Maximum, Holding \ Due) + Cardinality(Backed("Held"))
         /\ {o \in Puts : Expired[o] \in {"Active", "InProgress"}} = Holding \ Due
<1>1. Due \in SUBSET Holding /\ Holding \in SUBSET Puts
  BY DEF Due, Holding
<1>2. SumOf(Maximum, Holding) = SumOf(Maximum, Holding \ Due) + SumOf(Maximum, Due)
  <2>1. Maximum \in [Puts -> Nat] /\ IsFiniteSet(Holding)
    BY <1>1, CapacityTypes
  <2> QED BY ONLY <1>1, <2>1, SumSplit
<1>3. SumOf(Maximum, Holding \ Due) \in Nat /\ SumOf(Maximum, Due) \in Nat /\ Cardinality(Backed("Held")) \in Nat
  <2>1. Holding \ Due \in SUBSET Puts /\ Due \in SUBSET Puts /\ Backed("Held") \in SUBSET Backups
    BY <1>1 DEF Backed
  <2> QED
    BY <2>1, CapacityTypes
<1>4. Unexpired = SumOf(Maximum, Holding \ Due) + Cardinality(Backed("Held"))
  BY <1>2, <1>3, BalancedIs DEF Unexpired
<1>5. {o \in Puts : Expired[o] \in {"Active", "InProgress"}} = Holding \ Due
  BY DEF Expired, Holding, Due, RowsInv, RowTypes
<1> QED
  BY <1>4, <1>5

\* A reservation that is admitted after the expiry is charged once.
LEMMA AdmissionBalances ==
  ASSUME RowsInv, CapacityBalanced, NEW o \in Puts, NEW status \in {"Active", "InProgress"},
         reservation' = [Expired EXCEPT ![o] = status],
         reserved' = IF o \in Holding \ Due THEN Unexpired ELSE Unexpired + Maximum[o],
         UNCHANGED <<committed, backup, inventory>>
  PROVE  CapacityBalanced'
<1>1. Holding' = (Holding \ Due) \cup {o}
  BY ExpiryKeeps, ExpiryBalances DEF Holding
<1>2. Holding \ Due \in SUBSET Puts
  BY DEF Holding
<1>3. SumOf(Maximum, Holding') =
        IF o \in Holding \ Due THEN SumOf(Maximum, Holding \ Due)
        ELSE Maximum[o] + SumOf(Maximum, Holding \ Due)
  <2>1. CASE o \in Holding \ Due
    <3>1. (Holding \ Due) \cup {o} = Holding \ Due
      BY <2>1
    <3> QED
      BY <1>1, <2>1, <3>1
  <2>2. CASE o \notin Holding \ Due
    <3>1. SumOf(Maximum, (Holding \ Due) \cup {o}) = Maximum[o] + SumOf(Maximum, Holding \ Due)
      <4>1. IsFiniteSet(Holding \ Due) /\ Maximum \in [Puts -> Nat]
        BY <1>2, CapacityTypes
      <4> QED
        BY <1>2, <2>2, <4>1, SumAdd
    <3> QED
      BY <1>1, <2>2, <3>1
  <2> QED
    BY <2>1, <2>2
<1>4. Backed("Held")' = Backed("Held") /\ Backed("Stored")' = Backed("Stored") /\ Charged' = Charged
  BY DEF Backed, Charged
<1>5. SumOf(Maximum, Holding \ Due) \in Nat /\ Maximum[o] \in Nat /\ Cardinality(Backed("Held")) \in Nat
  <2>1. Backed("Held") \in SUBSET Backups
    BY DEF Backed
  <2> QED
    BY <1>2, <2>1, CapacityTypes
<1>6. reserved' = SumOf(Maximum, Holding') + Cardinality(Backed("Held")')
  BY <1>3, <1>4, <1>5, ExpiryBalances
<1> QED
  BY <1>4, <1>6, BalancedIs, BalancedIsNext

\* consume_reservation and the charge of the bytes.
LEMMA CommitPutBalances ==
  ASSUME RowsInv, CapacityBalanced, NEW o \in Puts, CommitPut(o)
  PROVE  CapacityBalanced'
<1> DEFINE s == ShardOf[o]
<1>0. RowTypes /\ s \in Shards
  BY OperationsAssumption DEF RowsInv, Operations
<1>1. operation[o] = "Prepared" /\ reservation[o] = "InProgress"
  BY DEF CommitPut, RowsInv, CallsAreGrounded, ReservationsFollow
<1>2. /\ inventory[s] \in {"None", "Committed"}
      /\ inventory' = [inventory EXCEPT ![s] = "Committed"]
      /\ reservation' = [reservation EXCEPT ![o] = "Consumed"]
      /\ reserved' = reserved - Maximum[o]
      /\ committed' = committed + (IF inventory[s] = "None" THEN Length[s] ELSE 0)
      /\ UNCHANGED backup
  BY DEF CommitPut, CommittedBytes
<1>3. o \in Holding /\ Holding' = Holding \ {o} /\ Holding \in SUBSET Puts
  BY <1>0, <1>1, <1>2 DEF Holding, RowTypes
<1>4. SumOf(Maximum, Holding) = Maximum[o] + SumOf(Maximum, Holding \ {o})
  BY <1>3, CapacityTypes, SumRemove
<1>5. Charged' = Charged \cup {s} /\ (s \in Charged <=> inventory[s] # "None") /\ Charged \in SUBSET Shards
  BY <1>0, <1>2 DEF Charged, RowTypes
<1>6. SumOf(Length, Charged') = SumOf(Length, Charged) + (IF inventory[s] = "None" THEN Length[s] ELSE 0)
  <2>1. CASE inventory[s] = "None"
    <3>1. SumOf(Length, Charged \cup {s}) = Length[s] + SumOf(Length, Charged)
      BY <1>0, <1>5, <2>1, CapacityTypes, SumAdd
    <3>2. Length[s] \in Nat /\ SumOf(Length, Charged) \in Nat
      BY <1>0, <1>5, CapacityTypes
    <3> QED
      BY <1>5, <2>1, <3>1, <3>2
  <2>2. CASE inventory[s] # "None"
    <3>1. Charged' = Charged
      BY <1>5, <2>2
    <3>2. SumOf(Length, Charged) \in Nat
      BY <1>5, CapacityTypes
    <3> QED
      BY <2>2, <3>1, <3>2
  <2> QED
    BY <2>1, <2>2
<1>7. Backed("Held")' = Backed("Held") /\ Backed("Stored")' = Backed("Stored")
  BY <1>2 DEF Backed
<1>8. /\ SumOf(Maximum, Holding \ {o}) \in Nat /\ Maximum[o] \in Nat /\ Length[s] \in Nat
      /\ SumOf(Length, Charged) \in Nat
      /\ Cardinality(Backed("Held")) \in Nat /\ Cardinality(Backed("Stored")) \in Nat
  <2>1. /\ Backed("Held") \in SUBSET Backups /\ Backed("Stored") \in SUBSET Backups
        /\ Holding \ {o} \in SUBSET Puts
    BY <1>3 DEF Backed
  <2> QED
    BY <1>0, <1>5, <2>1, CapacityTypes
<1>9. reserved' = SumOf(Maximum, Holding') + Cardinality(Backed("Held")')
  BY <1>2, <1>3, <1>4, <1>7, <1>8, BalancedIs
<1>10. committed' = SumOf(Length, Charged') + Cardinality(Backed("Stored")')
  <2> DEFINE more == IF inventory[s] = "None" THEN Length[s] ELSE 0
  <2>1. more \in Nat /\ committed' = committed + more /\ SumOf(Length, Charged') = SumOf(Length, Charged) + more
    BY <1>2, <1>6, <1>8
  <2>2. committed = SumOf(Length, Charged) + Cardinality(Backed("Stored"))
    BY BalancedIs
  <2> HIDE DEF more
  <2> QED
    BY <1>7, <1>8, <2>1, <2>2
<1> QED
  BY <1>9, <1>10, BalancedIsNext

\* commit_unlink gives the bytes back once.
LEMMA CommitUnlinkBalances ==
  ASSUME RowsInv, CapacityBalanced, NEW r \in Removals, CommitUnlink(r)
  PROVE  CapacityBalanced'
<1> DEFINE s == ShardOf[r]
<1>0. RowTypes /\ s \in Shards
  BY OperationsAssumption DEF RowsInv, Operations
<1>1. /\ inventory[s] = "Tombstoned"
      /\ inventory' = [inventory EXCEPT ![s] = "Unlinked"]
      /\ committed' = committed - Length[s]
      /\ UNCHANGED <<reservation, reserved, backup>>
  BY DEF CommitUnlink, RowsInv, CallsAreGrounded
<1>2. s \in Charged /\ Charged' = Charged \ {s} /\ Charged \in SUBSET Shards
  BY <1>0, <1>1 DEF Charged, RowTypes
<1>3. SumOf(Length, Charged) = Length[s] + SumOf(Length, Charged \ {s})
  BY <1>2, CapacityTypes, SumRemove
<1>4. Backed("Held")' = Backed("Held") /\ Backed("Stored")' = Backed("Stored") /\ Holding' = Holding
  BY <1>1 DEF Backed, Holding
<1>5. SumOf(Length, Charged \ {s}) \in Nat /\ Length[s] \in Nat /\ Cardinality(Backed("Stored")) \in Nat
  <2>1. Backed("Stored") \in SUBSET Backups /\ Charged \ {s} \in SUBSET Shards
    BY <1>2 DEF Backed
  <2> QED
    BY <1>0, <2>1, CapacityTypes
<1>6. committed' = SumOf(Length, Charged') + Cardinality(Backed("Stored")')
  <2>1. committed = SumOf(Length, Charged) + Cardinality(Backed("Stored"))
    BY BalancedIs
  <2>2. SumOf(Length, Charged') = SumOf(Length, Charged \ {s})
    BY <1>2
  <2>3. Cardinality(Backed("Stored")') = Cardinality(Backed("Stored"))
    BY <1>4
  <2> QED
    BY <1>1, <1>3, <1>5, <2>1, <2>2, <2>3
<1> QED
  BY <1>1, <1>4, <1>6, BalancedIs, BalancedIsNext

\* How one backup object moves between two states.
LEMMA BackedMoves ==
  ASSUME RowsInv, NEW b \in Backups, NEW to \in {"None", "Held", "Stored", "Released"}, backup[b] # to,
         backup' = [backup EXCEPT ![b] = to]
  PROVE  \A state : Cardinality(Backed(state)') =
           IF state = to THEN Cardinality(Backed(state)) + 1
           ELSE IF state = backup[b] THEN Cardinality(Backed(state)) - 1
           ELSE Cardinality(Backed(state))
<1> TAKE state
<1>1. backup \in [Backups -> {"None", "Held", "Stored", "Released"}]
  BY DEF RowsInv, RowTypes
<1>2. IsFiniteSet(Backed(state))
  BY CapacityTypes DEF Backed
<1>3. CASE state = to
  <2>1. Backed(state)' = Backed(state) \cup {b} /\ b \notin Backed(state)
    BY <1>1, <1>3 DEF Backed
  <2> QED
    BY <1>2, <1>3, <2>1, FS_AddElement
<1>4. CASE state # to /\ state = backup[b]
  <2>1. Backed(state)' = Backed(state) \ {b} /\ b \in Backed(state)
    BY <1>1, <1>4 DEF Backed
  <2> QED
    BY <1>2, <1>4, <2>1, FS_RemoveElement
<1>5. CASE state # to /\ state # backup[b]
  <2>1. Backed(state)' = Backed(state)
    BY <1>1, <1>5 DEF Backed
  <2> QED
    BY <1>5, <2>1
<1> QED
  BY <1>3, <1>4, <1>5

\* backup_capacity.rs: every move of an object is charged to both counters.
LEMMA BackupBalances ==
  ASSUME RowsInv, CapacityBalanced, NEW b \in Backups, BackupStep(b)
  PROVE  CapacityBalanced'
<1>1. ASSUME NEW from \in {"None", "Held", "Stored"}, NEW to \in {"None", "Held", "Stored", "Released"},
             from # to, NEW held \in {-1, 0, 1}, NEW used \in {-1, 0, 1},
             held = (IF to = "Held" THEN 1 ELSE IF from = "Held" THEN -1 ELSE 0),
             used = (IF to = "Stored" THEN 1 ELSE IF from = "Stored" THEN -1 ELSE 0),
             ChargeBackup(b, from, to, held, used)
      PROVE  CapacityBalanced'
  <2>1. /\ backup[b] = from /\ backup' = [backup EXCEPT ![b] = to]
        /\ reserved' = reserved + held /\ committed' = committed + used
        /\ UNCHANGED <<reservation, inventory>>
    BY <1>1 DEF ChargeBackup
  <2>2. Holding' = Holding /\ Charged' = Charged
    BY <2>1 DEF Holding, Charged
  <2>3. /\ SumOf(Maximum, Holding) \in Nat /\ SumOf(Length, Charged) \in Nat
        /\ Cardinality(Backed("Held")) \in Nat /\ Cardinality(Backed("Stored")) \in Nat
    BY CapacityTypes DEF Holding, Charged, Backed
  <2>a. \A state : Cardinality(Backed(state)') =
          IF state = to THEN Cardinality(Backed(state)) + 1
          ELSE IF state = from THEN Cardinality(Backed(state)) - 1
          ELSE Cardinality(Backed(state))
    <3>1. backup[b] # to
      BY <1>1, <2>1
    <3> QED
      BY <2>1, <3>1, BackedMoves
  <2>b. /\ Cardinality(Backed("Held")') =
             IF "Held" = to THEN Cardinality(Backed("Held")) + 1
             ELSE IF "Held" = from THEN Cardinality(Backed("Held")) - 1
             ELSE Cardinality(Backed("Held"))
        /\ Cardinality(Backed("Stored")') =
             IF "Stored" = to THEN Cardinality(Backed("Stored")) + 1
             ELSE IF "Stored" = from THEN Cardinality(Backed("Stored")) - 1
             ELSE Cardinality(Backed("Stored"))
    BY <2>a, Zenon
  <2>4. Cardinality(Backed("Held")') = Cardinality(Backed("Held")) + held
    BY <1>1, <2>3, <2>b
  <2>5. Cardinality(Backed("Stored")') = Cardinality(Backed("Stored")) + used
    BY <1>1, <2>3, <2>b
  <2>6. reserved = SumOf(Maximum, Holding) + Cardinality(Backed("Held"))
        /\ committed = SumOf(Length, Charged) + Cardinality(Backed("Stored"))
    BY BalancedIs
  <2>7. reserved' = SumOf(Maximum, Holding') + Cardinality(Backed("Held")')
    BY <1>1, <2>1, <2>2, <2>3, <2>4, <2>6
  <2>8. committed' = SumOf(Length, Charged') + Cardinality(Backed("Stored")')
    BY <1>1, <2>1, <2>2, <2>3, <2>5, <2>6
  <2> QED
    BY <2>7, <2>8, BalancedIsNext
<1>2. CASE ReserveBackup(b)
  BY <1>1, <1>2 DEF ReserveBackup
<1>3. CASE CancelBackup(b)
  BY <1>1, <1>3 DEF CancelBackup
<1>4. CASE CommitBackup(b)
  BY <1>1, <1>4 DEF CommitBackup
<1>5. CASE ReconcileBackup(b)
  BY <1>1, <1>5 DEF ReconcileBackup
<1>6. CASE ReleaseBackup(b)
  BY <1>1, <1>6 DEF ReleaseBackup
<1> QED
  BY <1>2, <1>3, <1>4, <1>5, <1>6 DEF BackupStep

\* Every step keeps the counters equal to what the rows hold.
LEMMA BalanceStep ==
  ASSUME RowsInv, CapacityBalanced, [Next]_vars
  PROVE  CapacityBalanced'
<1>0. RowTypes /\ ReservationsFollow
  BY DEF RowsInv
<1>1. ASSUME UNCHANGED <<reservation, inventory, reserved, committed, backup>>
      PROVE  CapacityBalanced'
  <2>1. Holding' = Holding /\ Charged' = Charged
    BY <1>1 DEF Holding, Charged
  <2> QED
    BY <1>1, <2>1, BalanceKeeps
<1>2. ASSUME NEW o \in Puts, Reserve(o)
      PROVE  CapacityBalanced'
  <2>1. o \notin Holding
    BY <1>2 DEF Reserve, Holding
  <2> QED
    BY <1>2, <2>1, AdmissionBalances DEF Reserve
<1>3. ASSUME NEW o \in Puts, BeginPut(o)
      PROVE  CapacityBalanced'
  <2>1. Holding' = Holding /\ Charged' = Charged
    BY <1>0, <1>3 DEF BeginPut, Holding, Charged, RowTypes
  <2> QED
    BY <1>3, <2>1, BalanceKeeps DEF BeginPut
<1>4. ASSUME NEW o \in Puts, PrepareRepairPut(o)
      PROVE  CapacityBalanced'
  <2>1. UNCHANGED <<inventory, committed, backup>>
    BY <1>4 DEF PrepareRepairPut
  <2>2. CASE operation[o] = "None" /\ RepairReservation(o)
    <3>1. reservation[o] \notin {"InProgress", "Consumed"}
      BY <1>0, <2>2 DEF ReservationsFollow
    <3>2. o \in Holding \ Due <=> Expired[o] = "Active"
      BY <1>0, <3>1 DEF Holding, Due, Expired, RowTypes
    <3>3. /\ reservation' = [Expired EXCEPT ![o] = "InProgress"]
          /\ reserved' = IF o \in Holding \ Due THEN Unexpired ELSE Unexpired + Maximum[o]
      BY <2>2, <3>2 DEF RepairReservation
    <3> QED
      BY <2>1, <3>3, AdmissionBalances
  <2>3. CASE operation[o] = "Prepared" /\ reservation' = Expired /\ reserved' = Unexpired
    <3>1. Holding' = Holding \ Due /\ Charged' = Charged /\ Backed("Held")' = Backed("Held")
          /\ Backed("Stored")' = Backed("Stored")
      BY <2>1, <2>3, ExpiryBalances DEF Holding, Charged, Backed
    <3> QED
      BY <2>1, <2>3, <3>1, ExpiryBalances, BalancedIs, BalancedIsNext
  <2> QED
    BY <1>4, <2>2, <2>3 DEF PrepareRepairPut
<1>5. ASSUME NEW r \in Removals, CommitTombstone(r)
      PROVE  CapacityBalanced'
  <2>1. ShardOf[r] \in Shards
    BY OperationsAssumption DEF Operations
  <2>2. Holding' = Holding /\ Charged' = Charged
    BY <1>0, <1>5, <2>1 DEF CommitTombstone, Holding, Charged, RowTypes
  <2> QED
    BY <1>5, <2>2, BalanceKeeps DEF CommitTombstone
<1>6. ASSUME NEW o \in Puts, PutStep(o)
      PROVE  CapacityBalanced'
  <2>1. CASE FinishRepairPut(o) \/ ResolvePut(o) \/ PutPack(o)
    BY <1>1, <2>1 DEF FinishRepairPut, ResolvePut, PutPack, journal
  <2> QED
    BY <1>2, <1>3, <1>4, <1>6, <2>1, CommitPutBalances DEF PutStep
<1>7. ASSUME NEW r \in Removals, RemovalStep(r)
      PROVE  CapacityBalanced'
  <2>1. CASE BeginTombstone(r) \/ TombstonePack(r) \/ RecoverTombstone(r) \/ BeginUnlink(r)
    BY <1>1, <2>1 DEF BeginTombstone, TombstonePack, RecoverTombstone, BeginUnlink, journal
  <2> QED
    BY <1>5, <1>7, <2>1, CommitUnlinkBalances DEF RemovalStep
<1>8. ASSUME NEW p \in Packs, RetirementStep(p)
      PROVE  CapacityBalanced'
  BY <1>1, <1>8 DEF RetirementStep, BeginRetirement, RetireFiles, CompleteRetirement, journal
<1>9. CASE (\E o \in Operations : Lapse(o)) \/ Refuse \/ Crash \/ UNCHANGED vars
  BY <1>1, <1>9 DEF Lapse, Refuse, Crash, vars, journal
<1> QED
  BY <1>6, <1>7, <1>8, <1>9, BackupBalances DEF Next

\* The counters of target_state say exactly what the rows hold, for any
\* writes, removals and backups, after any crash, expiry or retry.
THEOREM CapacityIsBalanced == Spec => []CapacityBalanced
<1>1. Init => CapacityBalanced
  <2> SUFFICES ASSUME Init PROVE CapacityBalanced
    OBVIOUS
  <2>1. Holding = {} /\ Charged = {} /\ Backed("Held") = {} /\ Backed("Stored") = {}
    BY DEF Init, Holding, Charged, Backed
  <2>2. reserved = 0 /\ committed = 0
    BY DEF Init
  <2> QED
    BY <2>1, <2>2, SumEmpty, FS_EmptySet, BalancedIs
<1>2. RowsInv /\ CapacityBalanced /\ [Next]_vars => CapacityBalanced'
  BY BalanceStep
<1> QED
  BY <1>1, <1>2, RowsHold, PTL DEF Spec

\* Rows, files and counters keep their types: neither counter goes negative.
THEOREM TargetTypes == Spec => []TypeOK
<1>1. RowsInv /\ CapacityBalanced => TypeOK
  <2> SUFFICES ASSUME RowsInv, CapacityBalanced PROVE TypeOK
    OBVIOUS
  <2>1. /\ SumOf(Maximum, Holding) \in Nat /\ SumOf(Length, Charged) \in Nat
        /\ Cardinality(Backed("Held")) \in Nat /\ Cardinality(Backed("Stored")) \in Nat
    BY CapacityTypes DEF Holding, Charged, Backed
  <2>2. {reserved, committed} \subseteq Nat
    BY <2>1, BalancedIs
  <2> QED
    BY <2>2 DEF TypeOK, RowsInv, RowTypes
<1> QED
  BY <1>1, RowsHold, CapacityIsBalanced, PTL

\* The bytes on disk, also the ones written before they are committed and the
\* ones not yet erased, never exceed what the counters hold.
THEOREM PayloadIsCovered == Spec => []PayloadIsCharged
<1>1. RowsInv /\ CapacityBalanced => PayloadIsCharged
  <2> SUFFICES ASSUME RowsInv, CapacityBalanced PROVE PayloadIsCharged
    OBVIOUS
  <2> DEFINE P == {s \in Shards : \E p \in Packs : file[p][s] \in {"Active", "Tombstoned"}}
             N == {s \in P : inventory[s] = "None"}
  <2>1. \A s \in P : Place(s) \in {"Active", "Tombstoned"}
    BY OperationsAssumption DEF RowsInv, PlacesHold, Place
  <2>2. P \ N \in SUBSET Charged
    BY <2>1 DEF RowsInv, RowsAgree, RowTypes, Charged
  <2>3. \A s \in N : \E o \in Holding : ShardOf[o] = s
    <3>1. \A s \in N : \E o \in Puts : ShardOf[o] = s /\ operation[o] = "Prepared"
      BY <2>1 DEF RowsInv, RowsAgree
    <3>2. \A o \in Puts : operation[o] = "Prepared" => o \in Holding
      BY DEF RowsInv, ReservationsFollow, Holding
    <3> QED
      BY <3>1, <3>2
  <2>4. P \in SUBSET Shards /\ N \in SUBSET P /\ Charged \in SUBSET Shards /\ Holding \in SUBSET Puts
        /\ Backed("Held") \in SUBSET Backups /\ Backed("Stored") \in SUBSET Backups
    BY DEF Charged, Holding, Backed
  <2> HIDE DEF P, N
  <2>5. N \in SUBSET Shards /\ P \ N \in SUBSET Shards /\ Charged \ (P \ N) \in SUBSET Shards
    BY <2>4
  <2>6. /\ SumOf(Length, P) \in Nat /\ SumOf(Length, N) \in Nat /\ SumOf(Length, P \ N) \in Nat
        /\ SumOf(Length, Charged) \in Nat /\ SumOf(Length, Charged \ (P \ N)) \in Nat
        /\ SumOf(Maximum, Holding) \in Nat
        /\ Cardinality(Backed("Held")) \in Nat /\ Cardinality(Backed("Stored")) \in Nat
    BY <2>4, <2>5, CapacityTypes
  <2>7. SumOf(Length, P) = SumOf(Length, P \ N) + SumOf(Length, N)
    <3>1. IsFiniteSet(P) /\ Length \in [Shards -> Nat]
      BY <2>4, CapacityTypes
    <3> QED
      BY <2>4, <3>1, SumSplit
  <2>8. SumOf(Length, Charged) = SumOf(Length, Charged \ (P \ N)) + SumOf(Length, P \ N)
    <3>1. IsFiniteSet(Charged) /\ Length \in [Shards -> Nat]
      BY <2>4, CapacityTypes
    <3> QED
      BY ONLY <2>2, <2>4, <3>1, SumSplit
  <2>9. SumOf(Length, N) <= SumOf(Maximum, Holding)
    BY <2>3, <2>4, <2>5, SumCover
  <2>10. SumOf(Length, P) + Cardinality(Backed("Stored")) <= committed + reserved
    BY <2>6, <2>7, <2>8, <2>9, BalancedIs
  <2> QED
    BY <2>10 DEF PayloadIsCharged, P, Backed
<1> QED
  BY <1>1, RowsHold, CapacityIsBalanced, PTL
=============================================================================
