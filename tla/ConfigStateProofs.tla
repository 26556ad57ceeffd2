--------------------------- MODULE ConfigStateProofs ---------------------------
(***************************************************************************)
(* Theorems about ConfigState, for every value of its constants.           *)
(***************************************************************************)
EXTENDS ConfigState, FiniteSetTheorems, WellFoundedInduction, TLAPS

-----------------------------------------------------------------------------
(* Maps *)

\* A map on a part of S into T, and what is known of such a map.
LEMMA PartialFcnIntro ==
    ASSUME NEW S, NEW T, NEW D \in SUBSET S, NEW f \in [D -> T]
    PROVE  f \in PartialFcn(S, T)
BY DEF PartialFcn

\* A partial map has its domain in the source and its values in the target.
LEMMA PartialFcnElim ==
    ASSUME NEW S, NEW T, NEW f \in PartialFcn(S, T)
    PROVE  /\ DOMAIN f \subseteq S
           /\ f \in [DOMAIN f -> T]
BY DEF PartialFcn

\* The empty map, an overlay and a part of a map are maps again.
LEMMA EmptyMapType ==
    ASSUME NEW S, NEW T
    PROVE  EmptyMap \in PartialFcn(S, T) /\ DOMAIN EmptyMap = {}
<1>1. EmptyMap \in [{} -> T]
  BY DEF EmptyMap
<1>2. DOMAIN EmptyMap = {}
  BY DEF EmptyMap
<1> QED
  BY <1>1, <1>2, PartialFcnIntro

\* Writing entries over a map (BTreeMap::insert) keeps its type.
LEMMA OverlayType ==
    ASSUME NEW S, NEW T, NEW f \in PartialFcn(S, T), NEW g \in PartialFcn(S, T)
    PROVE  Overlay(f, g) \in PartialFcn(S, T)
<1>1. /\ DOMAIN f \subseteq S /\ f \in [DOMAIN f -> T]
      /\ DOMAIN g \subseteq S /\ g \in [DOMAIN g -> T]
  BY PartialFcnElim
<1>2. Overlay(f, g) \in [DOMAIN f \cup DOMAIN g -> T]
  BY <1>1 DEF Overlay
<1> QED
  BY <1>1, <1>2, PartialFcnIntro

\* A selection of the entries of a map keeps its type.
LEMMA PartType ==
    ASSUME NEW S, NEW T, NEW f \in PartialFcn(S, T), NEW D \in SUBSET DOMAIN f
    PROVE  [x \in D |-> f[x]] \in PartialFcn(S, T)
<1>1. DOMAIN f \subseteq S /\ f \in [DOMAIN f -> T]
  BY PartialFcnElim
<1>2. [x \in D |-> f[x]] \in [D -> T]
  BY <1>1
<1> QED
  BY <1>1, <1>2, PartialFcnIntro

\* Removing entries from a map keeps its type.
LEMMA WithoutType ==
    ASSUME NEW S, NEW T, NEW f \in PartialFcn(S, T), NEW R
    PROVE  Without(f, R) \in PartialFcn(S, T)
BY PartType DEF Without

\* The domains of an overlay and of a part of a map.
LEMMA OverlayDomain ==
    ASSUME NEW f, NEW g
    PROVE  DOMAIN Overlay(f, g) = DOMAIN f \cup DOMAIN g
BY DEF Overlay

\* The domain of a map after a removal.
LEMMA WithoutDomain ==
    ASSUME NEW f, NEW R
    PROVE  DOMAIN Without(f, R) = DOMAIN f \ R
BY DEF Without

\* The diff that is stored for a version, applied to the content before it,
\* gives the content of the version (diff.rs, compute_diff and apply_diff).
THEOREM DiffRoundTrip ==
    ASSUME NEW S, NEW T, NEW old \in PartialFcn(S, T), NEW new \in PartialFcn(S, T)
    PROVE  apply_diff(old, compute_diff(old, new)) = new
<1> DEFINE diff == compute_diff(old, new)
           after == apply_diff(old, diff)
           changed == {j \in DOMAIN new : j \notin DOMAIN old \/ old[j] # new[j]}
<1>1. new = [x \in DOMAIN new |-> new[x]]
  BY PartialFcnElim
<1>2. diff.upsert = [i \in changed |-> new[i]] /\ diff.delete = DOMAIN old \ DOMAIN new
  BY DEF compute_diff
<1>3. DOMAIN diff.upsert = changed
  BY <1>2
<1>4. after = [x \in (DOMAIN old \cup changed) \ diff.delete |->
                 Overlay(old, diff.upsert)[x]]
  BY <1>3, OverlayDomain DEF apply_diff, Without
<1>5. (DOMAIN old \cup changed) \ diff.delete = DOMAIN new
  BY <1>2
<1>6. ASSUME NEW x \in DOMAIN new
      PROVE  Overlay(old, diff.upsert)[x] = new[x]
  <2>1. Overlay(old, diff.upsert)[x] = IF x \in changed THEN diff.upsert[x] ELSE old[x]
    BY <1>3, <1>6 DEF Overlay
  <2> QED
    BY <2>1, <1>2, <1>6
<1> QED
  BY <1>1, <1>4, <1>5, <1>6

-----------------------------------------------------------------------------
(* Type correctness *)

\* The number of items that a cascade rewrites is a number.
LEMMA AffectedCount ==
    ASSUME StateTypeOK, NEW b \in Live
    PROVE  Cardinality(Affected(b)) \in Nat
<1>1. branches[b] \in BranchState
  BY DEF StateTypeOK, Live
<1>2. DOMAIN branches[b].shared_bindings \subseteq Item
  BY <1>1, PartialFcnElim DEF BranchState
<1>3. Affected(b) \subseteq Item
  BY <1>2 DEF Affected, BoundTo
<1> QED
  BY <1>3, ConfigAssumption, FS_Subset, FS_CardinalityType

\* next_monotonic returns a number above both of its arguments.
LEMMA NextMonotonicType ==
    ASSUME NEW active \in Nat, NEW gray \in Nat
    PROVE  /\ next_monotonic(active, gray) \in Nat
           /\ next_monotonic(active, gray) > active
           /\ next_monotonic(active, gray) > gray
BY DEF next_monotonic

\* BranchState::new makes a branch state.
LEMMA NewBranchStateType ==
    ASSUME NEW version \in Nat
    PROVE  NewBranchState(version) \in BranchState
BY EmptyMapType DEF NewBranchState, BranchState

\* The updates of a branch state that publications and structure
\* publications make.
LEMMA PublishedStateType ==
    ASSUME NEW st \in BranchState, NEW v \in Nat, NEW dirty \in BOOLEAN,
           NEW rid \in RequestId \cup {None}
    PROVE  [st EXCEPT !.active_version = v, !.last_request_id = rid,
                      !.bindings_dirty = dirty] \in BranchState
BY DEF BranchState

\* A gray publication leaves a branch state.
LEMMA GrayStateType ==
    ASSUME NEW st \in BranchState, NEW seq \in Nat, NEW dirty \in BOOLEAN,
           NEW rule \in GrayRule \cup {None}, NEW rid \in RequestId \cup {None}
    PROVE  [st EXCEPT !.gray_seq = seq, !.gray_rule = rule, !.last_request_id = rid,
                      !.bindings_dirty = dirty] \in BranchState
BY DEF BranchState

\* A structure publication leaves a branch state.
LEMMA RestructuredStateType ==
    ASSUME NEW st \in BranchState, NEW v \in Nat, NEW version \in Nat, NEW seq \in Nat,
           NEW bound \in PartialFcn(Item, SharedKey)
    PROVE  [st EXCEPT !.active_version = v, !.structure_version = version,
                      !.gray_seq = seq, !.shared_bindings = bound] \in BranchState
BY DEF BranchState

\* What the commands on one branch have in common: the branch exists before
\* and after, and no other one changes.
OneBranch(b) ==
    /\ b \in Live
    /\ branches[b] \in BranchState
    /\ branches'[b] \in BranchState
    /\ branches' = [c \in Branch |-> branches'[c]]
    /\ \A c \in Branch \ {b} : branches'[c] = branches[c]

\* A command that replaces the state of one branch leaves the others alone.
LEMMA OneBranchStep ==
    ASSUME StateTypeOK, NEW b \in Branch, NEW st \in BranchState,
           b \in Live, branches' = [branches EXCEPT ![b] = st]
    PROVE  OneBranch(b) /\ branches'[b] = st
BY DEF OneBranch, StateTypeOK, Live

\* A command that gives one branch a branch state keeps the types.
LEMMA OneBranchType ==
    ASSUME StateTypeOK, NEW b \in Branch, OneBranch(b),
           UNCHANGED <<structure, structDraft, shared, sharedDraft>>
    PROVE  StateTypeOK'
BY DEF OneBranch, StateTypeOK

\* The parts of a branch state that the invariants below read.
SameReferences(b) ==
    /\ branches'[b].structure_version = branches[b].structure_version
    /\ branches'[b].shared_bindings = branches[b].shared_bindings

SameGray(b) ==
    /\ branches'[b].gray_seq = branches[b].gray_seq
    /\ branches'[b].gray_rule = branches[b].gray_rule

\* DraftUpdate changes one branch, to a branch state.
LEMMA DraftUpdateBranch ==
    ASSUME StateTypeOK, NEW b \in Branch, NEW edit \in DraftInputs, NEW expected,
           DraftUpdate(b, edit, expected)
    PROVE  /\ OneBranch(b)
           /\ SameGray(b)
           /\ branches'[b].active_version = branches[b].active_version
           /\ branches'[b].structure_version = branches[b].structure_version
           /\ branches'[b].shared_bindings = Rebound(branches[b].shared_bindings, edit.bindings)
<1> DEFINE st == branches[b]
           bound == st.shared_bindings
           kept == {j \in DOMAIN edit.bindings : edit.bindings[j] # None}
           rebound == Rebound(bound, edit.bindings)
           dirty == st.bindings_dirty \/ rebound # bound
           rev == st.draft_rev + 1
<1>1. st \in BranchState /\ b \in Live
  BY DEF DraftUpdate, Live, StateTypeOK
<1>2. DOMAIN edit.bindings \subseteq Item
      /\ edit.bindings \in [DOMAIN edit.bindings -> SharedKey \cup {None}]
  BY ConfigAssumption, PartialFcnElim
<1>3. [i \in kept |-> edit.bindings[i]] \in [kept -> SharedKey]
  BY <1>2
<1>4. [i \in kept |-> edit.bindings[i]] \in PartialFcn(Item, SharedKey)
  BY <1>2, <1>3, PartialFcnIntro
<1>5. Without(bound, DOMAIN edit.bindings) \in PartialFcn(Item, SharedKey)
  BY <1>1, WithoutType DEF BranchState
<1>6. rebound \in PartialFcn(Item, SharedKey)
  BY <1>4, <1>5, OverlayType DEF Rebound
<1>7. dirty \in BOOLEAN /\ rev \in Nat
  BY <1>1 DEF BranchState
<1>8. branches' = [branches EXCEPT ![b] =
          [st EXCEPT !.shared_bindings = rebound, !.bindings_dirty = dirty, !.draft_rev = rev]]
  BY DEF DraftUpdate
<1> HIDE DEF rebound, dirty, rev, st
<1>9. [st EXCEPT !.shared_bindings = rebound, !.bindings_dirty = dirty, !.draft_rev = rev]
        \in BranchState
  BY <1>1, <1>6, <1>7 DEF BranchState
<1>10. OneBranch(b) /\ branches'[b] =
          [st EXCEPT !.shared_bindings = rebound, !.bindings_dirty = dirty, !.draft_rev = rev]
  BY <1>1, <1>8, <1>9, OneBranchStep
<1> QED
  BY <1>1, <1>10 DEF BranchState, SameGray, st, rebound

\* Publish changes one branch, to a branch state.
LEMMA PublishBranch ==
    ASSUME StateTypeOK, NEW b \in Branch, NEW rid \in RequestId, NEW policy,
           Publish(b, rid, policy)
    PROVE  /\ OneBranch(b)
           /\ SameGray(b)
           /\ SameReferences(b)
           /\ branches'[b].active_version = branches[b].active_version + 1
<1> DEFINE v == branches[b].active_version + 1
           st == [branches[b] EXCEPT !.active_version = v, !.last_request_id = rid,
                                     !.bindings_dirty = FALSE]
<1>1. branches[b] \in BranchState /\ b \in Live
  BY DEF Publish, Publishable, Live, StateTypeOK
<1>2. v \in Nat /\ FALSE \in BOOLEAN
  BY <1>1 DEF BranchState
<1>3. st \in BranchState
  <2> HIDE DEF v
  <2> QED
    BY <1>1, <1>2, PublishedStateType
<1>4. branches' = [branches EXCEPT ![b] = st]
  BY DEF Publish
<1>5. OneBranch(b) /\ branches'[b] = st
  <2> HIDE DEF st
  <2> QED
    BY <1>1, <1>3, <1>4, OneBranchStep
<1> QED
  BY <1>1, <1>5 DEF BranchState, SameGray, SameReferences

\* Rollback changes one branch, to a branch state.
LEMMA RollbackBranch ==
    ASSUME StateTypeOK, NEW b \in Branch, NEW rid \in RequestId, NEW to, Rollback(b, to, rid)
    PROVE  /\ OneBranch(b)
           /\ SameGray(b)
           /\ SameReferences(b)
           /\ branches'[b].active_version = branches[b].active_version + 1
<1> DEFINE v == branches[b].active_version + 1
           st == [branches[b] EXCEPT !.active_version = v, !.last_request_id = rid]
<1>1. branches[b] \in BranchState /\ b \in Live
  BY DEF Rollback, Live, StateTypeOK
<1>2. v \in Nat /\ rid \in RequestId \cup {None}
  BY <1>1 DEF BranchState
<1>3. st \in BranchState
  <2> HIDE DEF v
  <2> QED
    BY <1>1, <1>2 DEF BranchState
<1>4. branches' = [branches EXCEPT ![b] = st]
  BY DEF Rollback
<1>5. OneBranch(b) /\ branches'[b] = st
  <2> HIDE DEF st
  <2> QED
    BY <1>1, <1>3, <1>4, OneBranchStep
<1> QED
  BY <1>1, <1>5 DEF BranchState, SameGray, SameReferences

\* GrayPublish changes one branch, to a branch state.
LEMMA GrayPublishBranch ==
    ASSUME StateTypeOK, NEW b \in Branch, NEW rid \in RequestId, NEW policy,
           NEW rule \in GrayRule, GrayPublish(b, rule, rid, policy)
    PROVE  /\ OneBranch(b)
           /\ SameReferences(b)
           /\ branches'[b].active_version = branches[b].active_version
           /\ branches'[b].gray_seq = branches[b].gray_seq + 1
           /\ branches'[b].gray_rule = rule
<1> DEFINE seq == branches[b].gray_seq + 1
           st == [branches[b] EXCEPT !.gray_seq = seq, !.gray_rule = rule,
                                     !.last_request_id = rid, !.bindings_dirty = FALSE]
<1>1. branches[b] \in BranchState /\ b \in Live
  BY DEF GrayPublish, Publishable, Live, StateTypeOK
<1>2. seq \in Nat /\ FALSE \in BOOLEAN
  BY <1>1 DEF BranchState
<1>3. st \in BranchState
  <2> HIDE DEF seq
  <2> QED
    BY <1>1, <1>2, GrayStateType
<1>4. branches' = [branches EXCEPT ![b] = st]
  BY DEF GrayPublish
<1>5. OneBranch(b) /\ branches'[b] = st
  <2> HIDE DEF st
  <2> QED
    BY <1>1, <1>3, <1>4, OneBranchStep
<1> QED
  BY <1>1, <1>5 DEF BranchState, SameReferences

\* GrayPromote changes one branch, to a branch state.
LEMMA GrayPromoteBranch ==
    ASSUME StateTypeOK, NEW b \in Branch, NEW rid \in RequestId, GrayPromote(b, rid)
    PROVE  /\ OneBranch(b)
           /\ SameReferences(b)
           /\ branches'[b].active_version > branches[b].active_version
           /\ branches'[b].active_version > branches[b].gray_seq
           /\ branches'[b].gray_seq = 0
           /\ branches'[b].gray_rule = None
<1> DEFINE v == next_monotonic(branches[b].active_version, branches[b].gray_seq)
           st == [GrayCleared(branches[b], rid) EXCEPT !.active_version = v]
<1>1. branches[b] \in BranchState /\ b \in Live
  BY DEF GrayPromote, Live, StateTypeOK
<1>2. v \in Nat /\ v > branches[b].active_version /\ v > branches[b].gray_seq
  BY <1>1, NextMonotonicType DEF BranchState
<1>3. st \in BranchState
  BY <1>1, <1>2 DEF GrayCleared, BranchState
<1>4. branches' = [branches EXCEPT ![b] = st]
  BY DEF GrayPromote
<1>5. OneBranch(b) /\ branches'[b] = st
  <2> HIDE DEF st
  <2> QED
    BY <1>1, <1>3, <1>4, OneBranchStep
<1> HIDE DEF v
<1> QED
  BY <1>1, <1>2, <1>5 DEF BranchState, SameReferences, GrayCleared

\* GrayAbort changes one branch, to a branch state.
LEMMA GrayAbortBranch ==
    ASSUME StateTypeOK, NEW b \in Branch, NEW rid \in RequestId, GrayAbort(b, rid)
    PROVE  /\ OneBranch(b)
           /\ SameReferences(b)
           /\ branches'[b].active_version = branches[b].active_version
           /\ branches'[b].gray_seq = 0
           /\ branches'[b].gray_rule = None
<1> DEFINE st == GrayCleared(branches[b], rid)
<1>1. branches[b] \in BranchState /\ b \in Live
  BY DEF GrayAbort, Live, StateTypeOK
<1>2. st \in BranchState
  BY <1>1 DEF GrayCleared, BranchState
<1>3. branches' = [branches EXCEPT ![b] = st]
  BY DEF GrayAbort
<1>4. OneBranch(b) /\ branches'[b] = st
  <2> HIDE DEF st
  <2> QED
    BY <1>1, <1>2, <1>3, OneBranchStep
<1> QED
  BY <1>1, <1>4 DEF BranchState, SameReferences, GrayCleared

\* PublishStructure turns every branch state into a branch state.
LEMMA RestructuredType ==
    ASSUME StateTypeOK, NEW b \in Live
    PROVE  Restructured(branches[b], structDraft.defs) \in BranchState
<1> DEFINE st == branches[b]
           bound == [i \in FittingBindings(st, structDraft.defs) |-> st.shared_bindings[i]]
           vno == next_monotonic(st.active_version, st.gray_seq)
           seq == IF st.gray_seq > 0 THEN vno + 1 ELSE 0
           version == structure.version + 1
<1>1. st \in BranchState
  BY DEF Live, StateTypeOK
<1>2. bound \in PartialFcn(Item, SharedKey)
  BY <1>1, PartType DEF FittingBindings, BranchState
<1>3. vno \in Nat
  BY <1>1, NextMonotonicType DEF BranchState
<1>4. version \in Nat
  BY DEF StateTypeOK
<1>5. seq \in Nat
  BY <1>3
<1>6. Restructured(st, structDraft.defs) =
        [st EXCEPT !.active_version = vno, !.structure_version = version,
                   !.gray_seq = seq, !.shared_bindings = bound]
  BY DEF Restructured
<1>7. [st EXCEPT !.active_version = vno, !.structure_version = version,
                 !.gray_seq = seq, !.shared_bindings = bound] \in BranchState
  <2> HIDE DEF st, bound, vno, seq, version
  <2> QED
    BY <1>1, <1>2, <1>3, <1>4, <1>5, RestructuredStateType
<1> QED
  BY <1>6, <1>7

\* Every command keeps the state in its types.
LEMMA TypeStep ==
    ASSUME StateTypeOK, [Next]_vars
    PROVE  StateTypeOK'
<1> USE DEF StateTypeOK
<1>1. ASSUME NEW defs \in StructureInputs, StructureDraftSet(structure.version, defs)
      PROVE  StateTypeOK'
  BY <1>1, ConfigAssumption DEF StructureDraftSet
<1>2. CASE PublishStructure
  <2>1. structDraft \in [base_version : Nat, defs : PartialFcn(Item, ItemDef)]
    BY <1>2 DEF PublishStructure
  <2>2. ASSUME NEW b \in Live
        PROVE  Restructured(branches[b], structDraft.defs) \in BranchState
    BY RestructuredType
  <2>3. branches' \in [Branch -> BranchState \cup {None}]
    BY <1>2, <2>2 DEF PublishStructure
  <2> QED
    BY <1>2, <2>1, <2>3 DEF PublishStructure
<1>3. ASSUME NEW b \in Branch, NEW src \in Branch \cup {None}, BranchCreate(b, src)
      PROVE  StateTypeOK'
  <2>1. NewBranchState(structure.version) \in BranchState
    BY NewBranchStateType
  <2>2. src # None => branches[src].shared_bindings \in PartialFcn(Item, SharedKey)
    BY <1>3 DEF BranchCreate, Live, BranchState
  <2>3. src # None => [NewBranchState(structure.version) EXCEPT
                         !.shared_bindings = branches[src].shared_bindings] \in BranchState
    BY <2>1, <2>2 DEF BranchState
  <2> QED
    BY <1>3, <2>1, <2>3 DEF BranchCreate
<1>4. ASSUME NEW b \in Branch, BranchDelete(b)
      PROVE  StateTypeOK'
  BY <1>4 DEF BranchDelete
<1>5. ASSUME NEW b \in Branch, NEW edit \in DraftInputs,
             NEW expected \in {None} \cup 0..MaxDraftRev, DraftUpdate(b, edit, expected)
      PROVE  StateTypeOK'
  BY <1>5, DraftUpdateBranch, OneBranchType DEF DraftUpdate
<1>6. ASSUME NEW b \in Branch, NEW rid \in RequestId, NEW policy \in Policies,
             Publish(b, rid, policy)
      PROVE  StateTypeOK'
  BY <1>6, PublishBranch, OneBranchType DEF Publish
<1>7. ASSUME NEW b \in Branch, NEW rid \in RequestId, NEW to \in 1..MaxVersion,
             Rollback(b, to, rid)
      PROVE  StateTypeOK'
  BY <1>7, RollbackBranch, OneBranchType DEF Rollback
<1>8. ASSUME NEW b \in Branch, NEW rid \in RequestId, NEW policy \in Policies,
             NEW rule \in GrayRule, GrayPublish(b, rule, rid, policy)
      PROVE  StateTypeOK'
  BY <1>8, GrayPublishBranch, OneBranchType DEF GrayPublish
<1>9. ASSUME NEW b \in Branch, NEW rid \in RequestId, GrayPromote(b, rid)
      PROVE  StateTypeOK'
  BY <1>9, GrayPromoteBranch, OneBranchType DEF GrayPromote
<1>10. ASSUME NEW b \in Branch, NEW rid \in RequestId, GrayAbort(b, rid)
       PROVE  StateTypeOK'
  BY <1>10, GrayAbortBranch, OneBranchType DEF GrayAbort
<1>11. ASSUME NEW b \in Branch, Prune(b)
       PROVE  StateTypeOK'
  BY <1>11 DEF Prune
<1>12. ASSUME NEW k \in SharedKey, NEW item \in SharedInputs, SharedDraftUpdate(k, item)
       PROVE  StateTypeOK'
  <2>1. [x \in {k} |-> item] \in PartialFcn(SharedKey, SharedItem)
    BY ConfigAssumption, PartialFcnIntro
  <2> QED
    BY <1>12, <2>1, OverlayType DEF SharedDraftUpdate
<1>13. ASSUME NEW mode \in CascadeModes, SharedPublish(mode)
       PROVE  StateTypeOK'
  <2>1. ASSUME NEW b \in Live
        PROVE  [branches[b] EXCEPT !.active_version = @ + Cardinality(Affected(b))] \in BranchState
    BY AffectedCount DEF Live, BranchState
  <2>2. branches' \in [Branch -> BranchState \cup {None}]
    BY <1>13, <2>1 DEF SharedPublish
  <2> QED
    BY <1>13, <2>2, OverlayType, EmptyMapType DEF SharedPublish
<1>14. ASSUME NEW mode \in CascadeModes, SharedPublishAborted(mode)
       PROVE  StateTypeOK'
  BY <1>14, WithoutType DEF SharedPublishAborted
<1>15. ASSUME NEW k \in SharedKey, SharedDelete(k)
       PROVE  StateTypeOK'
  BY <1>15, WithoutType DEF SharedDelete
<1>16. CASE UNCHANGED vars
  BY <1>16 DEF vars
<1> QED
  BY <1>1, <1>2, <1>3, <1>4, <1>5, <1>6, <1>7, <1>8, <1>9, <1>10, <1>11, <1>12,
     <1>13, <1>14, <1>15, <1>16 DEF Next, StructureNext, BranchNext, SharedNext

\* After ProjectCreate every part of the state is of its type.
LEMMA TypeInit ==
    ASSUME Init
    PROVE  StateTypeOK
BY EmptyMapType, NewBranchStateType DEF Init, StateTypeOK

\* StateTypeOK, the structure, branch and shared library part of TypeOK, is an
\* invariant of the state machine.
THEOREM TypeCorrect == Spec => []StateTypeOK
<1>1. Init => StateTypeOK
  BY TypeInit
<1>2. StateTypeOK /\ [Next]_vars => StateTypeOK'
  BY TypeStep
<1> QED
  BY <1>1, <1>2, PTL DEF Spec

-----------------------------------------------------------------------------
(* The structure is the same on every branch, and its references resolve *)

\* The parts of the state that the inductive invariants read as functions of
\* the branch.
ByBranch ==
    /\ drafts = [b \in Branch |-> drafts[b]]
    /\ graySnaps = [b \in Branch |-> graySnaps[b]]

\* The inductive invariant behind the theorems below.
References ==
    /\ StructureLockstep
    /\ BindingsResolve
    /\ RefItemsReadOnly
    /\ GrayServable

StateInv == StateTypeOK /\ ByBranch /\ References

\* A step that leaves the structure, the bindings and the published shared
\* items of the remaining branches alone.
ReferencesKept ==
    /\ structure' = structure
    /\ DOMAIN shared \subseteq DOMAIN shared'
    /\ \A b \in Branch : branches'[b] # None =>
          /\ branches[b] # None
          /\ branches'[b].structure_version = branches[b].structure_version
          /\ branches'[b].shared_bindings = branches[b].shared_bindings

\* Commands that touch neither bindings nor the library keep the bindings resolved.
LEMMA ReferencesKeptStep ==
    ASSUME StructureLockstep, BindingsResolve, ReferencesKept
    PROVE  StructureLockstep' /\ BindingsResolve'
BY DEF StructureLockstep, BindingsResolve, ReferencesKept, Live

\* A step that leaves gray releases alone.
GrayKept ==
    /\ graySnaps' = graySnaps
    /\ \A b \in Branch :
          /\ branches'[b] = None <=> branches[b] = None
          /\ branches[b] # None => /\ branches'[b].gray_seq = branches[b].gray_seq
                                   /\ branches'[b].gray_rule = branches[b].gray_rule

\* Commands that touch neither gray numbers nor gray snapshots keep them paired.
LEMMA GrayKeptStep ==
    ASSUME GrayServable, GrayKept
    PROVE  GrayServable'
<1>1. ASSUME NEW b \in Branch
      PROVE  GrayNumber(b)' = GrayNumber(b)
  BY DEF GrayKept, GrayNumber
<1> QED
  BY <1>1 DEF GrayServable, GrayKept, Live

\* A command on one branch that keeps its bindings keeps them resolved.
LEMMA OneBranchReferences ==
    ASSUME NEW b \in Branch, OneBranch(b), SameReferences(b),
           UNCHANGED <<structure, shared>>
    PROVE  ReferencesKept
BY NoneAssumption DEF OneBranch, SameReferences, ReferencesKept, Live

\* A command on one branch that keeps its gray release keeps it servable.
LEMMA OneBranchGray ==
    ASSUME NEW b \in Branch, OneBranch(b), SameGray(b), UNCHANGED graySnaps
    PROVE  GrayKept
BY NoneAssumption DEF OneBranch, SameGray, GrayKept, Live

\* PublishStructure moves every branch to the new structure version, keeps the
\* bindings that fit it, drops the drafts of referenced items and moves the
\* gray snapshots.
LEMMA PublishStructureStep ==
    ASSUME StateInv, PublishStructure
    PROVE  References'
<1> USE DEF StateInv, References
<1>1. ASSUME NEW b \in Branch, branches'[b] # None
      PROVE  /\ b \in Live
             /\ branches[b] \in BranchState
             /\ branches'[b] = Restructured(branches[b], structDraft.defs)
             /\ drafts'[b] = RestructuredDraft(drafts[b], structDraft.defs)
  BY <1>1 DEF PublishStructure, Live, StateTypeOK
<1>2. structure' = [version |-> structure.version + 1, defs |-> structDraft.defs]
  BY DEF PublishStructure
<1>3. StructureLockstep'
  BY <1>1, <1>2, ZenonT(30) DEF StructureLockstep, Live, Restructured, BranchState
<1>4. BindingsResolve'
  <2>1. ASSUME NEW b \in Branch, branches'[b] # None
        PROVE  branches'[b].shared_bindings =
                 [i \in FittingBindings(branches[b], structDraft.defs) |->
                     branches[b].shared_bindings[i]]
    BY <1>1, <2>1 DEF Restructured, BranchState
  <2>2. ASSUME NEW b \in Branch, branches'[b] # None,
               NEW i \in DOMAIN branches'[b].shared_bindings
        PROVE  /\ i \in SharedDefs(structDraft.defs)
               /\ branches'[b].shared_bindings[i] \in DOMAIN shared
    BY <2>1, <2>2 DEF FittingBindings
  <2>3. shared' = shared /\ structure'.defs = structDraft.defs
    BY <1>2 DEF PublishStructure
  <2> QED
    BY <2>2, <2>3 DEF BindingsResolve, Live
<1>5. RefItemsReadOnly'
  <2>1. ASSUME NEW b \in Branch, branches'[b] # None
        PROVE  DOMAIN drafts'[b].values \cap SharedDefs(structDraft.defs) = {}
    <3>1. drafts'[b] = RestructuredDraft(drafts[b], structDraft.defs)
      BY <1>1, <2>1
    <3> DEFINE values == drafts'[b].values
    <3>2. values = [i \in (DOMAIN drafts[b].values \cap DOMAIN structDraft.defs)
                          \ SharedDefs(structDraft.defs) |-> drafts[b].values[i]]
      BY <3>1 DEF RestructuredDraft
    <3>3. DOMAIN values = (DOMAIN drafts[b].values \cap DOMAIN structDraft.defs)
                          \ SharedDefs(structDraft.defs)
      BY <3>2
    <3> QED
      BY <3>3
  <2>2. structure'.defs = structDraft.defs
    BY <1>2
  <2> QED
    BY <2>1, <2>2 DEF RefItemsReadOnly, Live
<1>6. GrayServable'
  <2>1. ASSUME NEW b \in Branch, b \notin Live
        PROVE  branches'[b] = None /\ DOMAIN graySnaps'[b] = {}
    <3>1. GrayNumber(b) = 0
      BY <2>1 DEF GrayNumber, Live
    <3>2. DOMAIN graySnaps[b] = IF GrayNumber(b) > 0 THEN {GrayNumber(b)} ELSE {}
      BY DEF GrayServable
    <3>3. DOMAIN graySnaps[b] = {}
      BY <3>1, <3>2
    <3> QED
      BY <2>1, <3>3 DEF PublishStructure
  <2>2. ASSUME NEW b \in Live
        PROVE  LET seq == branches'[b].gray_seq
               IN  /\ DOMAIN graySnaps'[b] = IF seq > 0 THEN {seq} ELSE {}
                   /\ seq > 0 <=> branches'[b].gray_rule # None
                   /\ branches'[b] # None
    <3> DEFINE st == branches[b]
               vno == next_monotonic(st.active_version, st.gray_seq)
    <3>1. st \in BranchState /\ st # None /\ b \in Branch
      BY DEF Live, StateTypeOK
    <3>2. vno \in Nat
      BY <3>1, NextMonotonicType DEF BranchState
    <3>3. branches'[b] = Restructured(st, structDraft.defs) /\ graySnaps'[b] = GrayBumped(b)
      BY DEF PublishStructure, Live
    <3>4. branches'[b].gray_rule = st.gray_rule
          /\ branches'[b].gray_seq = IF st.gray_seq > 0 THEN vno + 1 ELSE 0
      BY <3>1, <3>3 DEF Restructured, BranchState
    <3>5. DOMAIN graySnaps[b] = (IF st.gray_seq > 0 THEN {st.gray_seq} ELSE {})
          /\ (st.gray_seq > 0 <=> st.gray_rule # None)
      BY <3>1 DEF GrayServable, GrayNumber, Live
    <3>6. CASE st.gray_seq = 0
      <4>1. GrayBumped(b) = graySnaps[b]
        BY <3>6 DEF GrayBumped
      <4>2. branches'[b] # None
        BY <3>3, RestructuredType, NoneAssumption
      <4> QED
        BY <3>3, <3>4, <3>5, <3>6, <4>1, <4>2
    <3>7. CASE st.gray_seq # 0
      <4>1. GrayBumped(b) = Overlay(Without(graySnaps[b], {st.gray_seq}),
                                    [n \in {vno + 1} |-> graySnaps[b][st.gray_seq]])
        BY <3>7 DEF GrayBumped
      <4>2. DOMAIN GrayBumped(b) = (DOMAIN graySnaps[b] \ {st.gray_seq}) \cup {vno + 1}
        <5>1. DOMAIN [n \in {vno + 1} |-> graySnaps[b][st.gray_seq]] = {vno + 1}
          OBVIOUS
        <5>2. DOMAIN Without(graySnaps[b], {st.gray_seq}) = DOMAIN graySnaps[b] \ {st.gray_seq}
          BY WithoutDomain
        <5> HIDE DEF st, vno
        <5>3. DOMAIN Overlay(Without(graySnaps[b], {st.gray_seq}),
                             [n \in {vno + 1} |-> graySnaps[b][st.gray_seq]])
                = DOMAIN Without(graySnaps[b], {st.gray_seq})
                  \cup DOMAIN [n \in {vno + 1} |-> graySnaps[b][st.gray_seq]]
          BY OverlayDomain
        <5> QED
          BY <4>1, <5>1, <5>2, <5>3
      <4>3. branches'[b] # None
        BY <3>3, RestructuredType, NoneAssumption
      <4>4. st.gray_seq > 0
        BY <3>1, <3>7 DEF BranchState
      <4> HIDE DEF st, vno
      <4> QED
        BY <3>2, <3>3, <3>4, <3>5, <4>2, <4>3, <4>4
    <3> QED
      BY <3>6, <3>7
  <2>3. ASSUME NEW b \in Branch
        PROVE  /\ DOMAIN graySnaps'[b] = IF GrayNumber(b)' > 0 THEN {GrayNumber(b)'} ELSE {}
               /\ branches'[b] # None => (GrayNumber(b)' > 0 <=> branches'[b].gray_rule # None)
    <3>1. CASE b \in Live
      <4>1. GrayNumber(b)' = branches'[b].gray_seq
        BY <2>2, <3>1 DEF GrayNumber
      <4> QED
        BY <2>2, <3>1, <4>1
    <3>2. CASE b \notin Live
      BY <2>1, <3>2 DEF GrayNumber
    <3> QED
      BY <3>1, <3>2
  <2> QED
    BY <2>3 DEF GrayServable, Live
<1> QED
  BY <1>3, <1>4, <1>5, <1>6

\* A branch is created at the structure version of the project, with the
\* bindings of its source and without drafts of referenced items.
LEMMA BranchCreateStep ==
    ASSUME StateInv, NEW b \in Branch, NEW src \in Branch \cup {None}, BranchCreate(b, src)
    PROVE  References'
<1> USE DEF StateInv, References
<1> DEFINE new == NewBranchState(structure.version)
           st == IF src = None THEN new
                 ELSE [new EXCEPT !.shared_bindings = branches[src].shared_bindings]
<1>1. branches' = [branches EXCEPT ![b] = st] /\ b \notin Live
  BY DEF BranchCreate
<1>2. branches'[b] = st /\ \A c \in Branch \ {b} : branches'[c] = branches[c]
  BY <1>1 DEF StateTypeOK
<1>3. /\ st.structure_version = structure.version
      /\ st.gray_seq = 0
      /\ st.gray_rule = None
      /\ st.shared_bindings = IF src = None THEN EmptyMap ELSE branches[src].shared_bindings
  BY DEF NewBranchState
<1>4. UNCHANGED <<structure, graySnaps, shared>>
  BY DEF BranchCreate
<1>5. src # None => src \in Live
  BY DEF BranchCreate
<1> HIDE DEF st
<1>6. StructureLockstep'
  BY <1>2, <1>3, <1>4 DEF StructureLockstep, Live
<1>7. BindingsResolve'
  <2>1. ASSUME NEW i \in DOMAIN st.shared_bindings
        PROVE  i \in SharedDefs(structure.defs) /\ st.shared_bindings[i] \in DOMAIN shared
    BY <1>3, <1>5, EmptyMapType DEF BindingsResolve
  <2>2. ASSUME NEW c \in Branch, branches'[c] # None
        PROVE  \A i \in DOMAIN branches'[c].shared_bindings :
                  /\ i \in SharedDefs(structure.defs)
                  /\ branches'[c].shared_bindings[i] \in DOMAIN shared
    BY <1>2, <2>1, <2>2 DEF BindingsResolve, Live
  <2> QED
    BY <1>4, <2>2 DEF BindingsResolve, Live
<1>8. RefItemsReadOnly'
  <2> DEFINE draft == IF src = None THEN EmptyDraft ELSE CopiedDraft(ActiveContent(src))
  <2>1. drafts' = [drafts EXCEPT ![b] = draft]
    BY DEF BranchCreate
  <2>2. drafts'[b] = draft /\ \A c \in Branch \ {b} : drafts'[c] = drafts[c]
    BY <2>1 DEF ByBranch
  <2>3. DOMAIN EmptyDraft.values = {}
    BY EmptyMapType DEF EmptyDraft
  <2>4. DOMAIN CopiedDraft(ActiveContent(src)).values
          = DOMAIN ActiveContent(src) \ SharedDefs(structure.defs)
    BY WithoutDomain DEF CopiedDraft
  <2>5. DOMAIN draft.values \cap SharedDefs(structure.defs) = {}
    BY <2>3, <2>4
  <2> HIDE DEF draft
  <2> QED
    BY <1>2, <1>4, <2>2, <2>5 DEF RefItemsReadOnly, Live
<1>9. GrayServable'
  <2>1. GrayNumber(b) = 0 /\ GrayNumber(b)' = 0
    BY <1>1, <1>2, <1>3 DEF GrayNumber, Live
  <2>2. \A c \in Branch \ {b} : GrayNumber(c)' = GrayNumber(c)
    BY <1>2 DEF GrayNumber
  <2> QED
    BY <1>2, <1>3, <1>4, <2>1, <2>2 DEF GrayServable, Live
<1> QED
  BY <1>6, <1>7, <1>8, <1>9

\* A deleted branch, and those that go with it, leave no gray snapshot.
LEMMA BranchDeleteStep ==
    ASSUME StateInv, NEW b \in Branch, BranchDelete(b)
    PROVE  References'
<1> USE DEF StateInv, References
<1> DEFINE gone == DeletedWith(b)
<1>1. ASSUME NEW c \in gone
      PROVE  branches'[c] = None /\ drafts'[c] = EmptyDraft /\ DOMAIN graySnaps'[c] = {}
  BY EmptyMapType DEF BranchDelete, DeletedWith
<1>2. ASSUME NEW c \in Branch \ gone
      PROVE  branches'[c] = branches[c] /\ drafts'[c] = drafts[c] /\ graySnaps'[c] = graySnaps[c]
  BY DEF BranchDelete
<1>3. UNCHANGED <<structure, shared>>
  BY DEF BranchDelete
<1> HIDE DEF gone
<1>4. ReferencesKept
  BY <1>1, <1>2, <1>3 DEF ReferencesKept
<1>5. RefItemsReadOnly'
  BY <1>1, <1>2, <1>3 DEF RefItemsReadOnly, Live
<1>6. GrayServable'
  <2>1. \A c \in gone : GrayNumber(c)' = 0
    BY <1>1 DEF GrayNumber
  <2>2. \A c \in Branch \ gone : GrayNumber(c)' = GrayNumber(c)
    BY <1>2 DEF GrayNumber
  <2> QED
    BY <1>1, <1>2, <2>1, <2>2, SMTT(30) DEF GrayServable, Live
<1> QED
  BY <1>4, <1>5, <1>6, ReferencesKeptStep

\* An edit binds referenced items to published shared items and sets values
\* of local items only.
LEMMA DraftUpdateStep ==
    ASSUME StateInv, NEW b \in Branch, NEW edit \in DraftInputs, NEW expected,
           DraftUpdate(b, edit, expected)
    PROVE  References'
<1> USE DEF StateInv, References
<1> DEFINE bound == branches[b].shared_bindings
           rebound == Rebound(bound, edit.bindings)
<1>1. /\ OneBranch(b)
      /\ SameGray(b)
      /\ branches'[b].structure_version = branches[b].structure_version
      /\ branches'[b].shared_bindings = rebound
  BY DraftUpdateBranch
<1>2. UNCHANGED <<structure, graySnaps, shared>> /\ EditValid(edit)
  BY DEF DraftUpdate
<1>3. StructureLockstep'
  BY <1>1, <1>2 DEF StructureLockstep, Live, OneBranch
<1>4. BindingsResolve'
  <2> DEFINE kept == {j \in DOMAIN edit.bindings : edit.bindings[j] # None}
  <2>1. ASSUME NEW i \in DOMAIN rebound
        PROVE  i \in SharedDefs(structure.defs) /\ rebound[i] \in DOMAIN shared
    <3>1. CASE i \in kept
      <4>1. rebound[i] = edit.bindings[i]
        BY <3>1 DEF Rebound, Overlay
      <4> QED
        BY <1>2, <3>1, <4>1 DEF EditValid
    <3>2. CASE i \notin kept
      <4>1. i \in DOMAIN bound /\ rebound[i] = bound[i]
        BY <2>1, <3>2 DEF Rebound, Overlay, Without
      <4> QED
        BY <1>1, <4>1 DEF BindingsResolve, OneBranch
    <3> QED
      BY <3>1, <3>2
  <2> HIDE DEF rebound
  <2> QED
    BY <1>1, <1>2, <2>1 DEF BindingsResolve, Live, OneBranch
<1>5. RefItemsReadOnly'
  <2>1. drafts'[b] = EditedDraft(drafts[b], edit)
        /\ \A c \in Branch \ {b} : drafts'[c] = drafts[c]
    BY DEF DraftUpdate, ByBranch
  <2>2. DOMAIN EditedDraft(drafts[b], edit).values
          = (DOMAIN drafts[b].values \ edit.deletes) \cup DOMAIN edit.updates
    <3> DEFINE rest == Without(drafts[b].values, edit.deletes)
    <3>1. EditedDraft(drafts[b], edit).values = Overlay(rest, edit.updates)
      BY DEF EditedDraft
    <3>2. DOMAIN rest = DOMAIN drafts[b].values \ edit.deletes
      BY WithoutDomain
    <3> HIDE DEF rest
    <3> QED
      BY <3>1, <3>2, OverlayDomain
  <2>3. DOMAIN edit.updates \cap SharedDefs(structure.defs) = {}
    BY <1>2 DEF EditValid, SharedDefs
  <2>4. DOMAIN drafts[b].values \cap SharedDefs(structure.defs) = {}
    BY <1>1 DEF RefItemsReadOnly, OneBranch
  <2>5. DOMAIN drafts'[b].values \cap SharedDefs(structure.defs) = {}
    BY <2>1, <2>2, <2>3, <2>4
  <2> QED
    BY <1>1, <1>2, <2>1, <2>5 DEF RefItemsReadOnly, Live, OneBranch
<1>6. GrayServable'
  BY <1>1, <1>2, OneBranchGray, GrayKeptStep
<1> QED
  BY <1>3, <1>4, <1>5, <1>6

\* A publication empties the draft of its branch.
LEMMA EmptiedDraftStep ==
    ASSUME StateInv, NEW b \in Branch, OneBranch(b), UNCHANGED structure,
           drafts' = [drafts EXCEPT ![b] = EmptyDraft]
    PROVE  RefItemsReadOnly'
<1> USE DEF StateInv, References
<1>1. drafts'[b] = EmptyDraft /\ \A c \in Branch \ {b} : drafts'[c] = drafts[c]
  BY DEF ByBranch
<1>2. DOMAIN EmptyDraft.values = {}
  BY EmptyMapType DEF EmptyDraft
<1> QED
  BY <1>1, <1>2 DEF RefItemsReadOnly, Live, OneBranch

\* A step on one branch that ends its gray release removes its snapshot.
LEMMA GrayEndedStep ==
    ASSUME StateInv, NEW b \in Branch, OneBranch(b),
           branches'[b].gray_seq = 0, branches'[b].gray_rule = None,
           graySnaps' = [graySnaps EXCEPT ![b] = Without(@, {branches[b].gray_seq})]
    PROVE  GrayServable'
<1> USE DEF StateInv, References
<1>1. graySnaps'[b] = Without(graySnaps[b], {branches[b].gray_seq})
      /\ \A c \in Branch \ {b} : graySnaps'[c] = graySnaps[c]
  BY DEF ByBranch
<1>2. GrayNumber(b) = branches[b].gray_seq /\ GrayNumber(b)' = 0 /\ branches'[b] # None
  BY NoneAssumption DEF OneBranch, GrayNumber
<1>3. DOMAIN graySnaps[b] \subseteq {branches[b].gray_seq}
  BY <1>2 DEF GrayServable
<1>4. DOMAIN graySnaps'[b] = {}
  <2>1. DOMAIN Without(graySnaps[b], {branches[b].gray_seq})
          = DOMAIN graySnaps[b] \ {branches[b].gray_seq}
    BY WithoutDomain
  <2> QED
    BY <1>1, <1>3, <2>1
<1>5. \A c \in Branch \ {b} : GrayNumber(c)' = GrayNumber(c)
  BY DEF OneBranch, GrayNumber
<1> QED
  BY <1>1, <1>2, <1>4, <1>5, SMTT(30) DEF GrayServable, Live, OneBranch

\* A gray publication puts its snapshot in the place of the one before it.
LEMMA GrayPublishStep ==
    ASSUME StateInv, NEW b \in Branch, NEW rid \in RequestId, NEW policy,
           NEW rule \in GrayRule, GrayPublish(b, rule, rid, policy)
    PROVE  GrayServable'
<1> USE DEF StateInv, References
<1> DEFINE old == branches[b].gray_seq
           seq == old + 1
           snap == materialize_resolved(b, ActiveContent(b))
           dropped == IF seq > 1 THEN {seq - 1} ELSE {}
<1>1. OneBranch(b) /\ branches'[b].gray_seq = seq /\ branches'[b].gray_rule = rule
  BY GrayPublishBranch
<1>2. old \in Nat
  BY <1>1 DEF OneBranch, BranchState
<1>3. graySnaps'[b] = Without(Overlay(graySnaps[b], [n \in {seq} |-> snap]), dropped)
      /\ \A c \in Branch \ {b} : graySnaps'[c] = graySnaps[c]
  BY DEF GrayPublish, ByBranch
<1>4. GrayNumber(b) = old /\ GrayNumber(b)' = seq /\ branches'[b] # None
  BY <1>1, NoneAssumption DEF OneBranch, GrayNumber
<1>5. DOMAIN graySnaps[b] = IF old > 0 THEN {old} ELSE {}
  BY <1>4 DEF GrayServable
<1>6. DOMAIN graySnaps'[b] = (DOMAIN graySnaps[b] \cup {seq}) \ dropped
  <2> HIDE DEF seq, snap, dropped
  <2>1. DOMAIN [n \in {seq} |-> snap] = {seq}
    OBVIOUS
  <2>2. DOMAIN Overlay(graySnaps[b], [n \in {seq} |-> snap])
          = DOMAIN graySnaps[b] \cup DOMAIN [n \in {seq} |-> snap]
    BY OverlayDomain
  <2> QED
    BY <1>3, <2>1, <2>2, WithoutDomain
<1>7. DOMAIN graySnaps'[b] = {seq} /\ seq > 0
  BY <1>2, <1>5, <1>6
<1>8. \A c \in Branch \ {b} : GrayNumber(c)' = GrayNumber(c)
  BY <1>1 DEF OneBranch, GrayNumber
<1>9. rule # None
  BY ConfigAssumption
<1> HIDE DEF seq, old
<1> QED
  BY <1>1, <1>3, <1>4, <1>7, <1>8, <1>9, SMTT(30) DEF GrayServable, Live, OneBranch

\* Every command keeps the inductive invariant.
LEMMA StateInvStep ==
    ASSUME StateInv, [Next]_vars
    PROVE  References'
<1> USE DEF StateInv, References
<1>1. ASSUME NEW defs \in StructureInputs, StructureDraftSet(structure.version, defs)
      PROVE  References'
  BY <1>1 DEF StructureDraftSet, StructureLockstep, BindingsResolve, RefItemsReadOnly,
              GrayServable, GrayNumber, Live
<1>2. CASE PublishStructure
  BY <1>2, PublishStructureStep
<1>3. ASSUME NEW b \in Branch, NEW src \in Branch \cup {None}, BranchCreate(b, src)
      PROVE  References'
  BY <1>3, BranchCreateStep
<1>4. ASSUME NEW b \in Branch, BranchDelete(b)
      PROVE  References'
  BY <1>4, BranchDeleteStep
<1>5. ASSUME NEW b \in Branch, NEW edit \in DraftInputs,
             NEW expected \in {None} \cup 0..MaxDraftRev, DraftUpdate(b, edit, expected)
      PROVE  References'
  BY <1>5, DraftUpdateStep
<1>6. ASSUME NEW b \in Branch, NEW rid \in RequestId, NEW policy \in Policies,
             Publish(b, rid, policy)
      PROVE  References'
  <2>1. OneBranch(b) /\ SameGray(b) /\ SameReferences(b)
    BY <1>6, PublishBranch
  <2>2. UNCHANGED <<structure, graySnaps, shared>>
        /\ drafts' = [drafts EXCEPT ![b] = EmptyDraft]
    BY <1>6 DEF Publish
  <2> QED
    BY <2>1, <2>2, OneBranchReferences, ReferencesKeptStep, OneBranchGray, GrayKeptStep,
       EmptiedDraftStep
<1>7. ASSUME NEW b \in Branch, NEW rid \in RequestId, NEW to \in 1..MaxVersion,
             Rollback(b, to, rid)
      PROVE  References'
  <2>1. OneBranch(b) /\ SameGray(b) /\ SameReferences(b)
    BY <1>7, RollbackBranch
  <2>2. UNCHANGED <<structure, graySnaps, shared, drafts>>
    BY <1>7 DEF Rollback
  <2>3. RefItemsReadOnly'
    BY <2>1, <2>2 DEF RefItemsReadOnly, Live, OneBranch
  <2> QED
    BY <2>1, <2>2, <2>3, OneBranchReferences, ReferencesKeptStep, OneBranchGray, GrayKeptStep
<1>8. ASSUME NEW b \in Branch, NEW rid \in RequestId, NEW policy \in Policies,
             NEW rule \in GrayRule, GrayPublish(b, rule, rid, policy)
      PROVE  References'
  <2>1. OneBranch(b) /\ SameReferences(b)
    BY <1>8, GrayPublishBranch
  <2>2. UNCHANGED <<structure, shared>> /\ drafts' = [drafts EXCEPT ![b] = EmptyDraft]
    BY <1>8 DEF GrayPublish
  <2>3. GrayServable'
    BY <1>8, GrayPublishStep
  <2> QED
    BY <2>1, <2>2, <2>3, OneBranchReferences, ReferencesKeptStep, EmptiedDraftStep
<1>9. ASSUME NEW b \in Branch, NEW rid \in RequestId, GrayPromote(b, rid)
      PROVE  References'
  <2>1. /\ OneBranch(b) /\ SameReferences(b)
        /\ branches'[b].gray_seq = 0 /\ branches'[b].gray_rule = None
    BY <1>9, GrayPromoteBranch
  <2>2. UNCHANGED <<structure, shared, drafts>>
        /\ graySnaps' = [graySnaps EXCEPT ![b] = Without(@, {branches[b].gray_seq})]
    BY <1>9 DEF GrayPromote
  <2>3. RefItemsReadOnly'
    BY <2>1, <2>2 DEF RefItemsReadOnly, Live, OneBranch
  <2>4. GrayServable'
    BY <2>1, <2>2, GrayEndedStep
  <2> QED
    BY <2>1, <2>2, <2>3, <2>4, OneBranchReferences, ReferencesKeptStep
<1>10. ASSUME NEW b \in Branch, NEW rid \in RequestId, GrayAbort(b, rid)
       PROVE  References'
  <2>1. /\ OneBranch(b) /\ SameReferences(b)
        /\ branches'[b].gray_seq = 0 /\ branches'[b].gray_rule = None
    BY <1>10, GrayAbortBranch
  <2>2. UNCHANGED <<structure, shared, drafts>>
        /\ graySnaps' = [graySnaps EXCEPT ![b] = Without(@, {branches[b].gray_seq})]
    BY <1>10 DEF GrayAbort
  <2>3. RefItemsReadOnly'
    BY <2>1, <2>2 DEF RefItemsReadOnly, Live, OneBranch
  <2>4. GrayServable'
    BY <2>1, <2>2, GrayEndedStep
  <2> QED
    BY <2>1, <2>2, <2>3, <2>4, OneBranchReferences, ReferencesKeptStep
<1>11. ASSUME NEW b \in Branch, Prune(b)
       PROVE  References'
  BY <1>11 DEF Prune, StructureLockstep, BindingsResolve, RefItemsReadOnly,
               GrayServable, GrayNumber, Live
<1>12. ASSUME NEW k \in SharedKey, NEW item \in SharedInputs, SharedDraftUpdate(k, item)
       PROVE  References'
  BY <1>12 DEF SharedDraftUpdate, StructureLockstep, BindingsResolve, RefItemsReadOnly,
               GrayServable, GrayNumber, Live
<1>13. ASSUME NEW mode \in CascadeModes, SharedPublish(mode)
       PROVE  References'
  <2>1. UNCHANGED <<structure, drafts, graySnaps>> /\ DOMAIN shared \subseteq DOMAIN shared'
    BY <1>13, OverlayDomain DEF SharedPublish
  <2>2. ASSUME NEW b \in Branch
        PROVE  \/ branches'[b] = branches[b]
               \/ /\ branches[b] \in BranchState
                  /\ branches[b] # None
                  /\ branches'[b] \in BranchState
                  /\ SameReferences(b)
                  /\ SameGray(b)
    <3>1. CASE branches'[b] = [branches[b] EXCEPT !.active_version = @ + Cardinality(Affected(b))]
               /\ b \in Live
      <4>1. branches[b] \in BranchState /\ branches[b] # None
        BY <3>1 DEF StateTypeOK, Live
      <4>2. Cardinality(Affected(b)) \in Nat
        BY <3>1, AffectedCount
      <4> QED
        BY <3>1, <4>1, <4>2 DEF BranchState, SameReferences, SameGray
    <3> QED
      BY <1>13, <3>1 DEF SharedPublish
  <2>3. ReferencesKept
    BY <2>1, <2>2 DEF ReferencesKept, SameReferences
  <2>4. GrayKept
    BY <2>1, <2>2, NoneAssumption DEF GrayKept, SameGray
  <2>5. RefItemsReadOnly'
    BY <2>1, <2>3 DEF ReferencesKept, RefItemsReadOnly, Live
  <2> QED
    BY <2>3, <2>4, <2>5, ReferencesKeptStep, GrayKeptStep
<1>14. ASSUME NEW mode \in CascadeModes, SharedPublishAborted(mode)
       PROVE  References'
  BY <1>14 DEF SharedPublishAborted, StructureLockstep, BindingsResolve, RefItemsReadOnly,
               GrayServable, GrayNumber, Live
<1>15. ASSUME NEW k \in SharedKey, SharedDelete(k)
       PROVE  References'
  <2>1. UNCHANGED <<structure, branches, drafts, graySnaps>>
    BY <1>15 DEF SharedDelete
  <2>2. ASSUME NEW b \in Live, NEW i \in DOMAIN branches[b].shared_bindings
        PROVE  branches[b].shared_bindings[i] \in DOMAIN shared'
    <3>1. branches[b].shared_bindings[i] \in DOMAIN shared
      BY DEF BindingsResolve
    <3>2. branches[b].shared_bindings[i] # k
      BY <1>15, <3>1 DEF SharedDelete, Unreferenced, BoundTo
    <3>3. shared' = Without(shared, {k})
      BY <1>15 DEF SharedDelete
    <3>4. DOMAIN shared' = DOMAIN shared \ {k}
      BY <3>3, WithoutDomain
    <3> QED
      BY <3>1, <3>2, <3>4
  <2>3. BindingsResolve'
    BY <2>1, <2>2 DEF BindingsResolve, Live
  <2> QED
    BY <2>1, <2>3 DEF StructureLockstep, RefItemsReadOnly, GrayServable, GrayNumber, Live
<1>16. CASE UNCHANGED vars
  BY <1>16 DEF vars, StructureLockstep, BindingsResolve, RefItemsReadOnly,
               GrayServable, GrayNumber, Live
<1> QED
  <2> HIDE DEF StateInv, References
  <2> QED
    BY <1>1, <1>2, <1>3, <1>4, <1>5, <1>6, <1>7, <1>8, <1>9, <1>10, <1>11, <1>12,
       <1>13, <1>14, <1>15, <1>16 DEF Next, StructureNext, BranchNext, SharedNext

\* Drafts, stores and gray snapshots stay functions on the branches.
LEMMA ByBranchStep ==
    ASSUME ByBranch, [Next]_vars
    PROVE  ByBranch'
<1> USE DEF ByBranch
<1>1. CASE StructureNext
  BY <1>1 DEF StructureNext, StructureDraftSet, PublishStructure
<1>2. ASSUME NEW b \in Branch, BranchNext(b)
      PROVE  ByBranch'
  <2>1. ASSUME NEW d, drafts' = [drafts EXCEPT ![b] = d], UNCHANGED graySnaps
        PROVE  ByBranch'
    BY <2>1
  <2>2. ASSUME NEW s, graySnaps' = [graySnaps EXCEPT ![b] = s],
               drafts' = drafts \/ drafts' = [drafts EXCEPT ![b] = EmptyDraft]
        PROVE  ByBranch'
    BY <2>2
  <2>3. ASSUME UNCHANGED <<drafts, graySnaps>>
        PROVE  ByBranch'
    BY <2>3
  <2> HIDE DEF ByBranch
  <2>4. ASSUME NEW src, BranchCreate(b, src)
        PROVE  ByBranch'
    BY <2>1, <2>4 DEF BranchCreate
  <2>5. ASSUME BranchDelete(b)
        PROVE  ByBranch'
    BY <2>5 DEF BranchDelete, ByBranch
  <2>6. ASSUME NEW edit, NEW expected, DraftUpdate(b, edit, expected)
        PROVE  ByBranch'
    BY <2>1, <2>6 DEF DraftUpdate
  <2>7. ASSUME NEW rid, NEW policy, Publish(b, rid, policy)
        PROVE  ByBranch'
    BY <2>1, <2>7 DEF Publish
  <2>8. ASSUME NEW to, NEW rid, Rollback(b, to, rid)
        PROVE  ByBranch'
    BY <2>3, <2>8 DEF Rollback
  <2>9. ASSUME NEW rule, NEW rid, NEW policy, GrayPublish(b, rule, rid, policy)
        PROVE  ByBranch'
    BY <2>2, <2>9 DEF GrayPublish
  <2>10. ASSUME NEW rid, GrayPromote(b, rid)
         PROVE  ByBranch'
    BY <2>2, <2>10 DEF GrayPromote
  <2>11. ASSUME NEW rid, GrayAbort(b, rid)
         PROVE  ByBranch'
    BY <2>2, <2>11 DEF GrayAbort
  <2>12. ASSUME Prune(b)
         PROVE  ByBranch'
    BY <2>3, <2>12 DEF Prune
  <2> QED
    BY <1>2, <2>4, <2>5, <2>6, <2>7, <2>8, <2>9, <2>10, <2>11, <2>12 DEF BranchNext
<1>3. CASE SharedNext
  BY <1>3 DEF SharedNext, SharedDraftUpdate, SharedPublish, SharedPublishAborted, SharedDelete
<1>4. CASE UNCHANGED vars
  BY <1>4 DEF vars
<1> QED
  BY <1>1, <1>2, <1>3, <1>4 DEF Next

\* The inductive invariant holds after ProjectCreate.
LEMMA StateInvInit ==
    ASSUME Init
    PROVE  StateInv
<1>1. StateTypeOK
  BY TypeInit
<1>2. ByBranch
  BY DEF Init, ByBranch
<1>3. ASSUME NEW b \in Live
      PROVE  branches[b] = NewBranchState(1)
  BY DEF Init, Live
<1>4. StructureLockstep
  BY <1>3, SMTT(30) DEF Init, StructureLockstep, NewBranchState
<1>5. BindingsResolve
  BY <1>3, EmptyMapType DEF BindingsResolve, NewBranchState
<1>6. RefItemsReadOnly
  BY EmptyMapType DEF Init, RefItemsReadOnly, SharedDefs
<1>7. GrayServable
  <2>1. ASSUME NEW b \in Branch
        PROVE  GrayNumber(b) = 0 /\ DOMAIN graySnaps[b] = {}
    BY <1>3, EmptyMapType DEF Init, GrayNumber, Live, NewBranchState
  <2>2. ASSUME NEW b \in Live
        PROVE  branches[b].gray_rule = None
    BY <1>3 DEF NewBranchState
  <2> QED
    BY <2>1, <2>2 DEF GrayServable
<1> QED
  BY <1>1, <1>2, <1>4, <1>5, <1>6, <1>7 DEF StateInv, References

\* The inductive invariant holds in every reachable state.
THEOREM StateInvariant == Spec => []StateInv
<1>1. Init => StateInv
  BY StateInvInit
<1>2. StateInv /\ [Next]_vars => StateInv'
  BY TypeStep, ByBranchStep, StateInvStep DEF StateInv
<1> QED
  BY <1>1, <1>2, PTL DEF Spec

\* I3: whatever branches are created, copied and deleted and whatever is
\* published, all branches are at the structure version of the project.
THEOREM StructureIsShared == Spec => []StructureLockstep
<1>1. StateInv => StructureLockstep
  BY DEF StateInv, References
<1> QED
  BY <1>1, StateInvariant, PTL

\* No binding dangles: SharedDelete refuses a key in use, PublishStructure
\* drops the bindings it invalidates, a copied branch copies valid ones.
THEOREM BindingsAlwaysResolve == Spec => []BindingsResolve
<1>1. StateInv => BindingsResolve
  BY DEF StateInv, References
<1> QED
  BY <1>1, StateInvariant, PTL

\* Referenced items never get draft values.
THEOREM ReferencedItemsReadOnly == Spec => []RefItemsReadOnly
<1>1. StateInv => RefItemsReadOnly
  BY DEF StateInv, References
<1> QED
  BY <1>1, StateInvariant, PTL

\* The gray snapshot that clients resolve to exists as long as the gray
\* release runs, through republications and structure publications, and
\* nothing of it is left afterwards.
THEOREM GrayAlwaysServable == Spec => []GrayServable
<1>1. StateInv => GrayServable
  BY DEF StateInv, References
<1> QED
  BY <1>1, StateInvariant, PTL

-----------------------------------------------------------------------------
(* What a step may never do *)

NumbersGrow(b) ==
    /\ branches'[b].active_version >= branches[b].active_version
    /\ branches'[b].gray_seq > 0 => branches'[b].gray_seq >= branches[b].gray_seq
    /\ branches'[b].gray_seq = 0 /\ branches'[b].active_version # branches[b].active_version =>
          branches'[b].active_version > branches[b].gray_seq

\* No command moves the active version of a branch back or, while a gray release
\* runs, its number, and one that ends a gray release with a new version numbers
\* it above the gray release.
LEMMA NumbersGrowStep ==
    ASSUME StateInv, [Next]_vars, NEW b \in Live, branches'[b] # None
    PROVE  NumbersGrow(b)
<1> USE DEF StateInv
<1>1. branches[b] \in BranchState /\ b \in Branch
  BY DEF StateTypeOK, Live
<1>2. ASSUME branches'[b] = branches[b]
      PROVE  NumbersGrow(b)
  BY <1>1, <1>2 DEF NumbersGrow, BranchState
<1>3. ASSUME NEW c \in Branch, OneBranch(c),
             SameGray(c), branches'[c].active_version \in
                 {branches[c].active_version, branches[c].active_version + 1}
      PROVE  NumbersGrow(b)
  <2>1. CASE c # b
    BY <1>1, <1>2, <1>3, <2>1 DEF OneBranch
  <2>2. CASE c = b /\ branches[b].gray_seq = 0
    BY <1>1, <1>3, <2>2 DEF NumbersGrow, BranchState, SameGray
  <2>3. CASE c = b /\ branches[b].gray_seq # 0
    BY <1>1, <1>3, <2>3 DEF NumbersGrow, BranchState, SameGray
  <2> QED
    BY <2>1, <2>2, <2>3
<1> HIDE DEF StateInv
<1>4. CASE StructureNext
  <2>1. ASSUME NEW defs, StructureDraftSet(structure.version, defs)
        PROVE  NumbersGrow(b)
    BY <1>2, <2>1 DEF StructureDraftSet
  <2>2. CASE PublishStructure
    <3>1. branches'[b] = Restructured(branches[b], structDraft.defs)
      BY <1>1, <2>2 DEF PublishStructure
    <3> DEFINE vno == next_monotonic(branches[b].active_version, branches[b].gray_seq)
    <3>2. /\ branches'[b].active_version = vno
          /\ branches'[b].gray_seq = IF branches[b].gray_seq > 0 THEN vno + 1 ELSE 0
      BY <1>1, <3>1 DEF Restructured, BranchState
    <3>3. vno \in Nat /\ vno > branches[b].active_version /\ vno > branches[b].gray_seq
      BY <1>1, NextMonotonicType DEF BranchState
    <3> HIDE DEF vno
    <3> QED
      BY <1>1, <3>2, <3>3 DEF NumbersGrow, BranchState
  <2> QED
    BY <1>4, <2>1, <2>2 DEF StructureNext
<1>5. ASSUME NEW c \in Branch, BranchNext(c)
      PROVE  NumbersGrow(b)
  <2>1. ASSUME NEW src, BranchCreate(c, src)
        PROVE  NumbersGrow(b)
    <3>1. c # b
      BY <2>1 DEF BranchCreate
    <3> QED
      BY <1>1, <1>2, <2>1, <3>1 DEF BranchCreate, StateInv, StateTypeOK
  <2>2. CASE BranchDelete(c)
    BY <1>1, <1>2, <2>2 DEF BranchDelete
  <2>3. ASSUME NEW edit \in DraftInputs, NEW expected, DraftUpdate(c, edit, expected)
        PROVE  NumbersGrow(b)
    BY <1>3, <2>3, DraftUpdateBranch DEF StateInv
  <2>4. ASSUME NEW rid \in RequestId, NEW policy, Publish(c, rid, policy)
        PROVE  NumbersGrow(b)
    BY <1>3, <2>4, PublishBranch DEF StateInv
  <2>5. ASSUME NEW to, NEW rid \in RequestId, Rollback(c, to, rid)
        PROVE  NumbersGrow(b)
    BY <1>3, <2>5, RollbackBranch DEF StateInv
  <2>6. ASSUME OneBranch(c), branches'[c].active_version = branches[c].active_version,
               branches'[c].gray_seq \in {0, branches[c].gray_seq + 1}
        PROVE  NumbersGrow(b)
    BY <1>1, <1>2, <2>6 DEF OneBranch, NumbersGrow, BranchState
  <2>7. ASSUME NEW rule \in GrayRule, NEW rid \in RequestId, NEW policy,
               GrayPublish(c, rule, rid, policy)
        PROVE  NumbersGrow(b)
    BY <2>6, <2>7, GrayPublishBranch DEF StateInv
  <2>8. ASSUME NEW rid \in RequestId, GrayPromote(c, rid)
        PROVE  NumbersGrow(b)
    <3>1. /\ OneBranch(c)
          /\ branches'[c].active_version > branches[c].active_version
          /\ branches'[c].active_version > branches[c].gray_seq
          /\ branches'[c].gray_seq = 0
      BY <2>8, GrayPromoteBranch DEF StateInv
    <3> QED
      BY <1>1, <1>2, <3>1 DEF OneBranch, NumbersGrow, BranchState
  <2>9. ASSUME NEW rid \in RequestId, GrayAbort(c, rid)
        PROVE  NumbersGrow(b)
    BY <2>6, <2>9, GrayAbortBranch DEF StateInv
  <2>10. CASE Prune(c)
    BY <1>2, <2>10 DEF Prune
  <2> QED
    BY <1>5, <2>1, <2>2, <2>3, <2>4, <2>5, <2>7, <2>8, <2>9, <2>10 DEF BranchNext
<1>6. CASE SharedNext
  <2>1. ASSUME NEW mode, SharedPublish(mode)
        PROVE  NumbersGrow(b)
    <3>1. \/ branches'[b] = branches[b]
          \/ branches'[b] = [branches[b] EXCEPT !.active_version = @ + Cardinality(Affected(b))]
      BY <1>1, <2>1 DEF SharedPublish
    <3>2. Cardinality(Affected(b)) \in Nat
      BY AffectedCount DEF StateInv
    <3>3. CASE branches'[b] = [branches[b] EXCEPT !.active_version = @ + Cardinality(Affected(b))]
      <4>1. branches'[b].active_version = branches[b].active_version + Cardinality(Affected(b))
            /\ branches'[b].gray_seq = branches[b].gray_seq
        BY <1>1, <3>3 DEF BranchState
      <4> QED
        BY <1>1, <3>2, <4>1 DEF NumbersGrow, BranchState
    <3> QED
      BY <1>2, <3>1, <3>3
  <2> QED
    BY <1>2, <1>6, <2>1 DEF SharedNext, SharedDraftUpdate, SharedPublishAborted, SharedDelete
<1>7. CASE UNCHANGED vars
  BY <1>2, <1>7 DEF vars
<1> QED
  BY <1>4, <1>5, <1>6, <1>7 DEF Next

\* The active version of a branch and the number of a running gray release never
\* go back, and the version that ends the release is above them.
THEOREM VersionsGrow == Spec => VersionNumbersGrow
<1> DEFINE Grow ==
      \A b \in Live : branches'[b] # None =>
          LET st == branches[b]
              new == branches'[b]
          IN  /\ new.active_version >= st.active_version
              /\ new.gray_seq > 0 => new.gray_seq >= st.gray_seq
              /\ new.gray_seq = 0 /\ new.active_version # st.active_version =>
                    new.active_version > st.gray_seq
<1>1. StateInv /\ [Next]_vars => Grow
  BY NumbersGrowStep DEF NumbersGrow
<1>2. StateInv /\ [Next]_vars => [Grow]_vars
  BY <1>1
<1> QED
  BY <1>2, StateInvariant, PTL DEF Spec, VersionNumbersGrow

-----------------------------------------------------------------------------
(* Checkpoints and chains *)

\* A set of naturals has a least one.
LEMMA LeastNat ==
    ASSUME NEW T \in SUBSET Nat, T # {}
    PROVE  \E x \in T : \A y \in T : x <= y
<1> DEFINE R == OpToRel(<, Nat)
<1>1. IsWellFoundedOn(R, Nat)
  BY NatLessThanWellFounded, Zenon
<1>2. \A x, y \in Nat : y < x => <<y, x>> \in R
  BY SMT DEF OpToRel
<1> HIDE DEF R
<1>3. PICK x \in T : \A y \in T : ~(<<y, x>> \in R)
  BY <1>1, WFMin
<1>4. \A y \in T : ~(y < x)
  BY <1>2, <1>3
<1> QED
  BY <1>4

\* Multiples of a number above 0: which of two is less, and what lies between
\* a number and the multiple below it.
LEMMA Multiples ==
    ASSUME NEW k \in Nat \ {0}
    PROVE  /\ \A n \in Nat : /\ n \div k \in Nat /\ (n \div k) * k <= n
                             /\ n < (n \div k) * k + k /\ (n \div k) * k \in Nat
           /\ \A n \in Nat : n % k = 0 => n = (n \div k) * k
           /\ \A m \in Nat : (m * k) % k = 0
           /\ \A m, j \in Nat : m * k < j * k => m * k + k <= j * k
<1>1. ASSUME NEW n \in Nat
      PROVE  /\ n \div k \in Nat /\ (n \div k) * k <= n
             /\ n < (n \div k) * k + k /\ (n \div k) * k \in Nat
  BY SMT
<1>2. ASSUME NEW n \in Nat, n % k = 0 PROVE n = (n \div k) * k
  BY <1>2, SMT
<1>3. ASSUME NEW m \in Nat PROVE (m * k) % k = 0
  BY SMT
<1>4. ASSUME NEW m \in Nat, NEW j \in Nat, m * k < j * k PROVE m * k + k <= j * k
  BY <1>4, SMT
<1> QED
  BY <1>1, <1>2, <1>3, <1>4

\* The chain of a version starts from the last checkpoint that is not above it.
LEMMA ChainStart ==
    ASSUME NEW v \in Nat \ {0}
    PROVE  /\ ChainBase(v) \in 1..v
           /\ IsCheckpoint(ChainBase(v))
           /\ \A n \in (ChainBase(v) + 1)..v : ~IsCheckpoint(n)
<1> DEFINE k == CheckpointInterval
           q == (v - 1) \div k
           base == q * k
<1>0. k \in Nat \ {0} /\ v - 1 \in Nat
  BY CheckpointIntervalAssumption
<1>1. q \in Nat /\ base \in Nat /\ base <= v - 1 /\ v - 1 < base + k /\ base % k = 0
  BY <1>0, Multiples
<1>2. ChainBase(v) = IF v % k = 0 THEN v ELSE IF base = 0 THEN 1 ELSE base
  BY DEF ChainBase
<1>3. ASSUME NEW n \in Nat, n % k = 0, base < n PROVE base + k <= n
  <2> DEFINE j == n \div k
  <2>1. n = j * k /\ j \in Nat
    BY <1>0, <1>3, Multiples
  <2>2. q * k < j * k
    BY <1>3, <2>1
  <2> HIDE DEF q, j
  <2>3. q * k + k <= j * k
    BY <1>0, <1>1, <2>1, <2>2, Multiples
  <2> QED
    BY <2>1, <2>3
<1> HIDE DEF base, q, k
<1>4. CASE v % k = 0
  BY <1>2, <1>4 DEF IsCheckpoint, k
<1>5. CASE v % k # 0
  <2>1. ChainBase(v) \in 1..v
    BY <1>1, <1>2, <1>5
  <2>2. IsCheckpoint(ChainBase(v))
    BY <1>1, <1>2, <1>5 DEF IsCheckpoint, k
  <2>3. ASSUME NEW n \in (ChainBase(v) + 1)..v, IsCheckpoint(n) PROVE FALSE
    <3>1. n \in Nat /\ n # 1 /\ base < n /\ n <= v
      BY <1>1, <1>2, <1>5, <2>1
    <3>2. n % k = 0
      BY <2>3, <3>1 DEF IsCheckpoint, k
    <3>3. base + k <= n
      BY <1>3, <3>1, <3>2
    <3>4. n = v
      BY <1>0, <1>1, <3>1, <3>3
    <3> QED
      BY <1>5, <3>2, <3>4
  <2> QED
    BY <2>1, <2>2, <2>3
<1> QED
  BY <1>4, <1>5

\* No checkpoint up to v lies above the start of the chain of v, and a later
\* version does not start before an earlier one.
LEMMA ChainStartLast ==
    ASSUME NEW v \in Nat \ {0}, NEW u \in 1..v
    PROVE  /\ IsCheckpoint(u) => u <= ChainBase(v)
           /\ ChainBase(u) <= ChainBase(v)
<1>1. ASSUME NEW n \in 1..v, IsCheckpoint(n) PROVE n <= ChainBase(v)
  BY <1>1, ChainStart
<1>2. ChainBase(u) \in 1..u /\ IsCheckpoint(ChainBase(u))
  BY ChainStart
<1> QED
  BY <1>1, <1>2

\* The turns of the loop of snapshot_of, as a function f on the chain.
Turns(f, s, start, v, first) ==
    f = [n \in start..v |-> IF n = start THEN first ELSE RebuildStep(s, f[n - 1], n)]

\* There is such a function, for a chain of any length.
LEMMA ChainExists ==
    ASSUME NEW s, NEW start \in Nat, NEW v \in Nat, start <= v, NEW first
    PROVE  \E f : Turns(f, s, start, v, first)
<1> DEFINE T == {m \in Nat : start <= m /\ ~(\E f : Turns(f, s, start, m, first))}
<1>1. CASE T = {}
  BY <1>1
<1>2. CASE T # {}
  <2>1. PICK m \in T : \A j \in T : m <= j
    <3>1. T \in SUBSET Nat
      OBVIOUS
    <3> HIDE DEF T
    <3> QED
      BY <1>2, <3>1, LeastNat
  <2>2. m \in Nat /\ start <= m /\ ~(\E f : Turns(f, s, start, m, first))
    BY <2>1
  <2>3. CASE m = start
    <3> DEFINE f == [n \in start..start |-> first]
    <3>1. f = [n \in start..start |-> IF n = start THEN first ELSE RebuildStep(s, f[n - 1], n)]
      OBVIOUS
    <3>2. Turns(f, s, start, start, first)
      BY <3>1 DEF Turns
    <3> HIDE DEF f
    <3> QED
      BY <2>2, <2>3, <3>2
  <2>4. CASE m # start
    <3>1. m - 1 \in Nat /\ start <= m - 1 /\ m - 1 \notin T
      <4>1. m - 1 \in Nat /\ start <= m - 1 /\ ~(m <= m - 1)
        BY <2>2, <2>4
      <4> HIDE DEF T
      <4> QED
        BY <2>1, <4>1
    <3>2. PICK g : Turns(g, s, start, m - 1, first)
      BY <3>1
    <3> DEFINE f == [n \in start..m |-> IF n = m THEN RebuildStep(s, g[m - 1], m) ELSE g[n]]
    <3>3. ASSUME NEW n \in start..m
          PROVE  f[n] = IF n = start THEN first ELSE RebuildStep(s, f[n - 1], n)
      <4>1. CASE n = start
        <5>1. n # m /\ n \in start..(m - 1)
          BY <2>2, <2>4, <4>1
        <5> QED
          BY <3>2, <4>1, <5>1 DEF Turns
      <4>2. CASE n # start
        <5>1. n - 1 \in start..m /\ n - 1 # m /\ f[n - 1] = g[n - 1]
          BY <2>2, <4>2
        <5>2. CASE n = m
          BY <4>2, <5>1, <5>2
        <5>3. CASE n # m
          <6>1. n \in start..(m - 1)
            BY <2>2, <5>3
          <6>2. g[n] = RebuildStep(s, g[n - 1], n)
            BY <3>2, <4>2, <6>1 DEF Turns
          <6> QED
            BY <4>2, <5>1, <5>3, <6>2
        <5> QED
          BY <5>2, <5>3
      <4> QED
        BY <4>1, <4>2
    <3>4. f = [n \in start..m |-> f[n]]
      OBVIOUS
    <3> HIDE DEF f
    <3>5. Turns(f, s, start, m, first)
      BY <3>3, <3>4 DEF Turns
    <3> QED
      BY <2>2, <3>5
  <2> QED
    BY <2>3, <2>4
<1> QED
  BY <1>1, <1>2

-----------------------------------------------------------------------------
(* What a store holds, and what is read from it *)

\* The store s of a branch whose active version is a holds the contents p: its
\* versions are those of p, the active one among them; a checkpoint has the
\* full content, every other version the diff against the one before it.
StoreHolds(s, p, a) ==
    /\ DOMAIN s.recs \subseteq 1..a
    /\ a > 0 => a \in DOMAIN s.recs
    /\ DOMAIN p = DOMAIN s.recs
    /\ \A v \in DOMAIN p : p[v] \in Content
    /\ DOMAIN s.snaps = {v \in DOMAIN s.recs : IsCheckpoint(v)}
    /\ DOMAIN s.diffs = {v \in DOMAIN s.recs : ~IsCheckpoint(v)}
    /\ \A v \in DOMAIN s.snaps : s.snaps[v] = p[v]
    /\ \A v \in DOMAIN s.diffs :
          v - 1 \in DOMAIN s.recs => apply_diff(p[v - 1], s.diffs[v]) = p[v]

\* Version v and all versions of its chain are kept.
Complete(s, v) == ChainBase(v)..v \subseteq DOMAIN s.recs

\* A version reads as the content it was given when its chain is complete, and
\* not at all when it is not: the loop of snapshot_of never returns the
\* content of another version.
LEMMA RebuiltContent ==
    ASSUME NEW s, NEW p, NEW a \in Nat, StoreHolds(s, p, a), NEW v \in Nat \ {0}
    PROVE  snapshot_of(s, v) = IF Complete(s, v) THEN p[v] ELSE NotFound
<1> DEFINE start == ChainBase(v)
           recs == DOMAIN s.recs
           first == [ret |-> FALSE, snap |-> s.snaps[start]]
           chain == CHOOSE f : Turns(f, s, start, v, first)
<1>1. /\ start \in 1..v /\ start \in Nat /\ IsCheckpoint(start)
      /\ \A n \in (start + 1)..v : ~IsCheckpoint(n)
  BY ChainStart
<1>2. /\ DOMAIN s.snaps = {n \in recs : IsCheckpoint(n)}
      /\ DOMAIN s.diffs = {n \in recs : ~IsCheckpoint(n)}
      /\ recs \subseteq 1..a
  BY DEF StoreHolds
<1>3. snapshot_of(s, v) = IF start \notin DOMAIN s.snaps THEN FullAt(s, v) ELSE chain[v].snap
  BY DEF snapshot_of, Turns
<1>4. Turns(chain, s, start, v, first)
  <2>1. \E f : Turns(f, s, start, v, first)
    BY <1>1, ChainExists, SMTT(30)
  <2> QED
    BY <2>1
<1>5. CASE start \notin recs
  <2>1. start \notin DOMAIN s.snaps
    BY <1>2, <1>5
  <2>2. v \notin DOMAIN s.snaps
    <3>1. CASE v = start
      BY <2>1, <3>1
    <3>2. CASE v # start
      <4>1. v \in (start + 1)..v
        BY <1>1, <3>2
      <4> QED
        BY <1>1, <1>2, <4>1
    <3> QED
      BY <3>1, <3>2
  <2>3. ~Complete(s, v)
    <3>1. start \in start..v
      BY <1>1
    <3> QED
      BY <1>5, <3>1 DEF Complete
  <2> QED
    BY <1>3, <2>1, <2>2, <2>3 DEF FullAt
<1>6. CASE start \in recs
  <2> DEFINE Reached(n) ==
                 IF start..n \subseteq recs THEN [ret |-> FALSE, snap |-> p[n]]
                 ELSE [ret |-> TRUE, snap |-> NotFound]
  <2>1. start \in DOMAIN s.snaps /\ s.snaps[start] = p[start]
    BY <1>1, <1>2, <1>6 DEF StoreHolds
  <2>2. \A n \in start..v :
           chain[n] = IF n = start THEN first ELSE RebuildStep(s, chain[n - 1], n)
    <3> HIDE DEF chain, first
    <3> QED
      BY <1>4 DEF Turns
  <2> HIDE DEF chain
  <2>3. ASSUME NEW n \in start..v, n = start \/ chain[n - 1] = Reached(n - 1)
        PROVE  chain[n] = Reached(n)
    <3>1. CASE n = start
      <4>1. start..n \subseteq recs
        BY <1>1, <1>6, <3>1
      <4> QED
        BY <2>1, <2>2, <3>1, <4>1
    <3>2. CASE n # start
      <4>1. n \in (start + 1)..v /\ n \in Nat /\ n - 1 \in Nat /\ start <= n - 1
        BY <1>1, <3>2
      <4>2. ~IsCheckpoint(n) /\ n % CheckpointInterval # 0
        BY <1>1, <4>1 DEF IsCheckpoint
      <4>3. chain[n] = RebuildStep(s, chain[n - 1], n)
        BY <2>2, <3>2
      <4>4. chain[n - 1] = Reached(n - 1)
        BY <2>3, <3>2
      <4>5. start..n = (start..(n - 1)) \cup {n}
        BY <1>1, <4>1
      <4>6. CASE ~(start..(n - 1) \subseteq recs)
        <5>1. ~(start..n \subseteq recs)
          BY <4>5, <4>6
        <5> QED
          BY <4>3, <4>4, <4>6, <5>1 DEF RebuildStep
      <4>7. CASE start..(n - 1) \subseteq recs /\ n \notin recs
        <5>1. n \notin DOMAIN s.diffs /\ n \notin DOMAIN s.snaps
          BY <1>2, <4>7
        <5>2. chain[n] = [ret |-> TRUE, snap |-> NotFound]
          BY <4>2, <4>3, <4>4, <4>7, <5>1 DEF RebuildStep, FullAt
        <5> QED
          BY <4>5, <4>7, <5>2
      <4>8. CASE start..(n - 1) \subseteq recs /\ n \in recs
        <5>1. n \in DOMAIN s.diffs /\ n - 1 \in recs
          BY <1>2, <4>1, <4>2, <4>8
        <5>2. apply_diff(p[n - 1], s.diffs[n]) = p[n]
          BY <5>1 DEF StoreHolds
        <5>3. chain[n - 1] = [ret |-> FALSE, snap |-> p[n - 1]]
          BY <4>4, <4>8
        <5>4. chain[n] = [ret |-> FALSE, snap |-> apply_diff(p[n - 1], s.diffs[n])]
          BY <4>2, <4>3, <5>1, <5>3 DEF RebuildStep
        <5> QED
          BY <4>5, <4>8, <5>2, <5>4
      <4> HIDE DEF Reached
      <4> QED
        BY <4>6, <4>7, <4>8
    <3> QED
      BY <3>1, <3>2
  <2>4. chain[v] = Reached(v)
    <3> DEFINE T == {n \in start..v : chain[n] # Reached(n)}
    <3> HIDE DEF Reached
    <3>1. CASE T = {}
      BY <1>1, <3>1
    <3>2. CASE T # {}
      <4>1. T \in SUBSET Nat
        BY <1>1
      <4>2. PICK n \in T : \A m \in T : n <= m
        <5> HIDE DEF T
        <5> QED
          BY <3>2, <4>1, LeastNat
      <4>3. n \in start..v /\ chain[n] # Reached(n) /\ ~(n <= n - 1)
        BY <1>1, <4>2
      <4>4. n - 1 \notin T
        <5> HIDE DEF T
        <5> QED
          BY <4>2, <4>3
      <4>5. n = start \/ chain[n - 1] = Reached(n - 1)
        BY <1>1, <4>3, <4>4
      <4> QED
        BY <2>3, <4>3, <4>5
    <3> QED
      BY <3>1, <3>2
  <2> QED
    BY <1>3, <2>1, <2>4 DEF Complete
<1> QED
  BY <1>5, <1>6

\* A version whose chain is complete is kept itself.
LEMMA CompleteKept ==
    ASSUME NEW s, NEW v \in Nat \ {0}, Complete(s, v)
    PROVE  v \in DOMAIN s.recs
<1>1. v \in ChainBase(v)..v
  BY ChainStart
<1> QED
  BY <1>1 DEF Complete

-----------------------------------------------------------------------------
(* Writing versions *)

\* What a write of the versions lo..hi, all above the active one, does to the
\* store: write_version_snapshot compares the first of them with the content
\* of the active version, which matters when it follows it directly.
LEMMA WrittenStore ==
    ASSUME NEW s, NEW p, NEW a \in Nat, StoreHolds(s, p, a),
           NEW lo \in Nat, NEW hi \in Nat, a < lo, lo <= hi,
           NEW contents \in [lo..hi -> Content], NEW old \in Content, NEW rb,
           lo = a + 1 /\ a > 0 => old = p[a]
    PROVE  /\ StoreHolds(write_versions(s, old, contents, rb), Overlay(p, contents), hi)
           /\ DOMAIN write_versions(s, old, contents, rb).recs = DOMAIN s.recs \cup lo..hi
<1> DEFINE nos == lo..hi
           full == {v \in nos : IsCheckpoint(v)}
           before(v) == IF v - 1 \in nos THEN contents[v - 1] ELSE old
           newRecs == [v \in nos |-> rb]
           newSnaps == [v \in full |-> contents[v]]
           newDiffs == [v \in nos \ full |-> compute_diff(before(v), contents[v])]
           t == write_versions(s, old, contents, rb)
           q == Overlay(p, contents)
           recs == DOMAIN s.recs
<1>1. /\ recs \subseteq 1..a /\ DOMAIN p = recs
      /\ \A v \in recs : p[v] \in Content
      /\ DOMAIN s.snaps = {v \in recs : IsCheckpoint(v)}
      /\ DOMAIN s.diffs = {v \in recs : ~IsCheckpoint(v)}
  BY DEF StoreHolds
<1>2. DOMAIN contents = nos /\ \A v \in nos : contents[v] \in Content
  OBVIOUS
<1>3. \A v \in recs : v \notin nos
  BY <1>1
<1>4. t = [recs |-> Overlay(s.recs, newRecs), snaps |-> Overlay(s.snaps, newSnaps),
           diffs |-> Overlay(s.diffs, newDiffs)]
  BY <1>2 DEF write_versions
<1>5. DOMAIN newRecs = nos /\ DOMAIN newSnaps = full /\ DOMAIN newDiffs = nos \ full
  OBVIOUS
<1>6. /\ DOMAIN t.recs = recs \cup nos
      /\ DOMAIN t.snaps = DOMAIN s.snaps \cup full
      /\ DOMAIN t.diffs = DOMAIN s.diffs \cup (nos \ full)
  <2> HIDE DEF t, newRecs, newSnaps, newDiffs, nos, full
  <2> QED
    BY <1>4, <1>5, OverlayDomain, ZenonT(60)
<1>7. DOMAIN q = recs \cup nos
  <2>1. DOMAIN q = DOMAIN p \cup DOMAIN contents
    BY OverlayDomain
  <2> QED
    BY <1>1, <1>2, <2>1
<1>8. \A v \in nos : q[v] = contents[v]
  BY <1>2 DEF Overlay
<1>9. \A v \in recs : q[v] = p[v]
  BY <1>1, <1>2, <1>3 DEF Overlay
<1>10. \A v \in full : t.snaps[v] = contents[v]
  BY <1>4, <1>5 DEF Overlay
<1>11. \A v \in DOMAIN s.snaps : t.snaps[v] = s.snaps[v]
  <2>1. \A v \in DOMAIN s.snaps : v \notin full
    BY <1>1, <1>3
  <2> HIDE DEF full, newSnaps
  <2> QED
    BY <1>4, <1>5, <2>1 DEF Overlay
<1>12. \A v \in nos \ full : t.diffs[v] = compute_diff(before(v), contents[v])
  BY <1>4, <1>5 DEF Overlay
<1>13. \A v \in DOMAIN s.diffs : t.diffs[v] = s.diffs[v]
  <2>1. \A v \in DOMAIN s.diffs : v \notin nos \ full
    BY <1>1, <1>3
  <2> HIDE DEF full, nos, newDiffs
  <2> QED
    BY <1>4, <1>5, <2>1 DEF Overlay
<1>14. ASSUME NEW v \in nos, v - 1 \in recs \cup nos
       PROVE  before(v) \in Content /\ before(v) = q[v - 1]
  <2>1. CASE v - 1 \in nos
    BY <1>2, <1>8, <2>1
  <2>2. CASE v - 1 \notin nos
    <3>1. v - 1 \in recs /\ v = lo
      BY <1>14, <2>2
    <3>2. v = a + 1 /\ a > 0
      BY <1>1, <1>14, <3>1
    <3> QED
      BY <1>9, <2>2, <3>1, <3>2
  <2> QED
    BY <2>1, <2>2
<1> HIDE DEF t, q, before, newRecs, newSnaps, newDiffs
<1>15. DOMAIN t.recs \subseteq 1..hi /\ hi \in DOMAIN t.recs
  BY <1>1, <1>6
<1>16. \A v \in DOMAIN q : q[v] \in Content
  BY <1>1, <1>2, <1>7, <1>8, <1>9
<1>17. DOMAIN t.snaps = {v \in DOMAIN t.recs : IsCheckpoint(v)}
       /\ DOMAIN t.diffs = {v \in DOMAIN t.recs : ~IsCheckpoint(v)}
  BY <1>1, <1>6
<1>18. \A v \in DOMAIN t.snaps : t.snaps[v] = q[v]
  <2>1. ASSUME NEW v \in DOMAIN s.snaps PROVE t.snaps[v] = q[v]
    BY <1>1, <1>9, <1>11 DEF StoreHolds
  <2>2. ASSUME NEW v \in full PROVE t.snaps[v] = q[v]
    BY <1>8, <1>10
  <2> QED
    BY <1>6, <2>1, <2>2
<1>19. ASSUME NEW v \in DOMAIN t.diffs, v - 1 \in DOMAIN t.recs
       PROVE  apply_diff(q[v - 1], t.diffs[v]) = q[v]
  <2>1. CASE v \in nos
    <3>1. v \in nos \ full
      BY <1>1, <1>3, <1>6, <2>1
    <3>2. before(v) \in Content /\ before(v) = q[v - 1]
      BY <1>6, <1>14, <1>19, <2>1
    <3>3. apply_diff(before(v), compute_diff(before(v), contents[v])) = contents[v]
      BY <1>2, <2>1, <3>2, DiffRoundTrip DEF Content
    <3> QED
      BY <1>8, <1>12, <2>1, <3>1, <3>2, <3>3
  <2>2. CASE v \notin nos
    <3>1. v \in DOMAIN s.diffs /\ v \in recs
      BY <1>1, <1>6, <2>2
    <3>2. v - 1 \in recs
      BY <1>1, <1>6, <1>19, <3>1
    <3>3. apply_diff(p[v - 1], s.diffs[v]) = p[v]
      BY <3>1, <3>2 DEF StoreHolds
    <3> QED
      BY <1>9, <1>13, <3>1, <3>2, <3>3
  <2> QED
    BY <2>1, <2>2
<1>20. StoreHolds(t, q, hi)
  BY <1>6, <1>7, <1>15, <1>16, <1>17, <1>18, <1>19 DEF StoreHolds
<1> QED
  BY <1>6, <1>20 DEF t, q

\* Versions written right after the active one complete their chains, when
\* that of the active one was complete.
LEMMA WrittenComplete ==
    ASSUME NEW s, NEW t, NEW a \in Nat, NEW hi \in Nat,
           a = 0 \/ Complete(s, a), DOMAIN t.recs = DOMAIN s.recs \cup (a + 1)..hi,
           NEW v \in (a + 1)..hi
    PROVE  Complete(t, v)
<1>1. v \in Nat \ {0} /\ ChainBase(v) \in 1..v
  BY ChainStart
<1>2. CASE a = 0
  BY <1>1, <1>2 DEF Complete
<1>3. CASE a # 0
  <2>1. ChainBase(a) <= ChainBase(v) /\ ChainBase(a) \in Nat
    BY <1>1, <1>3, ChainStart, ChainStartLast
  <2>2. ChainBase(a)..a \subseteq DOMAIN s.recs
    BY <1>3 DEF Complete
  <2>3. ASSUME NEW n \in ChainBase(v)..v PROVE n \in DOMAIN t.recs
    <3>1. n \in ChainBase(a)..a \/ n \in (a + 1)..hi
      BY <1>1, <2>1
    <3> QED
      BY <2>2, <3>1
  <2> QED
    BY <2>3 DEF Complete
<1> QED
  BY <1>2, <1>3

-----------------------------------------------------------------------------
(* Pruning *)

\* In a set of version numbers with more than keep elements one has exactly
\* keep larger ones: where prune_versions starts to keep.
LEMMA KeepPoint ==
    ASSUME NEW a \in Nat, NEW S \in SUBSET (1..a), NEW keep \in Nat, keep < Cardinality(S)
    PROVE  \E v \in S : Cardinality({w \in S : w > v}) = keep
<1> DEFINE Above(v) == {w \in S : w > v}
           From(v) == {w \in S : w >= v}
           T == {k \in Nat : k < Cardinality(S) /\ ~(\E v \in S : Cardinality(Above(v)) = k)}
<1>0. \A w \in S : w \in Nat /\ 1 <= w /\ w <= a
  OBVIOUS
<1>1. IsFiniteSet(S) /\ \A R \in SUBSET S : IsFiniteSet(R)
  <2>1. IsFiniteSet(1..a)
    BY FS_Interval
  <2> QED
    BY <2>1, FS_Subset
<1>2. CASE T = {}
  BY <1>2
<1>3. CASE T # {}
  <2>1. PICK k \in T : \A j \in T : k <= j
    <3>1. T \in SUBSET Nat
      OBVIOUS
    <3> HIDE DEF T
    <3> QED
      BY <1>3, <3>1, LeastNat
  <2>2. k \in Nat /\ k < Cardinality(S) /\ ~(\E v \in S : Cardinality(Above(v)) = k)
    BY <2>1
  \* u: the version with k - 1 larger ones, or the number after all of them.
  <2>3. PICK u \in 1..(a + 1) : Cardinality(From(u)) = k
    <3>1. CASE k = 0
      <4>1. \A w \in S : ~(w >= a + 1)
        BY <1>0
      <4>2. From(a + 1) = {}
        BY <4>1, Zenon
      <4>3. a + 1 \in 1..(a + 1)
        OBVIOUS
      <4> HIDE DEF From
      <4> QED
        BY <3>1, <4>2, <4>3, FS_EmptySet
    <3>2. CASE k # 0
      <4>1. k - 1 \in Nat /\ k - 1 < Cardinality(S) /\ k - 1 \notin T
        <5>1. k - 1 \in Nat /\ ~(k <= k - 1)
          BY <2>2, <3>2
        <5>2. Cardinality(S) \in Nat
          BY <1>1, FS_CardinalityType
        <5> HIDE DEF T
        <5> QED
          BY <2>1, <2>2, <5>1, <5>2
      <4>2. PICK u \in S : Cardinality(Above(u)) = k - 1
        BY <4>1
      <4>3. \A w \in S : w >= u <=> w > u \/ w = u
        BY <1>0, <4>2
      <4>4. u \notin Above(u)
        BY <1>0, <4>2
      <4>5. IsFiniteSet(Above(u))
        BY <1>1
      <4>6. From(u) = Above(u) \cup {u}
        BY <4>2, <4>3, Zenon
      <4> HIDE DEF From, Above
      <4>7. Cardinality(From(u)) = Cardinality(Above(u)) + 1
        BY <4>4, <4>5, <4>6, FS_AddElement
      <4>8. Cardinality(From(u)) = k
        BY <2>2, <4>2, <4>7
      <4>9. u \in 1..(a + 1)
        BY <1>0, <4>2
      <4> QED
        BY <4>8, <4>9
    <3> QED
      BY <3>1, <3>2
  <2> DEFINE Below == {w \in S : w < u}
             Gaps == {a + 1 - w : w \in Below}
  <2>4. Below # {}
    <3>1. CASE Below = {}
      <4>1. \A w \in S : w >= u
        BY <1>0, <3>1
      <4>2. \A w : w \in From(u) <=> w \in S
        BY <4>1
      <4>3. From(u) = S
        <5> HIDE DEF From
        <5> QED
          BY <4>2, Zenon
      <4> HIDE DEF From
      <4>4. Cardinality(S) = k
        BY <2>3, <4>3
      <4> QED
        BY <2>2, <4>4
    <3> QED
      BY <3>1
  <2>5. PICK g \in Gaps : \A h \in Gaps : g <= h
    <3>1. \A w \in Below : a + 1 - w \in Nat
      BY <1>0
    <3> HIDE DEF Below
    <3>2. Gaps \in SUBSET Nat /\ Gaps # {}
      BY <2>4, <3>1
    <3> HIDE DEF Gaps
    <3> QED
      BY <3>2, LeastNat
  <2>6. PICK v \in Below : g = a + 1 - v
    OBVIOUS
  <2>7. ASSUME NEW w \in Below PROVE w <= v
    <3>1. a + 1 - w \in Gaps
      BY <2>7
    <3>2. g <= a + 1 - w
      BY <2>5, <3>1
    <3> QED
      BY <1>0, <2>6, <3>2
  <2>8. ASSUME NEW w \in S PROVE w > v <=> w >= u
    <3>1. CASE w < u
      BY <1>0, <2>6, <2>7, <3>1
    <3>2. CASE ~(w < u)
      BY <1>0, <2>6, <3>2
    <3> QED
      BY <3>1, <3>2
  <2>9. \A w : w \in Above(v) <=> w \in From(u)
    BY <2>8
  <2>10. v \in S
    OBVIOUS
  <2>11. Cardinality(Above(v)) = k
    <3> HIDE DEF Above, From
    <3>1. Above(v) = From(u)
      BY <2>9, Zenon
    <3> QED
      BY <2>3, <3>1
  <2> QED
    BY <2>2, <2>10, <2>11
<1> QED
  BY <1>2, <1>3

\* prune_versions keeps every version from a checkpoint on, so a kept version
\* keeps the whole chain it had, and the active version is never removed.
LEMMA PrunedStore ==
    ASSUME NEW s, NEW p, NEW a \in Nat, StoreHolds(s, p, a), NEW keep \in Nat,
           NEW t, t = prune_versions(s, a, keep)
    PROVE  /\ StoreHolds(t, [v \in DOMAIN t.recs |-> p[v]], a)
           /\ DOMAIN t.recs \subseteq DOMAIN s.recs
           /\ \A v \in DOMAIN t.recs : Complete(s, v) => Complete(t, v)
<1> DEFINE recs == DOMAIN s.recs
           gone == PrunedVersions(s, a, keep)
           q == [v \in DOMAIN t.recs |-> p[v]]
<1>1. /\ recs \subseteq 1..a /\ (a > 0 => a \in recs) /\ DOMAIN p = recs
      /\ \A v \in recs : p[v] \in Content
      /\ DOMAIN s.snaps = {v \in recs : IsCheckpoint(v)}
      /\ DOMAIN s.diffs = {v \in recs : ~IsCheckpoint(v)}
  BY DEF StoreHolds
<1>2. PICK k \in 1..a \cup {1} : IsCheckpoint(k) /\ gone = {v \in recs : v < k}
  <2>1. CASE Cardinality(recs) <= keep
    <3>1. gone = {}
      BY <2>1 DEF PrunedVersions
    <3>2. {v \in recs : v < 1} = {}
      BY <1>1
    <3> QED
      BY <3>1, <3>2 DEF IsCheckpoint
  <2>2. CASE ~(Cardinality(recs) <= keep)
    <3> DEFINE c == CHOOSE v \in recs : Cardinality({w \in recs : w > v}) = keep
    <3>1. Cardinality(recs) \in Nat
      <4>1. IsFiniteSet(1..a)
        BY FS_Interval
      <4> QED
        BY <1>1, <4>1, FS_Subset, FS_CardinalityType
    <3>2. keep < Cardinality(recs)
      BY <2>2, <3>1
    <3>3. \E v \in recs : Cardinality({w \in recs : w > v}) = keep
      <4> HIDE DEF recs
      <4> QED
        BY <1>1, <3>2, KeepPoint
    <3>4. c \in recs
      BY <3>3
    <3>5. KeepFrom(s, keep) = ChainBase(c)
      BY DEF KeepFrom
    <3> HIDE DEF c
    <3>6. c \in Nat \ {0} /\ c <= a
      BY <1>1, <3>4
    <3>7. ChainBase(c) \in 1..c /\ IsCheckpoint(ChainBase(c))
      BY <3>6, ChainStart
    <3>8. gone = {v \in recs : v < ChainBase(c) /\ v # a}
      BY <2>2, <3>5 DEF PrunedVersions
    <3>9. gone = {v \in recs : v < ChainBase(c)}
      BY <3>6, <3>7, <3>8
    <3>10. ChainBase(c) \in 1..a
      BY <3>6, <3>7
    <3> QED
      BY <3>7, <3>9, <3>10
  <2> QED
    BY <2>1, <2>2
<1>3. t = [recs |-> Without(s.recs, gone), snaps |-> Without(s.snaps, gone),
           diffs |-> Without(s.diffs, gone)]
  BY DEF prune_versions
<1> HIDE DEF gone
<1>4. /\ DOMAIN t.recs = recs \ gone
      /\ DOMAIN t.snaps = DOMAIN s.snaps \ gone
      /\ DOMAIN t.diffs = DOMAIN s.diffs \ gone
  <2>1. /\ DOMAIN Without(s.recs, gone) = recs \ gone
        /\ DOMAIN Without(s.snaps, gone) = DOMAIN s.snaps \ gone
        /\ DOMAIN Without(s.diffs, gone) = DOMAIN s.diffs \ gone
    BY WithoutDomain
  <2>2. /\ t.recs = Without(s.recs, gone)
        /\ t.snaps = Without(s.snaps, gone)
        /\ t.diffs = Without(s.diffs, gone)
    BY <1>3
  <2> QED
    BY <2>1, <2>2
<1>5. /\ \A v \in DOMAIN t.snaps : t.snaps[v] = s.snaps[v]
      /\ \A v \in DOMAIN t.diffs : t.diffs[v] = s.diffs[v]
  BY <1>3 DEF Without
<1>6. DOMAIN t.recs = {v \in recs : v >= k}
  BY <1>1, <1>2, <1>4
<1>7. DOMAIN q = DOMAIN t.recs /\ \A v \in DOMAIN t.recs : q[v] = p[v]
  OBVIOUS
<1> HIDE DEF q
<1>8. a > 0 => a \in DOMAIN t.recs
  BY <1>1, <1>2, <1>6
<1>9. DOMAIN t.snaps = {v \in DOMAIN t.recs : IsCheckpoint(v)}
      /\ DOMAIN t.diffs = {v \in DOMAIN t.recs : ~IsCheckpoint(v)}
  BY <1>1, <1>4
<1>10. ASSUME NEW v \in DOMAIN t.snaps PROVE t.snaps[v] = q[v]
  BY <1>1, <1>4, <1>5, <1>7, <1>9 DEF StoreHolds
<1>11. ASSUME NEW v \in DOMAIN t.diffs, v - 1 \in DOMAIN t.recs
       PROVE  apply_diff(q[v - 1], t.diffs[v]) = q[v]
  <2>1. v \in DOMAIN s.diffs /\ v \in DOMAIN t.recs /\ v - 1 \in recs
    BY <1>4, <1>9, <1>11
  <2>2. apply_diff(p[v - 1], s.diffs[v]) = p[v]
    BY <2>1 DEF StoreHolds
  <2> QED
    BY <1>5, <1>7, <1>11, <2>1, <2>2
<1>12. StoreHolds(t, q, a)
  <2>1. \A v \in DOMAIN q : q[v] \in Content
    BY <1>1, <1>4, <1>7
  <2> QED
    BY <1>1, <1>4, <1>7, <1>8, <1>9, <1>10, <1>11, <2>1 DEF StoreHolds
<1>13. ASSUME NEW v \in DOMAIN t.recs, Complete(s, v) PROVE Complete(t, v)
  <2>1. v \in Nat \ {0} /\ k \in 1..v
    BY <1>1, <1>2, <1>6
  <2>2. k <= ChainBase(v) /\ ChainBase(v) \in Nat
    BY <1>2, <2>1, ChainStart, ChainStartLast
  <2> QED
    BY <1>2, <1>6, <1>13, <2>1, <2>2 DEF Complete
<1> QED
  BY <1>4, <1>12, <1>13 DEF q

-----------------------------------------------------------------------------
(* Rollbacks *)

\* A version made by a rollback names an earlier one; while that is kept both
\* chains are complete and the contents are the same.
RollbacksHold(s, p) ==
    \A v \in DOMAIN s.recs :
        /\ s.recs[v] \in 0..(v - 1)
        /\ s.recs[v] \in DOMAIN s.recs =>
              /\ Complete(s, v) /\ Complete(s, s.recs[v])
              /\ p[v] = p[s.recs[v]]

\* A write keeps this: it is not a rollback, or it gives the version after a
\* readable active one the content of a readable version.
LEMMA WrittenRollbacks ==
    ASSUME NEW s, NEW p, NEW a \in Nat, StoreHolds(s, p, a), RollbacksHold(s, p),
           NEW lo \in Nat, NEW hi \in Nat, a < lo, lo <= hi,
           NEW contents \in [lo..hi -> Content], NEW old, NEW rb,
           \/ rb = 0
           \/ /\ rb \in 1..a /\ rb \in DOMAIN s.recs /\ lo = a + 1 /\ hi = a + 1
              /\ Complete(s, a) /\ Complete(s, rb) /\ contents[lo] = p[rb],
           NEW t, t = write_versions(s, old, contents, rb),
           DOMAIN t.recs = DOMAIN s.recs \cup lo..hi
    PROVE  RollbacksHold(t, Overlay(p, contents))
<1> DEFINE q == Overlay(p, contents)
           recs == DOMAIN s.recs
<1>1. recs \subseteq 1..a /\ DOMAIN p = recs /\ DOMAIN contents = lo..hi
  BY DEF StoreHolds
<1>2. t.recs = Overlay(s.recs, [v \in lo..hi |-> rb])
  BY <1>1 DEF write_versions
<1>3. \A v \in lo..hi : t.recs[v] = rb /\ q[v] = contents[v]
  BY <1>1, <1>2 DEF Overlay
<1>4. \A v \in recs : t.recs[v] = s.recs[v] /\ q[v] = p[v] /\ v \notin lo..hi
  BY <1>1, <1>2 DEF Overlay
<1>5. \A v : Complete(s, v) => Complete(t, v)
  BY DEF Complete
<1> HIDE DEF q
<1>6. ASSUME NEW v \in recs
      PROVE  /\ t.recs[v] \in 0..(v - 1)
             /\ t.recs[v] \in DOMAIN t.recs =>
                   /\ Complete(t, v) /\ Complete(t, t.recs[v])
                   /\ q[v] = q[t.recs[v]]
  <2> DEFINE to == s.recs[v]
  <2>1. to \in 0..(v - 1) /\ v \in 1..a /\ t.recs[v] = to
    BY <1>1, <1>4 DEF RollbacksHold
  <2>2. to \notin lo..hi
    BY <2>1
  <2>3. to \in recs => Complete(s, v) /\ Complete(s, to) /\ p[v] = p[to]
    BY DEF RollbacksHold
  <2> HIDE DEF to
  <2> QED
    BY <1>4, <1>5, <2>1, <2>2, <2>3
<1>7. ASSUME NEW v \in lo..hi
      PROVE  /\ t.recs[v] \in 0..(v - 1)
             /\ t.recs[v] \in DOMAIN t.recs =>
                   /\ Complete(t, v) /\ Complete(t, t.recs[v])
                   /\ q[v] = q[t.recs[v]]
  <2>1. CASE rb = 0
    <3>1. 0 \notin DOMAIN t.recs
      BY <1>1
    <3> QED
      BY <1>3, <2>1, <3>1
  <2>2. CASE rb # 0
    <3>1. /\ rb \in 1..a /\ rb \in recs /\ lo = a + 1 /\ hi = a + 1 /\ v = lo
          /\ Complete(s, a) /\ Complete(s, rb) /\ contents[lo] = p[rb]
      BY <2>2
    <3>2. Complete(t, v)
      BY <3>1, WrittenComplete
    <3>3. Complete(t, rb) /\ q[v] = q[rb]
      BY <1>3, <1>4, <1>5, <3>1
    <3> QED
      BY <1>3, <3>1, <3>2, <3>3
  <2> QED
    BY <2>1, <2>2
<1> QED
  BY <1>6, <1>7 DEF RollbacksHold, q

\* Pruning keeps it: a kept version keeps its chain.
LEMMA PrunedRollbacks ==
    ASSUME NEW s, NEW p, NEW a \in Nat, StoreHolds(s, p, a), RollbacksHold(s, p),
           NEW t, NEW q, DOMAIN t.recs \subseteq DOMAIN s.recs,
           \A v \in DOMAIN t.recs : /\ t.recs[v] = s.recs[v] /\ q[v] = p[v]
                                    /\ Complete(s, v) => Complete(t, v)
    PROVE  RollbacksHold(t, q)
BY DEF RollbacksHold

-----------------------------------------------------------------------------
(* The invariant of the version history *)

\* The active version of a branch, 0 when there is none.
Active(b) == IF branches[b] = None THEN 0 ELSE branches[b].active_version

\* The draft and the gray snapshots of a branch are contents, and the draft has
\* the groups of its items.
BranchContents(b) ==
    /\ drafts[b].values \in Content
    /\ {GroupOf[i] : i \in DOMAIN drafts[b].values} \subseteq drafts[b].groups
    /\ \A n \in DOMAIN graySnaps[b] : graySnaps[b][n] \in Content

\* The store of a branch holds the history of its contents.
BranchHistory(b) ==
    /\ StoreHolds(store[b], published[b], Active(b))
    /\ RollbacksHold(store[b], published[b])
    /\ DOMAIN store[b].recs \subseteq 1..MaxVersion

\* The inductive invariant of the theorems below, with StateInv.
HistoryInv ==
    /\ StateInv
    /\ store = [b \in Branch |-> store[b]]
    /\ published = [b \in Branch |-> published[b]]
    /\ \A b \in Branch : BranchContents(b) /\ BranchHistory(b)

\* What is known of a branch that exists.
LEMMA LiveBranch ==
    ASSUME HistoryInv, NEW b \in Live
    PROVE  /\ b \in Branch /\ branches[b] \in BranchState /\ branches[b] # None
           /\ Active(b) = branches[b].active_version /\ Active(b) \in Nat
           /\ BranchContents(b) /\ BranchHistory(b)
BY DEF HistoryInv, StateInv, StateTypeOK, Live, Active, BranchState

\* The active version of any branch is a number.
LEMMA ActiveType ==
    ASSUME HistoryInv, NEW b \in Branch
    PROVE  Active(b) \in Nat
BY DEF HistoryInv, StateInv, StateTypeOK, Active, BranchState

\* Active content that can be read is the content the active version was given.
LEMMA ActiveRead ==
    ASSUME HistoryInv, NEW b \in Live, ActiveContent(b) # NotFound
    PROVE  /\ ActiveContent(b) \in Content
           /\ Active(b) = 0 \/ Complete(store[b], Active(b))
           /\ Active(b) > 0 => ActiveContent(b) = published[b][Active(b)]
           /\ Active(b) = 0 => ActiveContent(b) = EmptyMap
<1>1. /\ Active(b) = branches[b].active_version /\ Active(b) \in Nat
      /\ StoreHolds(store[b], published[b], Active(b))
  BY LiveBranch DEF BranchHistory
<1>2. CASE Active(b) = 0
  BY <1>1, <1>2, EmptyMapType DEF ActiveContent, Content
<1>3. CASE Active(b) # 0
  <2>1. ActiveContent(b) = snapshot_of(store[b], Active(b))
    BY <1>1, <1>3 DEF ActiveContent
  <2>2. snapshot_of(store[b], Active(b)) =
          IF Complete(store[b], Active(b)) THEN published[b][Active(b)] ELSE NotFound
    BY <1>1, <1>3, RebuiltContent
  <2>3. Active(b) \in DOMAIN published[b]
    BY <1>1, <1>3 DEF StoreHolds
  <2>4. published[b][Active(b)] \in Content
    BY <1>1, <2>3 DEF StoreHolds
  <2> QED
    BY <1>3, <2>1, <2>2, <2>4
<1> QED
  BY <1>2, <1>3

\* A publication writes a content.
LEMMA MaterializedType ==
    ASSUME HistoryInv, NEW b \in Live, NEW old \in Content
    PROVE  materialize_resolved(b, old) \in Content
<1> DEFINE carried == {i \in DOMAIN structure.defs :
                          /\ ~structure.defs[i].shared
                          /\ structure.defs[i].ty = "secret"
                          /\ i \notin DOMAIN drafts[b].values
                          /\ i \in DOMAIN old}
           resolved == SharedDefs(structure.defs) \ Unresolved(b)
           bound == branches[b].shared_bindings
           values == [i \in resolved |-> shared[bound[i]].value]
<1>1. /\ drafts[b].values \in Content
      /\ structure.defs \in PartialFcn(Item, ItemDef)
      /\ shared \in PartialFcn(SharedKey, SharedItem)
  BY LiveBranch DEF BranchContents, HistoryInv, StateInv, StateTypeOK
<1>2. [i \in carried |-> old[i]] \in Content
  <2>1. carried \in SUBSET DOMAIN old
    OBVIOUS
  <2> HIDE DEF carried
  <2> QED
    BY <2>1, PartType DEF Content
<1>3. DraftWithSecrets(b, old) \in Content
  BY <1>1, <1>2, OverlayType DEF DraftWithSecrets, Content
<1>4. values \in Content
  <2>1. resolved \in SUBSET Item
    BY <1>1, PartialFcnElim DEF SharedDefs
  <2>2. ASSUME NEW i \in resolved PROVE shared[bound[i]].value \in Value
    <3>1. bound[i] \in DOMAIN shared
      BY DEF Unresolved
    <3>2. shared[bound[i]] \in SharedItem
      BY <1>1, <3>1, PartialFcnElim
    <3> QED
      BY <3>2 DEF SharedItem
  <2> HIDE DEF resolved, bound
  <2>3. values \in [resolved -> Value]
    BY <2>2
  <2> HIDE DEF values
  <2> QED
    BY <2>1, <2>3, PartialFcnIntro DEF Content
<1> HIDE DEF values
<1>5. materialize_resolved(b, old) = Overlay(DraftWithSecrets(b, old), values)
  BY DEF materialize_resolved, values
<1> QED
  BY <1>3, <1>4, <1>5, OverlayType DEF Content

-----------------------------------------------------------------------------
(* What a step does to the store of a branch *)

StoreKept(b) ==
    store'[b] = store[b] /\ published'[b] = published[b] /\ Active(b)' = Active(b)

\* The command writes the versions lo..hi, the last one active, after it has
\* read the active content.  Without a gray release they follow the active one.
Written(b, lo, hi, contents, old, rb) ==
    /\ Active(b) < lo /\ lo <= hi /\ hi <= MaxVersion
    /\ GrayNumber(b) = 0 => lo = Active(b) + 1
    /\ Active(b) = 0 \/ Complete(store[b], Active(b))
    /\ lo = Active(b) + 1 /\ Active(b) > 0 => old = published[b][Active(b)]
    /\ \/ rb = 0
       \/ /\ rb \in 1..Active(b) /\ rb \in DOMAIN store[b].recs
          /\ lo = Active(b) + 1 /\ hi = Active(b) + 1
          /\ Complete(store[b], Active(b)) /\ Complete(store[b], rb)
          /\ contents[lo] = published[b][rb]
    /\ store'[b] = write_versions(store[b], old, contents, rb)
    /\ published'[b] = Overlay(published[b], contents)
    /\ Active(b)' = hi

StoreWritten(b) ==
    \E lo, hi \in Nat : \E contents \in [lo..hi -> Content], old \in Content, rb \in Nat :
        Written(b, lo, hi, contents, old, rb)

StorePruned(b) ==
    /\ store'[b] = prune_versions(store[b], Active(b), Keep)
    /\ published'[b] = [v \in DOMAIN store'[b].recs |-> published[b][v]]
    /\ Active(b)' = Active(b)

StoreGone(b) ==
    store'[b] = EmptyStore /\ published'[b] = EmptyMap /\ Active(b)' = 0

StoreStep(b) == StoreKept(b) \/ StoreWritten(b) \/ StorePruned(b) \/ StoreGone(b)

\* A command that writes one version of one branch.
LEMMA WriteVersionStep ==
    ASSUME HistoryInv, NEW b \in Branch, OneBranch(b), NEW v \in Nat,
           branches'[b].active_version = v, Active(b) < v,
           branches[b].gray_seq = 0 => v = Active(b) + 1,
           ActiveContent(b) # NotFound, NEW content \in Content, NEW rb \in Nat,
           \/ rb = 0
           \/ /\ rb \in 1..Active(b) /\ rb \in DOMAIN store[b].recs /\ v = Active(b) + 1
              /\ Active(b) > 0 /\ Complete(store[b], rb) /\ content = published[b][rb],
           WriteVersion(b, v, content, rb)
    PROVE  /\ StoreWritten(b)
           /\ \A c \in Branch \ {b} : StoreKept(c)
<1> DEFINE one == [n \in {v} |-> content]
           a == Active(b)
<1>1. b \in Live /\ branches[b] # None /\ branches'[b] # None
  BY NoneAssumption DEF OneBranch
<1>2. /\ ActiveContent(b) \in Content
      /\ a = 0 \/ Complete(store[b], a)
      /\ a > 0 => ActiveContent(b) = published[b][a]
      /\ a \in Nat
  BY <1>1, ActiveRead, LiveBranch
<1>3. v <= MaxVersion
      /\ store' = [store EXCEPT ![b] = write_versions(store[b], ActiveContent(b), one, rb)]
      /\ published' = [published EXCEPT ![b] = Overlay(published[b], one)]
  BY DEF WriteVersion
<1> HIDE DEF one
<1>4. store'[b] = write_versions(store[b], ActiveContent(b), one, rb)
      /\ published'[b] = Overlay(published[b], one)
  BY <1>3 DEF HistoryInv
<1>5. \A c \in Branch \ {b} : store'[c] = store[c] /\ published'[c] = published[c]
  BY <1>3 DEF HistoryInv
<1>6. Active(b)' = v
  BY <1>1 DEF Active
<1>7. GrayNumber(b) = branches[b].gray_seq
  BY <1>1 DEF GrayNumber
<1>8. v..v = {v}
  OBVIOUS
<1>9. one \in [v..v -> Content] /\ one[v] = content
  BY <1>8 DEF one
<1>10. Written(b, v, v, one, ActiveContent(b), rb)
  <2>1. GrayNumber(b) = 0 => v = a + 1
    BY <1>7
  <2>2. \/ rb = 0
        \/ /\ rb \in 1..a /\ rb \in DOMAIN store[b].recs
           /\ v = a + 1 /\ v = a + 1
           /\ Complete(store[b], a) /\ Complete(store[b], rb)
           /\ one[v] = published[b][rb]
    BY <1>2, <1>9
  <2> QED
    BY <1>2, <1>3, <1>4, <1>6, <2>1, <2>2 DEF Written
<1>11. StoreWritten(b)
  BY <1>2, <1>9, <1>10 DEF StoreWritten
<1>12. \A c \in Branch \ {b} : StoreKept(c)
  BY <1>5 DEF OneBranch, StoreKept, Active
<1> QED
  BY <1>11, <1>12

\* A command that leaves stores and version numbers alone.
LEMMA StoresKept ==
    ASSUME UNCHANGED <<store, published>>, \A b \in Branch : Active(b)' = Active(b)
    PROVE  \A b \in Branch : StoreKept(b)
BY DEF StoreKept

\* Publish writes the version after the active one.
LEMMA PublishWrites ==
    ASSUME HistoryInv, NEW b \in Branch, NEW rid \in RequestId, NEW policy,
           Publish(b, rid, policy)
    PROVE  /\ StoreWritten(b)
           /\ \A c \in Branch \ {b} : StoreKept(c)
<1> DEFINE content == materialize_resolved(b, ActiveContent(b))
           v == branches[b].active_version + 1
<1>1. OneBranch(b) /\ branches'[b].active_version = v
  BY PublishBranch DEF HistoryInv, StateInv
<1>2. b \in Live /\ ActiveContent(b) # NotFound /\ WriteVersion(b, v, content, 0)
  BY DEF Publish, Publishable
<1>3. ActiveContent(b) \in Content /\ Active(b) = branches[b].active_version /\ Active(b) \in Nat
  BY <1>2, ActiveRead, LiveBranch
<1>4. content \in Content
  BY <1>2, <1>3, MaterializedType
<1> HIDE DEF content
<1>5. v \in Nat /\ Active(b) < v /\ v = Active(b) + 1 /\ 0 \in Nat
  BY <1>3
<1> HIDE DEF v
<1> QED
  BY <1>1, <1>2, <1>4, <1>5, WriteVersionStep

\* Rollback writes the version after the active one, with the content of a
\* version that can be read.
LEMMA RollbackWrites ==
    ASSUME HistoryInv, NEW b \in Branch, NEW rid \in RequestId, NEW to \in Nat,
           Rollback(b, to, rid)
    PROVE  /\ StoreWritten(b)
           /\ \A c \in Branch \ {b} : StoreKept(c)
<1> DEFINE content == RollbackContent(b, to)
           v == branches[b].active_version + 1
<1>1. OneBranch(b) /\ branches'[b].active_version = v
  BY RollbackBranch DEF HistoryInv, StateInv
<1>2. b \in Live /\ ActiveContent(b) # NotFound /\ WriteVersion(b, v, content, to)
      /\ 0 < to /\ to < branches[b].active_version /\ content # NotFound
  BY DEF Rollback
<1>3. /\ Active(b) = branches[b].active_version /\ Active(b) \in Nat
      /\ StoreHolds(store[b], published[b], Active(b))
  BY <1>2, LiveBranch DEF BranchHistory
<1>4. to \in Nat \ {0}
  BY <1>2
<1>5. content = IF Complete(store[b], to) THEN published[b][to] ELSE NotFound
  BY <1>3, <1>4, RebuiltContent DEF RollbackContent
<1>6. Complete(store[b], to) /\ content = published[b][to]
  BY <1>2, <1>5
<1>7. to \in DOMAIN store[b].recs
  BY <1>4, <1>6, CompleteKept
<1>8. content \in Content
  BY <1>3, <1>6, <1>7 DEF StoreHolds
<1> HIDE DEF content
<1>9. v \in Nat /\ Active(b) < v /\ v = Active(b) + 1 /\ to \in 1..Active(b) /\ Active(b) > 0
  BY <1>2, <1>3
<1> HIDE DEF v
<1> QED
  BY <1>1, <1>2, <1>6, <1>7, <1>8, <1>9, WriteVersionStep

\* GrayPromote writes the gray snapshot, under a number above the active
\* version and the gray number.
LEMMA GrayPromoteWrites ==
    ASSUME HistoryInv, NEW b \in Branch, NEW rid \in RequestId, GrayPromote(b, rid)
    PROVE  /\ StoreWritten(b)
           /\ \A c \in Branch \ {b} : StoreKept(c)
<1> DEFINE seq == branches[b].gray_seq
           content == graySnaps[b][seq]
           v == next_monotonic(branches[b].active_version, seq)
<1>1. b \in Live /\ ActiveContent(b) # NotFound /\ WriteVersion(b, v, content, 0)
      /\ seq \in DOMAIN graySnaps[b] /\ GrayActive(b)
  BY DEF GrayPromote
<1>2. /\ Active(b) = branches[b].active_version /\ Active(b) \in Nat
      /\ BranchContents(b) /\ branches[b] \in BranchState
  BY <1>1, LiveBranch
<1>3. OneBranch(b)
  BY GrayPromoteBranch DEF HistoryInv, StateInv
<1>4. branches'[b].active_version = v
  <2>1. branches' = [branches EXCEPT ![b] = [GrayCleared(branches[b], rid) EXCEPT
                                                !.active_version = v]]
    BY DEF GrayPromote
  <2>2. branches'[b] = [GrayCleared(branches[b], rid) EXCEPT !.active_version = v]
    BY <2>1 DEF HistoryInv, StateInv, StateTypeOK
  <2> HIDE DEF v
  <2> QED
    BY <1>2, <2>2 DEF GrayCleared, BranchState
<1>5. content \in Content
  BY <1>1, <1>2 DEF BranchContents
<1>6. v \in Nat /\ Active(b) < v /\ 0 \in Nat
  BY <1>2, NextMonotonicType DEF BranchState
<1>7. branches[b].gray_seq # 0
  BY <1>1 DEF GrayActive
<1> HIDE DEF content, v
<1> QED
  BY <1>1, <1>3, <1>4, <1>5, <1>6, <1>7, WriteVersionStep

\* PublishStructure writes the active content of every branch again.
LEMMA PublishStructureWrites ==
    ASSUME HistoryInv, PublishStructure, NEW b \in Branch
    PROVE  StoreStep(b)
<1> DEFINE v == next_monotonic(branches[b].active_version, branches[b].gray_seq)
           one == [n \in {v} |-> ActiveContent(b)]
           a == Active(b)
<1>1. CASE b \notin Live
  <2>1. store'[b] = store[b] /\ published'[b] = published[b]
    BY <1>1 DEF PublishStructure
  <2>2. branches'[b] = None /\ branches[b] = None
    BY <1>1 DEF PublishStructure, Live
  <2> QED
    BY <2>1, <2>2 DEF StoreStep, StoreKept, Active
<1>2. CASE b \in Live
  <2>1. v < MaxVersion /\ ActiveContent(b) # NotFound
    BY <1>2 DEF PublishStructure
  <2>2. /\ ActiveContent(b) \in Content
        /\ a = 0 \/ Complete(store[b], a)
        /\ a > 0 => ActiveContent(b) = published[b][a]
        /\ a \in Nat /\ a = branches[b].active_version
        /\ branches[b] \in BranchState /\ branches[b] # None
    BY <1>2, <2>1, ActiveRead, LiveBranch
  <2>3. v \in Nat /\ a < v
    BY <2>2, NextMonotonicType DEF BranchState
  <2>4. GrayNumber(b) = 0 => v = a + 1
    BY <2>2 DEF GrayNumber, next_monotonic
  <2>5. store'[b] = write_versions(store[b], ActiveContent(b), one, 0)
        /\ published'[b] = Overlay(published[b], one)
    BY <1>2 DEF PublishStructure
  <2>6. branches'[b] = Restructured(branches[b], structDraft.defs)
    BY <1>2 DEF PublishStructure
  <2>7. branches'[b].active_version = v /\ branches'[b] # None
    <3>1. branches'[b].active_version = v
      BY <2>2, <2>6 DEF Restructured, BranchState
    <3>2. Restructured(branches[b], structDraft.defs) \in BranchState
      BY <1>2, RestructuredType DEF HistoryInv, StateInv
    <3> QED
      BY <2>6, <3>1, <3>2, NoneAssumption
  <2>8. Active(b)' = v
    BY <2>7 DEF Active
  <2> HIDE DEF v
  <2>9. v..v = {v}
    BY <2>3
  <2>10. one \in [v..v -> Content]
    BY <2>2, <2>9
  <2> HIDE DEF one
  <2>11. Written(b, v, v, one, ActiveContent(b), 0)
    BY <2>1, <2>2, <2>3, <2>4, <2>5, <2>8, ConfigAssumption DEF Written
  <2> QED
    BY <2>2, <2>3, <2>10, <2>11 DEF StoreStep, StoreWritten
<1> QED
  BY <1>1, <1>2

\* A cascade writes contents, one version for each item it rewrites, the last
\* one with all of them.
LEMMA CascadeType ==
    ASSUME HistoryInv, NEW b \in Live, ActiveContent(b) # NotFound, NEW n
    PROVE  CascadeContent(b, n) \in Content
<1> DEFINE reached == {j \in Affected(b) : CascadeRank(b, j) <= n}
           bound == branches[b].shared_bindings
           values == [i \in reached |-> sharedDraft[bound[i]].value]
<1>1. bound \in PartialFcn(Item, SharedKey) /\ sharedDraft \in PartialFcn(SharedKey, SharedItem)
  BY LiveBranch DEF BranchState, HistoryInv, StateInv, StateTypeOK
<1>2. reached \in SUBSET Item
  BY <1>1, PartialFcnElim DEF Affected, BoundTo
<1>3. ASSUME NEW i \in reached PROVE sharedDraft[bound[i]].value \in Value
  <2>1. bound[i] \in DOMAIN sharedDraft
    BY DEF Affected, BoundTo
  <2>2. sharedDraft[bound[i]] \in SharedItem
    BY <1>1, <2>1, PartialFcnElim
  <2> QED
    BY <2>2 DEF SharedItem
<1> HIDE DEF reached, bound
<1>4. values \in [reached -> Value]
  BY <1>3
<1> HIDE DEF values
<1>5. values \in Content
  BY <1>2, <1>4, PartialFcnIntro DEF Content
<1>6. CascadeContent(b, n) = Overlay(ActiveContent(b), values)
  BY DEF CascadeContent, values, reached, bound
<1> QED
  BY <1>5, <1>6, ActiveRead, OverlayType DEF Content

\* SharedPublish writes the versions of a cascade after the active one.
LEMMA SharedPublishWrites ==
    ASSUME HistoryInv, NEW mode, SharedPublish(mode), NEW b \in Branch
    PROVE  StoreStep(b)
<1> DEFINE n == Cardinality(Affected(b))
           a == Active(b)
           cascading == b \in Live /\ mode = "auto" /\ Affected(b) # {}
<1>1. CASE ~cascading
  BY <1>1 DEF SharedPublish, StoreStep, StoreKept, Active
<1>2. CASE cascading
  <2>1. ActiveContent(b) # NotFound /\ branches[b].active_version + n <= MaxVersion
    BY <1>2 DEF SharedPublish
  <2>2. /\ ActiveContent(b) \in Content
        /\ a = 0 \/ Complete(store[b], a)
        /\ a > 0 => ActiveContent(b) = published[b][a]
        /\ a \in Nat /\ a = branches[b].active_version
        /\ branches[b] \in BranchState /\ branches[b] # None
    BY <1>2, <2>1, ActiveRead, LiveBranch
  <2>3. n \in Nat /\ n # 0
    <3>1. n \in Nat
      BY <1>2, AffectedCount DEF HistoryInv, StateInv
    <3>2. Affected(b) \subseteq Item
      BY <2>2, PartialFcnElim DEF Affected, BoundTo, BranchState
    <3>3. IsFiniteSet(Affected(b))
      BY <3>2, ConfigAssumption, FS_Subset
    <3> QED
      BY <1>2, <3>1, <3>3, FS_EmptySet
  <2>4. store'[b] = write_versions(store[b], ActiveContent(b), CascadeVersions(b), 0)
        /\ published'[b] = Overlay(published[b], CascadeVersions(b))
    BY <1>2 DEF SharedPublish
  <2>5. branches'[b] = [branches[b] EXCEPT !.active_version = @ + n]
    BY <1>2 DEF SharedPublish
  <2> HIDE DEF n
  <2>6. branches'[b].active_version = a + n /\ branches'[b] # None
    <3>1. branches'[b] \in BranchState
      BY <2>2, <2>3, <2>5 DEF BranchState
    <3> QED
      BY <2>2, <2>5, <3>1, NoneAssumption DEF BranchState
  <2>7. Active(b)' = a + n
    BY <2>6 DEF Active
  <2>8. CascadeVersions(b) = [v \in (a + 1)..(a + n) |-> CascadeContent(b, v - a)]
    BY <2>2 DEF CascadeVersions, n
  <2>9. CascadeVersions(b) \in [(a + 1)..(a + n) -> Content]
    BY <1>2, <2>1, <2>8, CascadeType
  <2>10. a + 1 \in Nat /\ a + n \in Nat /\ a < a + 1 /\ a + 1 <= a + n /\ a + n <= MaxVersion
    BY <2>1, <2>2, <2>3
  <2>11. Written(b, a + 1, a + n, CascadeVersions(b), ActiveContent(b), 0)
    BY <2>2, <2>4, <2>7, <2>10 DEF Written
  <2> QED
    BY <2>2, <2>9, <2>10, <2>11 DEF StoreStep, StoreWritten
<1> QED
  BY <1>1, <1>2

\* Every command leaves the store of a branch alone, writes versions to it,
\* prunes it or removes it.
LEMMA EveryStoreStep ==
    ASSUME HistoryInv, [Next]_vars, NEW c \in Branch
    PROVE  StoreStep(c)
<1> USE DEF StoreStep
<1>1. ASSUME UNCHANGED <<store, published>>, UNCHANGED branches
      PROVE  StoreStep(c)
  BY <1>1 DEF StoreKept, Active
<1>2. ASSUME NEW b \in Branch, OneBranch(b), UNCHANGED <<store, published>>,
             branches'[b].active_version = branches[b].active_version
      PROVE  StoreStep(c)
  BY <1>2, NoneAssumption DEF StoreKept, Active, OneBranch
<1>3. ASSUME NEW b \in Branch, StoreWritten(b), \A d \in Branch \ {b} : StoreKept(d)
      PROVE  StoreStep(c)
  BY <1>3
<1> HIDE DEF StoreStep
<1>4. CASE StructureNext
  <2>1. ASSUME NEW defs, StructureDraftSet(structure.version, defs) PROVE StoreStep(c)
    BY <1>1, <2>1 DEF StructureDraftSet
  <2> QED
    BY <1>4, <2>1, PublishStructureWrites DEF StructureNext
<1>5. ASSUME NEW b \in Branch, BranchNext(b)
      PROVE  StoreStep(c)
  <2>1. ASSUME NEW src \in Branch \cup {None}, BranchCreate(b, src) PROVE StoreStep(c)
    <3> DEFINE new == IF src = None THEN NewBranchState(structure.version)
                      ELSE [NewBranchState(structure.version) EXCEPT
                              !.shared_bindings = branches[src].shared_bindings]
    <3>1. branches' = [branches EXCEPT ![b] = new] /\ b \notin Live
          /\ UNCHANGED <<store, published>>
      BY <2>1 DEF BranchCreate
    <3>2. new.active_version = 0
      BY DEF NewBranchState
    <3> HIDE DEF new
    <3>3. branches'[b] = new /\ \A d \in Branch \ {b} : branches'[d] = branches[d]
      BY <3>1 DEF HistoryInv, StateInv, StateTypeOK
    <3>4. Active(c)' = Active(c)
      BY <3>1, <3>2, <3>3 DEF Active, Live
    <3> QED
      BY <3>1, <3>4 DEF StoreStep, StoreKept
  <2>2. CASE BranchDelete(b)
    <3>1. CASE <<b, c>> \in NamePrefix
      BY <2>2, <3>1 DEF BranchDelete, DeletedWith, StoresWithout, StoreStep, StoreGone, Active
    <3>2. CASE <<b, c>> \notin NamePrefix
      BY <2>2, <3>2 DEF BranchDelete, DeletedWith, StoresWithout, StoreStep, StoreKept, Active
    <3> QED
      BY <3>1, <3>2
  <2>3. ASSUME NEW edit \in DraftInputs, NEW expected, DraftUpdate(b, edit, expected)
        PROVE  StoreStep(c)
    BY <1>2, <2>3, DraftUpdateBranch DEF DraftUpdate, HistoryInv, StateInv
  <2>4. ASSUME NEW rid \in RequestId, NEW policy, Publish(b, rid, policy) PROVE StoreStep(c)
    BY <1>3, <2>4, PublishWrites
  <2>5. ASSUME NEW to \in 1..MaxVersion, NEW rid \in RequestId, Rollback(b, to, rid)
        PROVE  StoreStep(c)
    BY <1>3, <2>5, RollbackWrites
  <2>6. ASSUME NEW rule \in GrayRule, NEW rid \in RequestId, NEW policy,
               GrayPublish(b, rule, rid, policy)
        PROVE  StoreStep(c)
    BY <1>2, <2>6, GrayPublishBranch DEF GrayPublish, HistoryInv, StateInv
  <2>7. ASSUME NEW rid \in RequestId, GrayPromote(b, rid) PROVE StoreStep(c)
    BY <1>3, <2>7, GrayPromoteWrites
  <2>8. ASSUME NEW rid \in RequestId, GrayAbort(b, rid) PROVE StoreStep(c)
    BY <1>2, <2>8, GrayAbortBranch DEF GrayAbort, HistoryInv, StateInv
  <2>9. CASE Prune(b)
    <3> DEFINE kept == prune_versions(store[b], branches[b].active_version, Keep)
               hist == [v \in DOMAIN kept.recs |-> published[b][v]]
    <3>1. b \in Live /\ UNCHANGED branches
          /\ store' = [store EXCEPT ![b] = kept]
          /\ published' = [published EXCEPT ![b] = hist]
      BY <2>9 DEF Prune
    <3> HIDE DEF hist
    <3>2. /\ store'[b] = kept /\ published'[b] = hist
          /\ \A d \in Branch \ {b} : store'[d] = store[d] /\ published'[d] = published[d]
      BY <3>1 DEF HistoryInv
    <3>3. Active(b) = branches[b].active_version
      BY <3>1, LiveBranch
    <3>4. Active(c)' = Active(c)
      BY <3>1 DEF Active
    <3> QED
      BY <3>2, <3>3, <3>4 DEF StoreStep, StoreKept, StorePruned, hist
  <2> QED
    BY <1>5, <2>1, <2>2, <2>3, <2>4, <2>5, <2>6, <2>7, <2>8, <2>9 DEF BranchNext
<1>6. CASE SharedNext
  <2>1. ASSUME NEW k, NEW item, SharedDraftUpdate(k, item) PROVE StoreStep(c)
    BY <1>1, <2>1 DEF SharedDraftUpdate
  <2>2. ASSUME NEW mode, SharedPublishAborted(mode) PROVE StoreStep(c)
    BY <1>1, <2>2 DEF SharedPublishAborted
  <2>3. ASSUME NEW k, SharedDelete(k) PROVE StoreStep(c)
    BY <1>1, <2>3 DEF SharedDelete
  <2> QED
    BY <1>6, <2>1, <2>2, <2>3, SharedPublishWrites DEF SharedNext
<1>7. CASE UNCHANGED vars
  BY <1>1, <1>7 DEF vars
<1> QED
  BY <1>4, <1>5, <1>6, <1>7 DEF Next

-----------------------------------------------------------------------------
(* The history is kept *)

\* A version that is kept keeps its content, and its chain if it had it.
CarriedOver(b) ==
    \A v \in DOMAIN store[b].recs \cap DOMAIN store'[b].recs :
        /\ Complete(store[b], v) => Complete(store'[b], v)
        /\ published'[b][v] = published[b][v]

\* A branch without versions holds the empty history.
LEMMA EmptyHistory ==
    /\ DOMAIN EmptyStore.recs = {}
    /\ StoreHolds(EmptyStore, EmptyMap, 0)
    /\ RollbacksHold(EmptyStore, EmptyMap)
<1>1. /\ DOMAIN EmptyStore.recs = {} /\ DOMAIN EmptyStore.snaps = {}
      /\ DOMAIN EmptyStore.diffs = {} /\ DOMAIN EmptyMap = {}
  BY DEF EmptyStore, EmptyMap
<1> QED
  BY <1>1 DEF StoreHolds, RollbacksHold

\* The stores that a step may leave behind.
LEMMA HistoryStep ==
    ASSUME HistoryInv, NEW b \in Branch, StoreStep(b)
    PROVE  /\ BranchHistory(b)'
           /\ CarriedOver(b)
<1> DEFINE s == store[b]
           t == store'[b]
           p == published[b]
           q == published'[b]
           a == Active(b)
           z == Active(b)'
<1>1. /\ StoreHolds(s, p, a) /\ RollbacksHold(s, p)
      /\ DOMAIN s.recs \subseteq 1..MaxVersion /\ a \in Nat
  BY ActiveType DEF HistoryInv, BranchHistory
<1>2. DOMAIN p = DOMAIN s.recs /\ DOMAIN s.recs \subseteq 1..a
  BY <1>1 DEF StoreHolds
<1>3. SUFFICES /\ StoreHolds(t, q, z) /\ RollbacksHold(t, q)
               /\ DOMAIN t.recs \subseteq 1..MaxVersion
               /\ \A v \in DOMAIN s.recs \cap DOMAIN t.recs :
                     /\ Complete(s, v) => Complete(t, v)
                     /\ q[v] = p[v]
  BY DEF BranchHistory, CarriedOver
<1>4. CASE StoreKept(b)
  BY <1>1, <1>4 DEF StoreKept
<1>5. CASE StoreWritten(b)
  <2>0. PICK lo \in Nat, hi \in Nat :
           \E contents \in [lo..hi -> Content], old \in Content, rb \in Nat :
               Written(b, lo, hi, contents, old, rb)
    BY <1>5 DEF StoreWritten
  <2>1. PICK contents \in [lo..hi -> Content], old \in Content, rb \in Nat :
           Written(b, lo, hi, contents, old, rb)
    BY <2>0
  <2>2. /\ a < lo /\ lo <= hi /\ hi <= MaxVersion
        /\ lo = a + 1 /\ a > 0 => old = p[a]
        /\ \/ rb = 0
           \/ /\ rb \in 1..a /\ rb \in DOMAIN s.recs /\ lo = a + 1 /\ hi = a + 1
              /\ Complete(s, a) /\ Complete(s, rb) /\ contents[lo] = p[rb]
        /\ t = write_versions(s, old, contents, rb) /\ q = Overlay(p, contents) /\ z = hi
    BY <2>1 DEF Written
  <2> HIDE DEF s, t, p, q, a, z
  <2>3. StoreHolds(t, q, z) /\ DOMAIN t.recs = DOMAIN s.recs \cup lo..hi
    BY <1>1, <2>2, WrittenStore, SMTT(30)
  <2>4. RollbacksHold(t, q)
    BY <1>1, <2>2, <2>3, WrittenRollbacks
  <2>5. DOMAIN t.recs \subseteq 1..MaxVersion
    BY <1>1, <2>2, <2>3, ConfigAssumption
  <2>6. ASSUME NEW v \in DOMAIN s.recs
        PROVE  (Complete(s, v) => Complete(t, v)) /\ q[v] = p[v]
    <3>1. v \notin lo..hi
      BY <1>1, <1>2, <2>2
    <3>2. q[v] = p[v]
      BY <1>2, <2>2, <3>1 DEF Overlay
    <3> QED
      BY <2>3, <3>2 DEF Complete
  <2> QED
    BY <2>3, <2>4, <2>5, <2>6
<1>6. CASE StorePruned(b)
  <2>1. t = prune_versions(s, a, Keep) /\ q = [v \in DOMAIN t.recs |-> p[v]] /\ z = a
    BY <1>6 DEF StorePruned
  <2> HIDE DEF s, t, p, q, a, z
  <2>2. /\ StoreHolds(t, q, z)
        /\ DOMAIN t.recs \subseteq DOMAIN s.recs
        /\ \A v \in DOMAIN t.recs : Complete(s, v) => Complete(t, v)
    BY <1>1, <2>1, ConfigAssumption, PrunedStore
  <2>3. \A v \in DOMAIN t.recs : q[v] = p[v] /\ t.recs[v] = s.recs[v]
    <3>1. t.recs = Without(s.recs, PrunedVersions(s, a, Keep))
      BY <2>1 DEF prune_versions
    <3> QED
      BY <2>1, <3>1 DEF Without
  <2>4. RollbacksHold(t, q)
    BY <1>1, <2>2, <2>3, PrunedRollbacks
  <2> QED
    BY <1>1, <2>2, <2>3, <2>4
<1>7. CASE StoreGone(b)
  <2>1. t = EmptyStore /\ q = EmptyMap /\ z = 0
    BY <1>7 DEF StoreGone
  <2> QED
    BY <2>1, EmptyHistory
<1> QED
  BY <1>4, <1>5, <1>6, <1>7 DEF StoreStep

\* The contents of drafts and gray snapshots: an empty draft, a selection of a
\* content and an edited draft are contents.
DraftOK(draft) ==
    /\ draft.values \in Content
    /\ {GroupOf[i] : i \in DOMAIN draft.values} \subseteq draft.groups

LEMMA EmptyDraftOK == DraftOK(EmptyDraft)
<1>1. EmptyDraft.values = EmptyMap /\ EmptyDraft.groups = {}
  BY DEF EmptyDraft
<1>2. EmptyMap \in Content /\ DOMAIN EmptyMap = {}
  BY EmptyMapType DEF Content
<1> QED
  BY <1>1, <1>2 DEF DraftOK

\* The draft of a copied branch has the items of its source and their groups.
LEMMA CopiedDraftOK ==
    ASSUME NEW content \in Content
    PROVE  DraftOK(CopiedDraft(content))
<1> DEFINE values == Without(content, SharedDefs(structure.defs))
<1>1. values \in Content
  BY WithoutType DEF Content
<1>2. CopiedDraft(content) = [values |-> values, groups |-> {GroupOf[i] : i \in DOMAIN values}]
  BY DEF CopiedDraft
<1> HIDE DEF values
<1>3. CopiedDraft(content).values = values
      /\ CopiedDraft(content).groups = {GroupOf[i] : i \in DOMAIN values}
  BY <1>2
<1> QED
  BY <1>1, <1>3 DEF DraftOK

\* An edit adds the groups of the values it sets and keeps those it deletes.
LEMMA EditedDraftOK ==
    ASSUME NEW draft, DraftOK(draft), NEW edit \in DraftInputs
    PROVE  DraftOK(EditedDraft(draft, edit))
<1> DEFINE rest == Without(draft.values, edit.deletes)
           values == Overlay(rest, edit.updates)
           added == {GroupOf[i] : i \in DOMAIN edit.updates}
<1>1. rest \in Content /\ edit.updates \in Content
  BY WithoutType, ConfigAssumption DEF Content, DraftOK
<1>2. DOMAIN rest = DOMAIN draft.values \ edit.deletes
  BY WithoutDomain
<1>3. EditedDraft(draft, edit) = [values |-> values, groups |-> draft.groups \cup added]
  BY DEF EditedDraft
<1> HIDE DEF rest
<1>4. values \in Content
  BY <1>1, OverlayType DEF Content
<1>5. DOMAIN values = DOMAIN rest \cup DOMAIN edit.updates
  BY OverlayDomain
<1> HIDE DEF values
<1>6. EditedDraft(draft, edit).values = values
      /\ EditedDraft(draft, edit).groups = draft.groups \cup added
  BY <1>3
<1>7. ASSUME NEW i \in DOMAIN values PROVE GroupOf[i] \in draft.groups \cup added
  BY <1>2, <1>5, <1>7 DEF DraftOK
<1> HIDE DEF added
<1> QED
  BY <1>4, <1>6, <1>7 DEF DraftOK

\* A structure publication keeps the groups of the values it keeps.
LEMMA RestructuredDraftOK ==
    ASSUME NEW draft, DraftOK(draft), NEW defs
    PROVE  DraftOK(RestructuredDraft(draft, defs))
<1> DEFINE known == DOMAIN draft.values \cap DOMAIN defs
           rest == known \ SharedDefs(defs)
           values == [i \in rest |-> draft.values[i]]
           groups == {GroupOf[i] : i \in known}
<1>1. RestructuredDraft(draft, defs) = [values |-> values, groups |-> groups]
  BY DEF RestructuredDraft
<1>2. rest \in SUBSET DOMAIN draft.values
  OBVIOUS
<1>3. \A i \in rest : GroupOf[i] \in groups
  OBVIOUS
<1> HIDE DEF rest, groups
<1>4. values \in Content
  BY <1>2, PartType DEF DraftOK, Content
<1>5. DOMAIN values = rest
  OBVIOUS
<1> HIDE DEF values
<1>6. RestructuredDraft(draft, defs).values = values
      /\ RestructuredDraft(draft, defs).groups = groups
  BY <1>1
<1> QED
  BY <1>3, <1>4, <1>5, <1>6 DEF DraftOK

\* Every command leaves a draft of contents.
LEMMA DraftsStep ==
    ASSUME HistoryInv, [Next]_vars, NEW c \in Branch
    PROVE  DraftOK(drafts'[c])
<1>1. DraftOK(drafts[c]) /\ drafts = [b \in Branch |-> drafts[b]]
  BY DEF HistoryInv, BranchContents, DraftOK, StateInv, ByBranch
<1>2. ASSUME UNCHANGED drafts PROVE DraftOK(drafts'[c])
  BY <1>1, <1>2
<1>3. ASSUME NEW b \in Branch, NEW draft, drafts' = [drafts EXCEPT ![b] = draft], DraftOK(draft)
      PROVE  DraftOK(drafts'[c])
  <2>1. drafts'[c] = IF c = b THEN draft ELSE drafts[c]
    BY <1>1, <1>3
  <2> QED
    BY <1>1, <1>3, <2>1
<1>4. CASE StructureNext
  <2>1. ASSUME NEW defs, StructureDraftSet(structure.version, defs) PROVE DraftOK(drafts'[c])
    BY <1>2, <2>1 DEF StructureDraftSet
  <2>2. CASE PublishStructure
    <3>1. drafts'[c] = IF c \in Live THEN RestructuredDraft(drafts[c], structDraft.defs)
                       ELSE drafts[c]
      BY <2>2 DEF PublishStructure
    <3> QED
      BY <1>1, <3>1, RestructuredDraftOK
  <2> QED
    BY <1>4, <2>1, <2>2 DEF StructureNext
<1>5. ASSUME NEW b \in Branch, BranchNext(b)
      PROVE  DraftOK(drafts'[c])
  <2>1. ASSUME NEW src \in Branch \cup {None}, BranchCreate(b, src) PROVE DraftOK(drafts'[c])
    <3> DEFINE draft == IF src = None THEN EmptyDraft ELSE CopiedDraft(ActiveContent(src))
    <3>1. drafts' = [drafts EXCEPT ![b] = draft]
      BY <2>1 DEF BranchCreate
    <3>2. src # None => ActiveContent(src) \in Content
      BY <2>1, ActiveRead DEF BranchCreate
    <3>3. DraftOK(draft)
      BY <3>2, EmptyDraftOK, CopiedDraftOK
    <3> HIDE DEF draft
    <3> QED
      BY <1>3, <3>1, <3>3
  <2>2. CASE BranchDelete(b)
    <3>1. drafts'[c] = EmptyDraft \/ drafts'[c] = drafts[c]
      BY <2>2 DEF BranchDelete, StoresWithout, DeletedWith
    <3> QED
      BY <1>1, <3>1, EmptyDraftOK
  <2>3. ASSUME NEW edit \in DraftInputs, NEW expected, DraftUpdate(b, edit, expected)
        PROVE  DraftOK(drafts'[c])
    <3>1. drafts' = [drafts EXCEPT ![b] = EditedDraft(drafts[b], edit)]
      BY <2>3 DEF DraftUpdate
    <3>2. DraftOK(drafts[b])
      BY DEF HistoryInv, BranchContents, DraftOK
    <3> QED
      BY <1>3, <3>1, <3>2, EditedDraftOK
  <2>4. ASSUME NEW rid, NEW policy, Publish(b, rid, policy) PROVE DraftOK(drafts'[c])
    BY <1>3, <2>4, EmptyDraftOK DEF Publish
  <2>5. ASSUME NEW to, NEW rid, Rollback(b, to, rid) PROVE DraftOK(drafts'[c])
    BY <1>2, <2>5 DEF Rollback
  <2>6. ASSUME NEW rule, NEW rid, NEW policy, GrayPublish(b, rule, rid, policy)
        PROVE  DraftOK(drafts'[c])
    BY <1>3, <2>6, EmptyDraftOK DEF GrayPublish
  <2>7. ASSUME NEW rid, GrayPromote(b, rid) PROVE DraftOK(drafts'[c])
    BY <1>2, <2>7 DEF GrayPromote
  <2>8. ASSUME NEW rid, GrayAbort(b, rid) PROVE DraftOK(drafts'[c])
    BY <1>2, <2>8 DEF GrayAbort
  <2>9. CASE Prune(b)
    BY <1>2, <2>9 DEF Prune
  <2> QED
    BY <1>5, <2>1, <2>2, <2>3, <2>4, <2>5, <2>6, <2>7, <2>8, <2>9 DEF BranchNext
<1>6. CASE SharedNext
  BY <1>2, <1>6 DEF SharedNext, SharedDraftUpdate, SharedPublish, SharedPublishAborted, SharedDelete
<1>7. CASE UNCHANGED vars
  BY <1>2, <1>7 DEF vars
<1> QED
  BY <1>4, <1>5, <1>6, <1>7 DEF Next

\* Gray snapshots are contents.
GrayOK(snaps) == \A n \in DOMAIN snaps : snaps[n] \in Content

\* A removal, a snapshot that is added and one that moves leave contents.
LEMMA GrayMapsOK ==
    ASSUME NEW snaps, GrayOK(snaps)
    PROVE  /\ \A gone : GrayOK(Without(snaps, gone))
           /\ \A n, snap : snap \in Content => GrayOK(Overlay(snaps, [m \in {n} |-> snap]))
BY DEF GrayOK, Without, Overlay

\* Every command leaves gray snapshots that are contents.
LEMMA GraySnapsStep ==
    ASSUME HistoryInv, [Next]_vars, NEW c \in Branch
    PROVE  GrayOK(graySnaps'[c])
<1>1. GrayOK(graySnaps[c]) /\ graySnaps = [b \in Branch |-> graySnaps[b]]
  BY DEF HistoryInv, BranchContents, GrayOK, StateInv, ByBranch
<1>2. ASSUME UNCHANGED graySnaps PROVE GrayOK(graySnaps'[c])
  BY <1>1, <1>2
<1>3. ASSUME NEW b \in Branch, NEW snaps, graySnaps' = [graySnaps EXCEPT ![b] = snaps],
             GrayOK(snaps)
      PROVE  GrayOK(graySnaps'[c])
  <2>1. graySnaps'[c] = IF c = b THEN snaps ELSE graySnaps[c]
    BY <1>1, <1>3
  <2> QED
    BY <1>1, <1>3, <2>1
<1>4. \A b \in Branch : GrayOK(graySnaps[b])
  BY DEF HistoryInv, BranchContents, GrayOK
<1>5. CASE StructureNext
  <2>1. ASSUME NEW defs, StructureDraftSet(structure.version, defs) PROVE GrayOK(graySnaps'[c])
    BY <1>2, <2>1 DEF StructureDraftSet
  <2>2. CASE PublishStructure
    <3>1. CASE c \in Live /\ branches[c].gray_seq # 0
      <4> DEFINE seq == branches[c].gray_seq
                 moved == graySnaps[c][seq]
                 next == next_monotonic(branches[c].active_version, seq) + 1
      <4>1. graySnaps'[c] = Overlay(Without(graySnaps[c], {seq}), [n \in {next} |-> moved])
        BY <2>2, <3>1 DEF PublishStructure, GrayBumped
      <4>2. seq > 0
        BY <3>1, LiveBranch DEF BranchState
      <4>3. seq \in DOMAIN graySnaps[c]
        BY <2>2, <3>1, <4>2 DEF PublishStructure
      <4>4. moved \in Content
        BY <1>1, <4>3 DEF GrayOK
      <4> DEFINE rest == Without(graySnaps[c], {seq})
      <4> HIDE DEF moved, next, seq
      <4>5. GrayOK(rest)
        BY <1>1, GrayMapsOK
      <4> HIDE DEF rest
      <4>6. GrayOK(Overlay(rest, [n \in {next} |-> moved]))
        BY <4>4, <4>5, GrayMapsOK
      <4> QED
        BY <4>1, <4>6 DEF rest
    <3>2. CASE ~(c \in Live /\ branches[c].gray_seq # 0)
      <4>1. graySnaps'[c] = graySnaps[c]
        BY <2>2, <3>2 DEF PublishStructure, GrayBumped
      <4> QED
        BY <1>1, <4>1
    <3> QED
      BY <3>1, <3>2
  <2> QED
    BY <1>5, <2>1, <2>2 DEF StructureNext
<1>6. ASSUME NEW b \in Branch, BranchNext(b)
      PROVE  GrayOK(graySnaps'[c])
  <2>1. ASSUME NEW src, BranchCreate(b, src) PROVE GrayOK(graySnaps'[c])
    BY <1>2, <2>1 DEF BranchCreate
  <2>2. CASE BranchDelete(b)
    <3>1. graySnaps'[c] = EmptyMap \/ graySnaps'[c] = graySnaps[c]
      BY <2>2 DEF BranchDelete, StoresWithout, DeletedWith
    <3>2. DOMAIN EmptyMap = {}
      BY DEF EmptyMap
    <3> QED
      BY <1>1, <3>1, <3>2 DEF GrayOK
  <2>3. ASSUME NEW edit, NEW expected, DraftUpdate(b, edit, expected) PROVE GrayOK(graySnaps'[c])
    BY <1>2, <2>3 DEF DraftUpdate
  <2>4. ASSUME NEW rid, NEW policy, Publish(b, rid, policy) PROVE GrayOK(graySnaps'[c])
    BY <1>2, <2>4 DEF Publish
  <2>5. ASSUME NEW to, NEW rid, Rollback(b, to, rid) PROVE GrayOK(graySnaps'[c])
    BY <1>2, <2>5 DEF Rollback
  <2>6. ASSUME NEW rule, NEW rid, NEW policy, GrayPublish(b, rule, rid, policy)
        PROVE  GrayOK(graySnaps'[c])
    <3> DEFINE seq == branches[b].gray_seq + 1
               snap == materialize_resolved(b, ActiveContent(b))
               gone == IF seq > 1 THEN {seq - 1} ELSE {}
    <3>1. graySnaps' = [graySnaps EXCEPT ![b] =
              Without(Overlay(graySnaps[b], [n \in {seq} |-> snap]), gone)]
      BY <2>6 DEF GrayPublish
    <3>2. snap \in Content
      BY <2>6, ActiveRead, MaterializedType DEF GrayPublish, Publishable
    <3> HIDE DEF snap, seq, gone
    <3>3. GrayOK(Overlay(graySnaps[b], [n \in {seq} |-> snap]))
      BY <1>4, <3>2, GrayMapsOK
    <3>4. GrayOK(Without(Overlay(graySnaps[b], [n \in {seq} |-> snap]), gone))
      BY <3>3, GrayMapsOK
    <3> QED
      BY <1>3, <3>1, <3>4
  <2>7. ASSUME NEW rid, GrayPromote(b, rid) PROVE GrayOK(graySnaps'[c])
    BY <1>3, <1>4, <2>7, GrayMapsOK DEF GrayPromote
  <2>8. ASSUME NEW rid, GrayAbort(b, rid) PROVE GrayOK(graySnaps'[c])
    BY <1>3, <1>4, <2>8, GrayMapsOK DEF GrayAbort
  <2>9. CASE Prune(b)
    BY <1>2, <2>9 DEF Prune
  <2> QED
    BY <1>6, <2>1, <2>2, <2>3, <2>4, <2>5, <2>6, <2>7, <2>8, <2>9 DEF BranchNext
<1>7. CASE SharedNext
  BY <1>2, <1>7 DEF SharedNext, SharedDraftUpdate, SharedPublish, SharedPublishAborted, SharedDelete
<1>8. CASE UNCHANGED vars
  BY <1>2, <1>8 DEF vars
<1> QED
  BY <1>5, <1>6, <1>7, <1>8 DEF Next

\* Stores and histories stay functions on the branches.
LEMMA StoresByBranchStep ==
    ASSUME HistoryInv, [Next]_vars
    PROVE  /\ store' = [b \in Branch |-> store'[b]]
           /\ published' = [b \in Branch |-> published'[b]]
<1> DEFINE Shape == /\ store' = [b \in Branch |-> store'[b]]
                    /\ published' = [b \in Branch |-> published'[b]]
<1>1. ASSUME UNCHANGED <<store, published>> PROVE Shape
  BY <1>1 DEF HistoryInv
<1>2. ASSUME NEW b, NEW s, NEW p, store' = [store EXCEPT ![b] = s],
             published' = [published EXCEPT ![b] = p]
      PROVE  Shape
  BY <1>2 DEF HistoryInv
<1>3. CASE StructureNext
  BY <1>1, <1>3 DEF StructureNext, StructureDraftSet, PublishStructure
<1>4. ASSUME NEW b \in Branch, BranchNext(b) PROVE Shape
  <2>1. ASSUME NEW v, NEW content, NEW rb, WriteVersion(b, v, content, rb) PROVE Shape
    BY <1>2, <2>1 DEF WriteVersion
  <2>2. CASE BranchDelete(b)
    BY <2>2 DEF BranchDelete, StoresWithout, DeletedWith
  <2>3. CASE Prune(b)
    BY <1>2, <2>3 DEF Prune
  <2> HIDE DEF Shape
  <2> QED
    BY <1>1, <1>4, <2>1, <2>2, <2>3
       DEF BranchNext, BranchCreate, DraftUpdate, Publish, Rollback, GrayPublish,
           GrayPromote, GrayAbort
<1>5. CASE SharedNext
  BY <1>1, <1>5 DEF SharedNext, SharedDraftUpdate, SharedPublish, SharedPublishAborted, SharedDelete
<1>6. CASE UNCHANGED vars
  BY <1>1, <1>6 DEF vars
<1> QED
  BY <1>3, <1>4, <1>5, <1>6 DEF Next

\* The invariant of the version history holds after ProjectCreate.
LEMMA HistoryInvInit ==
    ASSUME Init
    PROVE  HistoryInv
<1>1. StateInv
  BY StateInvInit
<1>2. store = [b \in Branch |-> store[b]] /\ published = [b \in Branch |-> published[b]]
  BY DEF Init
<1>3. ASSUME NEW b \in Branch
      PROVE  /\ drafts[b] = EmptyDraft /\ store[b] = EmptyStore
             /\ graySnaps[b] = EmptyMap /\ published[b] = EmptyMap
             /\ Active(b) = 0
  BY DEF Init, Active, NewBranchState
<1>4. DOMAIN EmptyMap = {}
  BY DEF EmptyMap
<1>5. ASSUME NEW b \in Branch PROVE BranchContents(b)
  BY <1>3, <1>4, EmptyDraftOK DEF BranchContents, DraftOK
<1>6. ASSUME NEW b \in Branch PROVE BranchHistory(b)
  BY <1>3, EmptyHistory DEF BranchHistory
<1> QED
  BY <1>1, <1>2, <1>5, <1>6 DEF HistoryInv

\* Every command keeps it.
LEMMA HistoryInvStep ==
    ASSUME HistoryInv, [Next]_vars
    PROVE  HistoryInv'
<1>1. StateInv'
  BY TypeStep, ByBranchStep, StateInvStep DEF HistoryInv, StateInv
<1>2. ASSUME NEW b \in Branch PROVE BranchContents(b)'
  BY DraftsStep, GraySnapsStep DEF BranchContents, DraftOK, GrayOK
<1>3. ASSUME NEW b \in Branch PROVE BranchHistory(b)'
  BY EveryStoreStep, HistoryStep
<1> QED
  BY <1>1, <1>2, <1>3, StoresByBranchStep DEF HistoryInv

\* The invariant of the version history holds in every reachable state.
THEOREM HistoryInvariant == Spec => []HistoryInv
<1>1. Init => HistoryInv
  BY HistoryInvInit
<1>2. HistoryInv /\ [Next]_vars => HistoryInv'
  BY HistoryInvStep
<1> QED
  BY <1>1, <1>2, PTL DEF Spec

\* What the invariant says of one branch.
LEMMA HistoryOf ==
    ASSUME HistoryInv, NEW b \in Branch
    PROVE  /\ Active(b) \in Nat
           /\ StoreHolds(store[b], published[b], Active(b))
           /\ RollbacksHold(store[b], published[b])
           /\ DOMAIN store[b].recs \subseteq 1..MaxVersion
BY ActiveType DEF HistoryInv, BranchHistory

\* The state is of its type, the version store and its contents included.
THEOREM FullTypeCorrect == Spec => []TypeOK
<1>1. ASSUME HistoryInv PROVE TypeOK
  <2>1. StateTypeOK
    BY <1>1 DEF HistoryInv, StateInv
  <2>2. ASSUME NEW b \in Branch
        PROVE  /\ drafts[b].values \in Content
               /\ {GroupOf[i] : i \in DOMAIN drafts[b].values} \subseteq drafts[b].groups
               /\ DOMAIN store[b].recs \subseteq 1..MaxVersion
               /\ DOMAIN published[b] = DOMAIN store[b].recs
               /\ \A v \in DOMAIN published[b] : published[b][v] \in Content
               /\ \A v \in DOMAIN store[b].recs :
                     (v \in DOMAIN store[b].snaps) # (v \in DOMAIN store[b].diffs)
               /\ \A n \in DOMAIN graySnaps[b] : graySnaps[b][n] \in Content
    <3>1. BranchContents(b)
      BY <1>1 DEF HistoryInv
    <3>2. /\ DOMAIN published[b] = DOMAIN store[b].recs
          /\ \A v \in DOMAIN published[b] : published[b][v] \in Content
          /\ DOMAIN store[b].snaps = {v \in DOMAIN store[b].recs : IsCheckpoint(v)}
          /\ DOMAIN store[b].diffs = {v \in DOMAIN store[b].recs : ~IsCheckpoint(v)}
          /\ DOMAIN store[b].recs \subseteq 1..MaxVersion
      BY <1>1, HistoryOf DEF StoreHolds
    <3>3. \A v \in DOMAIN store[b].recs :
             (v \in DOMAIN store[b].snaps) # (v \in DOMAIN store[b].diffs)
      BY <3>2
    <3> QED
      BY <3>1, <3>2, <3>3 DEF BranchContents
  <2> QED
    BY <2>1, <2>2 DEF TypeOK, ContentTypeOK
<1>2. HistoryInv => TypeOK
  BY <1>1
<1> QED
  BY <1>2, HistoryInvariant, PTL

\* I6, whatever numbers gray releases skip: a version that can be read is read
\* with the content it was given when it was written.
THEOREM HistoryIsFaithful == Spec => []HistoryFaithful
<1>1. ASSUME HistoryInv PROVE HistoryFaithful
  <2>1. ASSUME NEW b \in Live, NEW v \in DOMAIN store[b].recs
        PROVE  snapshot_of(store[b], v) \in {published[b][v], NotFound}
    <3>1. Active(b) \in Nat /\ StoreHolds(store[b], published[b], Active(b))
      BY <1>1, HistoryOf DEF Live
    <3>2. v \in Nat \ {0}
      BY <3>1 DEF StoreHolds
    <3> QED
      BY <3>1, <3>2, RebuiltContent
  <2> QED
    BY <2>1 DEF HistoryFaithful
<1>2. HistoryInv => HistoryFaithful
  BY <1>1
<1> QED
  BY <1>2, HistoryInvariant, PTL

\* Nothing outlives a branch, however the names of branches continue each other
\* and whatever was deleted and made again.
THEOREM DeletionIsWhole == Spec => []DeletedLeavesNothing
<1>1. ASSUME HistoryInv PROVE DeletedLeavesNothing
  <2>1. ASSUME NEW b \in Branch, b \notin Live
        PROVE  DOMAIN graySnaps[b] = {}
    <3>1. GrayNumber(b) = 0
      BY <2>1 DEF GrayNumber, Live
    <3>2. DOMAIN graySnaps[b] = IF GrayNumber(b) > 0 THEN {GrayNumber(b)} ELSE {}
      BY <1>1 DEF HistoryInv, StateInv, References, GrayServable
    <3> QED
      BY <3>1, <3>2
  <2>2. ASSUME NEW b \in Branch, b \notin Live \/ branches[b].active_version = 0
        PROVE  /\ DOMAIN store[b].recs = {}
               /\ DOMAIN store[b].snaps = {}
               /\ DOMAIN store[b].diffs = {}
    <3>1. Active(b) = 0
      BY <2>2 DEF Active, Live
    <3>2. StoreHolds(store[b], published[b], 0)
      BY <1>1, <3>1, HistoryOf
    <3>3. DOMAIN store[b].recs = {}
      BY <3>2 DEF StoreHolds
    <3> QED
      BY <3>2, <3>3 DEF StoreHolds
  <2> QED
    BY <2>1, <2>2 DEF DeletedLeavesNothing
<1>2. HistoryInv => DeletedLeavesNothing
  BY <1>1
<1> QED
  BY <1>2, HistoryInvariant, PTL

\* I9: a version made by a rollback reads as the version it names, for as long
\* as both are kept, also when their chains have gaps elsewhere.
THEOREM RollbacksRestore == Spec => []RollbackRestores
<1>1. ASSUME HistoryInv PROVE RollbackRestores
  <2>1. ASSUME NEW b \in Live, NEW v \in DOMAIN store[b].recs,
               store[b].recs[v] \in DOMAIN store[b].recs
        PROVE  snapshot_of(store[b], v) = snapshot_of(store[b], store[b].recs[v])
    <3> DEFINE to == store[b].recs[v]
    <3>1. /\ Active(b) \in Nat /\ StoreHolds(store[b], published[b], Active(b))
          /\ RollbacksHold(store[b], published[b])
      BY <1>1, HistoryOf DEF Live
    <3>2. v \in Nat \ {0} /\ to \in Nat \ {0}
      BY <2>1, <3>1 DEF StoreHolds
    <3>3. /\ Complete(store[b], v) /\ Complete(store[b], to)
          /\ published[b][v] = published[b][to]
      BY <2>1, <3>1 DEF RollbacksHold
    <3> HIDE DEF to
    <3>4. snapshot_of(store[b], v) = published[b][v]
      BY <3>1, <3>2, <3>3, RebuiltContent
    <3>5. snapshot_of(store[b], to) = published[b][to]
      BY <3>1, <3>2, <3>3, RebuiltContent
    <3> QED
      BY <3>3, <3>4, <3>5 DEF to
  <2> QED
    BY <2>1 DEF RollbackRestores
<1>2. HistoryInv => RollbackRestores
  BY <1>1
<1> QED
  BY <1>2, HistoryInvariant, PTL

\* I6 as an action property: no command and no run of the retention job
\* changes what a version reads as, as long as the version is kept.
THEOREM VersionsAreImmutable == Spec => VersionImmutable
<1> DEFINE Same ==
      \A b \in Live :
          \A v \in DOMAIN store[b].recs \cap DOMAIN store'[b].recs :
              snapshot_of(store[b], v) # NotFound =>
                  snapshot_of(store'[b], v) = snapshot_of(store[b], v)
<1>1. ASSUME HistoryInv, [Next]_vars, HistoryInv' PROVE Same
  <2>1. ASSUME NEW b \in Live, NEW v \in DOMAIN store[b].recs \cap DOMAIN store'[b].recs,
               snapshot_of(store[b], v) # NotFound
        PROVE  snapshot_of(store'[b], v) = snapshot_of(store[b], v)
    <3>1. b \in Branch /\ Active(b) \in Nat /\ StoreHolds(store[b], published[b], Active(b))
      BY <1>1, HistoryOf DEF Live
    <3>2. Active(b)' \in Nat
      BY <1>1, <3>1 DEF HistoryInv, StateInv, StateTypeOK, Active, BranchState
    <3>3. StoreHolds(store'[b], published'[b], Active(b)')
      BY <1>1, <3>1 DEF HistoryInv, BranchHistory
    <3>4. v \in Nat \ {0}
      BY <3>1 DEF StoreHolds
    <3>5. Complete(store[b], v) /\ snapshot_of(store[b], v) = published[b][v]
      BY <2>1, <3>1, <3>4, RebuiltContent
    <3>6. CarriedOver(b)
      BY <1>1, <3>1, EveryStoreStep, HistoryStep
    <3>7. Complete(store'[b], v) /\ published'[b][v] = published[b][v]
      BY <3>5, <3>6 DEF CarriedOver
    <3>8. snapshot_of(store'[b], v) = published'[b][v]
      BY <3>2, <3>3, <3>4, <3>7, RebuiltContent
    <3> QED
      BY <3>5, <3>7, <3>8
  <2> QED
    BY <2>1
<1>2. HistoryInv /\ HistoryInv' /\ [Next]_vars => [Same]_vars
  BY <1>1
<1> QED
  BY <1>2, HistoryInvariant, PTL DEF Spec, VersionImmutable

\* The versions that a command writes right after a readable active one can be
\* read, with the contents it gives them.
LEMMA WrittenReads ==
    ASSUME NEW s, NEW p, NEW a \in Nat, StoreHolds(s, p, a), a = 0 \/ Complete(s, a),
           NEW hi \in Nat, a < hi, NEW contents \in [(a + 1)..hi -> Content],
           NEW old \in Content, a > 0 => old = p[a], NEW rb
    PROVE  snapshot_of(write_versions(s, old, contents, rb), hi) = contents[hi]
<1> DEFINE t == write_versions(s, old, contents, rb)
           q == Overlay(p, contents)
<1>1. /\ StoreHolds(t, q, hi)
      /\ DOMAIN t.recs = DOMAIN s.recs \cup (a + 1)..hi
  BY WrittenStore
<1>2. hi \in (a + 1)..hi /\ hi \in Nat \ {0}
  OBVIOUS
<1>3. DOMAIN contents = (a + 1)..hi
  OBVIOUS
<1>4. q[hi] = contents[hi]
  BY <1>2, <1>3 DEF Overlay
<1> HIDE DEF t, q
<1>5. Complete(t, hi)
  BY <1>1, <1>2, WrittenComplete
<1>6. snapshot_of(t, hi) = q[hi]
  BY <1>1, <1>2, <1>5, RebuiltContent
<1> QED
  BY <1>4, <1>6 DEF t

\* What is known of a published secret.
LEMMA SecretPublished ==
    ASSUME HistoryInv, NEW b \in Live, NEW i \in PublishedSecrets(b)
    PROVE  /\ b \in Branch
           /\ ActiveContent(b) # NotFound /\ ActiveContent(b) \in Content
           /\ i \in DOMAIN ActiveContent(b)
           /\ i \in DOMAIN structure.defs
           /\ structure.defs[i].ty = "secret" /\ ~structure.defs[i].shared
           /\ Active(b) > 0 /\ Active(b) \in Nat
           /\ Complete(store[b], Active(b))
           /\ ActiveContent(b) = published[b][Active(b)]
<1>1. /\ ActiveContent(b) # NotFound
      /\ i \in DOMAIN ActiveContent(b) /\ i \in DOMAIN structure.defs
      /\ structure.defs[i].ty = "secret" /\ ~structure.defs[i].shared
  BY DEF PublishedSecrets
<1>2. /\ ActiveContent(b) \in Content
      /\ Active(b) = 0 \/ Complete(store[b], Active(b))
      /\ Active(b) > 0 => ActiveContent(b) = published[b][Active(b)]
      /\ Active(b) = 0 => ActiveContent(b) = EmptyMap
  BY <1>1, ActiveRead
<1>3. b \in Branch /\ Active(b) \in Nat
  BY LiveBranch
<1>4. Active(b) # 0
  BY <1>1, <1>2 DEF EmptyMap
<1> QED
  BY <1>1, <1>2, <1>3, <1>4

\* The content made of a draft has the ciphertext that is owed to each secret.
LEMMA MaterializedSecret ==
    ASSUME HistoryInv, NEW b \in Live, NEW i \in PublishedSecrets(b)
    PROVE  CipherIn(materialize_resolved(b, ActiveContent(b)), i) = OwedCipher(b, i)
<1> DEFINE old == ActiveContent(b)
           content == materialize_resolved(b, old)
           carried == {j \in DOMAIN structure.defs :
                          /\ ~structure.defs[j].shared
                          /\ structure.defs[j].ty = "secret"
                          /\ j \notin DOMAIN drafts[b].values
                          /\ j \in DOMAIN old}
           kept == [j \in carried |-> old[j]]
           resolved == [j \in SharedDefs(structure.defs) \ Unresolved(b) |->
                           shared[branches[b].shared_bindings[j]].value]
<1>1. /\ i \in DOMAIN old /\ i \in DOMAIN structure.defs /\ old \in Content
      /\ structure.defs[i].ty = "secret" /\ ~structure.defs[i].shared
  BY SecretPublished
<1>2. content \in Content /\ content # NotFound
  BY <1>1, MaterializedType, ConfigAssumption
<1>3. DraftWithSecrets(b, old) = Overlay(drafts[b].values, kept)
  BY DEF DraftWithSecrets
<1>4. content = Overlay(DraftWithSecrets(b, old), resolved)
  BY DEF materialize_resolved
<1>5. DOMAIN kept = carried /\ \A j \in carried : kept[j] = old[j]
  OBVIOUS
<1>6. i \notin DOMAIN resolved
  BY <1>1 DEF SharedDefs
<1>7. i \in DOMAIN drafts[b].values <=> i \notin carried
  BY <1>1
<1> HIDE DEF kept, carried, resolved
<1>8. /\ i \in DOMAIN DraftWithSecrets(b, old)
      /\ DraftWithSecrets(b, old)[i] =
            IF i \in DOMAIN drafts[b].values THEN drafts[b].values[i] ELSE old[i]
  BY <1>3, <1>5, <1>7 DEF Overlay
<1>9. i \in DOMAIN content /\ content[i] = DraftWithSecrets(b, old)[i]
  BY <1>4, <1>6, <1>8 DEF Overlay
<1> HIDE DEF content
<1> QED
  BY <1>2, <1>8, <1>9 DEF CipherIn, OwedCipher, content

\* The commands that change the active version of a branch.
LEMMA ActiveMoves ==
    ASSUME HistoryInv, [Next]_vars, NEW b \in Live, branches'[b] # None,
           ~Publishes(b), ~RestoresOlder(b)
    PROVE  \/ Active(b)' = Active(b)
           \/ PublishStructure
           \/ \E mode \in CascadeModes : SharedPublish(mode)
<1>0. StateTypeOK /\ StateInv
  BY DEF HistoryInv, StateInv
<1>1. ASSUME branches'[b] = branches[b] PROVE Active(b)' = Active(b)
  BY <1>1 DEF Active
<1>2. ASSUME NEW c \in Branch, OneBranch(c),
             c # b \/ branches'[c].active_version = branches[c].active_version
      PROVE  Active(b)' = Active(b)
  <2>1. b \in Branch
    BY DEF Live
  <2>2. CASE c # b
    BY <1>1, <1>2, <2>1, <2>2 DEF OneBranch
  <2>3. CASE c = b
    BY <1>2, <2>3 DEF Active, Live
  <2> QED
    BY <2>2, <2>3
<1>3. CASE StructureNext
  BY <1>1, <1>3 DEF StructureNext, StructureDraftSet
<1>4. ASSUME NEW c \in Branch, BranchNext(c)
      PROVE  Active(b)' = Active(b)
  <2>1. ASSUME NEW src, BranchCreate(c, src)
        PROVE  Active(b)' = Active(b)
    <3>1. c # b /\ b \in Branch
      BY <2>1 DEF BranchCreate, Live
    <3> QED
      BY <1>0, <1>1, <2>1, <3>1 DEF BranchCreate, StateTypeOK
  <2>2. ASSUME BranchDelete(c)
        PROVE  Active(b)' = Active(b)
    <3>1. branches'[b] = branches[b]
      BY <2>2 DEF BranchDelete, Live
    <3> QED
      BY <1>1, <3>1
  <2>3. ASSUME NEW edit \in DraftInputs, NEW expected, DraftUpdate(c, edit, expected)
        PROVE  Active(b)' = Active(b)
    BY <1>0, <1>2, <2>3, DraftUpdateBranch
  <2>4. ASSUME NEW rid \in RequestId, NEW policy \in Policies, Publish(c, rid, policy)
        PROVE  Active(b)' = Active(b)
    <3>1. c # b
      BY <2>4 DEF Publishes
    <3> QED
      BY <1>0, <1>2, <2>4, <3>1, PublishBranch
  <2>5. ASSUME NEW rid \in RequestId, NEW to \in 1..MaxVersion, Rollback(c, to, rid)
        PROVE  Active(b)' = Active(b)
    <3>1. c # b
      BY <2>5 DEF RestoresOlder
    <3> QED
      BY <1>0, <1>2, <2>5, <3>1, RollbackBranch
  <2>6. ASSUME NEW rid \in RequestId, NEW policy \in Policies, NEW rule \in GrayRule,
               GrayPublish(c, rule, rid, policy)
        PROVE  Active(b)' = Active(b)
    BY <1>0, <1>2, <2>6, GrayPublishBranch
  <2>7. ASSUME NEW rid \in RequestId, GrayPromote(c, rid)
        PROVE  Active(b)' = Active(b)
    <3>1. c # b
      BY <2>7 DEF RestoresOlder
    <3> QED
      BY <1>0, <1>2, <2>7, <3>1, GrayPromoteBranch
  <2>8. ASSUME NEW rid \in RequestId, GrayAbort(c, rid)
        PROVE  Active(b)' = Active(b)
    BY <1>0, <1>2, <2>8, GrayAbortBranch
  <2>9. CASE Prune(c)
    BY <1>1, <2>9 DEF Prune
  <2> QED
    BY <1>4, <2>1, <2>2, <2>3, <2>4, <2>5, <2>6, <2>7, <2>8, <2>9 DEF BranchNext
<1>5. CASE SharedNext
  BY <1>1, <1>5 DEF SharedNext, SharedDraftUpdate, SharedPublishAborted, SharedDelete
<1>6. CASE UNCHANGED vars
  BY <1>1, <1>6 DEF vars
<1> QED
  BY <1>3, <1>4, <1>5, <1>6 DEF Next

\* After a cascade a branch whose active content can be read has the new value
\* of every shared item at every item bound to it, and the other values it had.
LEMMA CascadeStep ==
    ASSUME HistoryInv, SharedPublish("auto"), NEW b \in Live, ActiveContent(b) # NotFound
    PROVE  snapshot_of(store'[b], branches'[b].active_version) =
              IF branches'[b].active_version = 0 THEN NotFound
              ELSE Overlay(ActiveContent(b),
                           [i \in Affected(b) |->
                               shared'[branches[b].shared_bindings[i]].value])
<1> DEFINE n == Cardinality(Affected(b))
           a == Active(b)
           old == ActiveContent(b)
           bound == branches[b].shared_bindings
           values == [i \in Affected(b) |-> shared'[bound[i]].value]
<1>1. /\ old \in Content
      /\ a = 0 \/ Complete(store[b], a)
      /\ a > 0 => old = published[b][a]
      /\ a \in Nat /\ a = branches[b].active_version
      /\ StoreHolds(store[b], published[b], a)
      /\ branches[b] \in BranchState /\ b \in Branch
  BY ActiveRead, LiveBranch DEF BranchHistory
<1>2. CASE Affected(b) = {}
  <2>1. store'[b] = store[b] /\ branches'[b] = branches[b]
    BY <1>1, <1>2 DEF SharedPublish
  <2>2. CASE a = 0
    BY <1>1, <2>1, <2>2 DEF snapshot_of
  <2>3. CASE a # 0
    <3>1. snapshot_of(store'[b], branches'[b].active_version) = old
      BY <1>1, <2>1, <2>3 DEF ActiveContent
    <3>2. old \in [DOMAIN old -> Value]
      BY <1>1, PartialFcnElim DEF Content
    <3>3. DOMAIN values = {}
      BY <1>2
    <3> HIDE DEF values, old, a
    <3>4. Overlay(old, values) = old
      BY <3>2, <3>3 DEF Overlay
    <3> QED
      BY <1>1, <2>1, <2>3, <3>1, <3>4 DEF values, old
  <2> QED
    BY <2>2, <2>3
<1>3. CASE Affected(b) # {}
  <2>1. store'[b] = write_versions(store[b], old, CascadeVersions(b), 0)
        /\ branches'[b] = [branches[b] EXCEPT !.active_version = @ + n]
        /\ shared' = Overlay(shared, sharedDraft)
    BY <1>1, <1>3 DEF SharedPublish
  <2>2. Affected(b) \subseteq Item /\ IsFiniteSet(Affected(b))
    <3>1. Affected(b) \subseteq Item
      BY <1>1, PartialFcnElim DEF Affected, BoundTo, BranchState
    <3> QED
      BY <3>1, ConfigAssumption, FS_Subset
  <2>3. n \in Nat /\ n # 0
    BY <1>3, <2>2, FS_EmptySet, FS_CardinalityType
  <2>4. ASSUME NEW i \in Affected(b)
        PROVE  CascadeRank(b, i) <= n /\ CascadeRank(b, i) \in Nat
    <3> DEFINE key(j) == branches[b].shared_bindings[j]
               upTo == {j \in Affected(b) : key(j) < key(i) \/ (key(j) = key(i) /\ j <= i)}
    <3>1. upTo \subseteq Affected(b)
      OBVIOUS
    <3>2. CascadeRank(b, i) = Cardinality(upTo)
      BY DEF CascadeRank
    <3> HIDE DEF upTo
    <3> QED
      BY <2>2, <3>1, <3>2, FS_Subset, FS_CardinalityType
  <2>5. {j \in Affected(b) : CascadeRank(b, j) <= n} = Affected(b)
    <3> HIDE DEF n
    <3> QED
      BY <2>4, Zenon
  <2>6. CascadeContent(b, n) = Overlay(old, [i \in Affected(b) |-> sharedDraft[bound[i]].value])
    <3> HIDE DEF n
    <3> QED
      BY <2>5 DEF CascadeContent
  <2>7. \A i \in Affected(b) : shared'[bound[i]] = sharedDraft[bound[i]]
    BY <2>1 DEF Affected, BoundTo, Overlay
  <2>8. CascadeContent(b, n) = Overlay(old, values)
    <3>1. [i \in Affected(b) |-> sharedDraft[bound[i]].value] = values
      BY <2>7
    <3> HIDE DEF values, n, old
    <3> QED
      BY <2>6, <3>1
  <2>9. branches'[b].active_version = a + n
    <3> HIDE DEF n
    <3> QED
      BY <1>1, <2>1, <2>3 DEF BranchState
  <2> DEFINE hi == a + n
             versions == CascadeVersions(b)
  <2>10. versions = [v \in (a + 1)..hi |-> CascadeContent(b, v - a)]
    BY <1>1 DEF CascadeVersions
  <2>11. versions \in [(a + 1)..hi -> Content]
    BY <2>10, CascadeType
  <2>12. hi \in Nat /\ a < hi /\ hi # 0 /\ hi - a = n /\ hi \in (a + 1)..hi
    <3> HIDE DEF n, a
    <3> QED
      BY <1>1, <2>3
  <2>13. versions[hi] = CascadeContent(b, n)
    BY <2>10, <2>12
  <2> HIDE DEF hi, versions, old, a, n
  <2>14. snapshot_of(write_versions(store[b], old, versions, 0), hi) = versions[hi]
    BY <1>1, <2>11, <2>12, WrittenReads, SMTT(30)
  <2> HIDE DEF values
  <2>15. snapshot_of(store'[b], branches'[b].active_version) = Overlay(old, values)
    BY <2>1, <2>8, <2>9, <2>13, <2>14 DEF hi, versions
  <2> QED
    BY <2>9, <2>12, <2>15 DEF hi, old, values
<1> QED
  BY <1>2, <1>3

-----------------------------------------------------------------------------
(* Without gray releases no version number is skipped *)

\* Every kept version has its whole chain.
WholeHistory ==
    \A b \in Branch : \A v \in DOMAIN store[b].recs : Complete(store[b], v)

\* No command but a publication of the draft or one that brings an older content
\* back changes the ciphertext that clients read.
LEMMA SecretKeptStep ==
    ASSUME HistoryInv, HistoryInv', [Next]_vars, NEW b \in Live, branches'[b] # None,
           NEW i \in PublishedSecrets(b), ~Publishes(b), ~RestoresOlder(b),
           snapshot_of(store'[b], branches'[b].active_version) # NotFound
    PROVE  CipherIn(snapshot_of(store'[b], branches'[b].active_version), i) =
              ActiveContent(b)[i]
<1> DEFINE old == ActiveContent(b)
           a == Active(b)
           now == snapshot_of(store'[b], branches'[b].active_version)
<1>1. /\ old # NotFound /\ i \in DOMAIN old /\ i \in DOMAIN structure.defs
      /\ ~structure.defs[i].shared
      /\ a > 0 /\ a \in Nat /\ old = published[b][a] /\ b \in Branch
  BY SecretPublished
<1>2. SUFFICES ASSUME TRUE PROVE i \in DOMAIN now /\ now[i] = old[i]
  BY DEF CipherIn
<1>3. Active(b)' = branches'[b].active_version
  BY DEF Active
<1>4. StoreHolds(store'[b], published'[b], Active(b)') /\ Active(b)' \in Nat
  <2>1. BranchHistory(b)'
    BY <1>1 DEF HistoryInv
  <2>2. Active(b)' \in Nat
    BY <1>1 DEF HistoryInv, StateInv, StateTypeOK, Active, BranchState
  <2> QED
    BY <2>1, <2>2 DEF BranchHistory
<1>5. CASE Active(b)' = a
  <2>1. a \in DOMAIN store[b].recs \cap DOMAIN store'[b].recs
    <3>1. StoreHolds(store[b], published[b], a)
      BY LiveBranch DEF BranchHistory
    <3> HIDE DEF a
    <3> QED
      BY <1>1, <1>4, <1>5, <3>1 DEF StoreHolds
  <2>2. CarriedOver(b)
    BY <1>1, EveryStoreStep, HistoryStep
  <2>3. published'[b][a] = old
    BY <1>1, <2>1, <2>2 DEF CarriedOver
  <2>4. now = IF Complete(store'[b], Active(b)') THEN published'[b][Active(b)'] ELSE NotFound
    BY <1>1, <1>3, <1>4, <1>5, RebuiltContent
  <2> QED
    BY <1>1, <1>5, <2>3, <2>4
<1>6. CASE PublishStructure
  <2> DEFINE v == next_monotonic(branches[b].active_version, branches[b].gray_seq)
             one == [n \in {v} |-> old]
  <2>1. branches'[b] = Restructured(branches[b], structDraft.defs)
        /\ published'[b] = Overlay(published[b], one)
    BY <1>1, <1>6 DEF PublishStructure
  <2>2. branches[b] \in BranchState
    BY LiveBranch
  <2>3. branches'[b].active_version = v
    BY <2>1, <2>2 DEF Restructured, BranchState
  <2>4. v \in Nat \ {0}
    <3>1. branches[b].active_version \in Nat /\ branches[b].gray_seq \in Nat
      BY <2>2 DEF BranchState
    <3>2. v \in Nat /\ v > branches[b].active_version
      BY <3>1, NextMonotonicType
    <3> HIDE DEF v
    <3> QED
      BY <3>1, <3>2
  <2> HIDE DEF v
  <2>5. one[v] = old /\ v \in DOMAIN one
    OBVIOUS
  <2> HIDE DEF one
  <2>6. published'[b][v] = old
    BY <2>1, <2>5 DEF Overlay
  <2>7. now = IF Complete(store'[b], v) THEN published'[b][v] ELSE NotFound
    BY <1>3, <1>4, <2>3, <2>4, RebuiltContent
  <2> QED
    BY <1>1, <2>6, <2>7
<1>7. ASSUME NEW mode, SharedPublish(mode)
      PROVE  i \in DOMAIN now /\ now[i] = old[i]
  <2>1. CASE mode = "auto"
    <3> DEFINE values == [j \in Affected(b) |->
                            shared'[branches[b].shared_bindings[j]].value]
    <3>1. now = IF branches'[b].active_version = 0 THEN NotFound ELSE Overlay(old, values)
      BY <1>1, <1>7, <2>1, CascadeStep
    <3>2. i \notin Affected(b)
      BY <1>1 DEF HistoryInv, StateInv, References, BindingsResolve, Affected, BoundTo, SharedDefs
    <3>3. DOMAIN values = Affected(b)
      OBVIOUS
    <3> HIDE DEF values
    <3>4. now = Overlay(old, values)
      BY <3>1
    <3> HIDE DEF now
    <3> QED
      BY <1>1, <3>2, <3>3, <3>4 DEF Overlay
  <2>2. CASE mode # "auto"
    <3>1. branches'[b] = branches[b]
      BY <1>1, <1>7, <2>2 DEF SharedPublish
    <3> QED
      BY <1>5, <3>1 DEF Active
  <2> QED
    BY <2>1, <2>2
<1> QED
  BY <1>5, <1>6, <1>7, ActiveMoves

\* A gray publication shows the gray clients the ciphertexts it owes.
LEMMA GraySecretStep ==
    ASSUME HistoryInv, NEW b \in Live, NEW i \in PublishedSecrets(b), PublishesGray(b)
    PROVE  CipherIn(graySnaps'[b][branches'[b].gray_seq], i) = OwedCipher(b, i)
<1>1. PICK rid \in RequestId, policy \in Policies, rule \in GrayRule :
          GrayPublish(b, rule, rid, policy)
  BY DEF PublishesGray
<1> DEFINE seq == branches[b].gray_seq + 1
           snap == materialize_resolved(b, ActiveContent(b))
           one == [n \in {seq} |-> snap]
           gone == IF seq > 1 THEN {seq - 1} ELSE {}
<1>2. b \in Branch /\ branches[b] \in BranchState
  BY LiveBranch
<1>3. branches'[b].gray_seq = seq
  BY <1>1, <1>2, GrayPublishBranch DEF HistoryInv, StateInv
<1>4. seq \in Nat /\ seq \notin gone
  BY <1>2 DEF BranchState
<1>5. graySnaps' = [graySnaps EXCEPT ![b] = Without(Overlay(graySnaps[b], one), gone)]
  BY <1>1 DEF GrayPublish
<1>6. one[seq] = snap /\ DOMAIN one = {seq}
  OBVIOUS
<1> HIDE DEF one, gone, seq
<1>7. graySnaps'[b] = Without(Overlay(graySnaps[b], one), gone)
  BY <1>2, <1>5 DEF HistoryInv, StateInv, ByBranch
<1>8. graySnaps'[b][seq] = snap
  BY <1>4, <1>6, <1>7 DEF Overlay, Without
<1> QED
  BY <1>3, <1>8, MaterializedSecret

\* A publication is read back with the ciphertexts it owes.
LEMMA SecretPublishedStep ==
    ASSUME HistoryInv, NEW b \in Live, NEW i \in PublishedSecrets(b), Publishes(b)
    PROVE  CipherIn(snapshot_of(store'[b], branches'[b].active_version), i) = OwedCipher(b, i)
<1>1. PICK rid \in RequestId, policy \in Policies : Publish(b, rid, policy)
  BY DEF Publishes
<1> DEFINE old == ActiveContent(b)
           content == materialize_resolved(b, old)
           a == Active(b)
           one == [n \in {a + 1} |-> content]
<1>2. /\ old \in Content /\ Complete(store[b], a) /\ old = published[b][a]
      /\ a \in Nat /\ b \in Branch
  BY SecretPublished
<1>3. a = branches[b].active_version /\ StoreHolds(store[b], published[b], a)
  BY LiveBranch DEF BranchHistory
<1>4. store'[b] = write_versions(store[b], old, one, 0)
  <2>1. store' = [store EXCEPT ![b] = write_versions(store[b], old, one, 0)]
    BY <1>1, <1>3 DEF Publish, WriteVersion
  <2> HIDE DEF one, old
  <2> QED
    BY <1>2, <2>1 DEF HistoryInv
<1>5. branches'[b].active_version = a + 1
  BY <1>1, <1>2, <1>3, PublishBranch DEF HistoryInv, StateInv
<1>6. content \in Content
  BY <1>2, MaterializedType
<1>7. CipherIn(content, i) = OwedCipher(b, i)
  BY MaterializedSecret
<1> HIDE DEF content, old, a
<1>8. (a + 1)..(a + 1) = {a + 1}
  BY <1>2
<1>9. one \in [(a + 1)..(a + 1) -> Content] /\ one[a + 1] = content
  BY <1>6, <1>8
<1> HIDE DEF one
<1> DEFINE v == a + 1
<1>10. v \in Nat /\ a < v /\ one \in [(a + 1)..v -> Content]
  BY <1>2, <1>9
<1> HIDE DEF v
<1>11. snapshot_of(write_versions(store[b], old, one, 0), v) = one[v]
  BY <1>2, <1>3, <1>10, WrittenReads, SMTT(30)
<1> QED
  BY <1>4, <1>5, <1>7, <1>9, <1>11 DEF v

\* A secret keeps its published ciphertext until a draft replaces it or an older
\* content is brought back, through gray releases, structure publications that
\* take its item out and in again, cascades and retention.
THEOREM SecretsAreCarried == Spec => SecretsSurvivePublish
<1> DEFINE Carry ==
      \A b \in Live : branches'[b] # None =>
          \A i \in PublishedSecrets(b) :
              LET now == snapshot_of(store'[b], branches'[b].active_version)
              IN  /\ CipherIn(now, i) = OwedCipher(b, i) \/ ~Publishes(b)
                  /\ CipherIn(now, i) = ActiveContent(b)[i] \/ now = NotFound
                        \/ Publishes(b) \/ RestoresOlder(b)
                  /\ PublishesGray(b) =>
                        CipherIn(graySnaps'[b][branches'[b].gray_seq], i) = OwedCipher(b, i)
<1>1. HistoryInv /\ HistoryInv' /\ [Next]_vars => Carry
  BY SecretKeptStep, GraySecretStep, SecretPublishedStep
<1>2. HistoryInv /\ HistoryInv' /\ [Next]_vars => [Carry]_vars
  BY <1>1
<1> QED
  BY <1>2, HistoryInvariant, PTL DEF Spec, SecretsSurvivePublish

\* Where there are no gray rules no gray release runs.
LEMMA NoGrayNumber ==
    ASSUME StateInv, GrayRule = {}, NEW b \in Branch
    PROVE  GrayNumber(b) = 0
<1>1. CASE branches[b] = None
  BY <1>1 DEF GrayNumber
<1>2. CASE branches[b] # None
  <2>1. branches[b] \in BranchState /\ b \in Live /\ GrayNumber(b) = branches[b].gray_seq
    BY <1>2 DEF StateInv, StateTypeOK, Live, GrayNumber
  <2>2. branches[b].gray_rule = None /\ branches[b].gray_seq \in Nat
    BY <2>1 DEF BranchState
  <2>3. ~(GrayNumber(b) > 0)
    <3>1. b \in Live => (GrayNumber(b) > 0 <=> branches[b].gray_rule # None)
      BY DEF StateInv, References, GrayServable
    <3> QED
      BY <2>1, <2>2, <3>1
  <2> HIDE DEF GrayNumber
  <2> QED
    BY <2>1, <2>2, <2>3
<1> QED
  BY <1>1, <1>2

\* Every command then writes the versions that follow the active one.
LEMMA WholeHistoryStep ==
    ASSUME HistoryInv, GrayRule = {}, WholeHistory, [Next]_vars
    PROVE  WholeHistory'
<1>1. ASSUME NEW b \in Branch, NEW v \in DOMAIN store'[b].recs
      PROVE  Complete(store'[b], v)
  <2> DEFINE s == store[b]
             t == store'[b]
             p == published[b]
             a == Active(b)
  <2>1. a \in Nat /\ StoreHolds(s, p, a) /\ GrayNumber(b) = 0
    BY HistoryOf, NoGrayNumber DEF HistoryInv
  <2>2. \A w \in DOMAIN s.recs : Complete(s, w)
    BY DEF WholeHistory
  <2>3. CASE StoreKept(b)
    BY <1>1, <2>2, <2>3 DEF StoreKept
  <2>4. CASE StoreWritten(b)
    <3>1. PICK lo \in Nat, hi \in Nat :
             \E contents \in [lo..hi -> Content], old \in Content, rb \in Nat :
                 Written(b, lo, hi, contents, old, rb)
      BY <2>4 DEF StoreWritten
    <3>2. PICK contents \in [lo..hi -> Content], old \in Content, rb \in Nat :
             Written(b, lo, hi, contents, old, rb)
      BY <3>1
    <3>3. /\ a < lo /\ lo <= hi /\ lo = a + 1
          /\ a = 0 \/ Complete(s, a)
          /\ a > 0 => old = p[a]
          /\ t = write_versions(s, old, contents, rb)
      BY <2>1, <3>2 DEF Written
    <3> HIDE DEF s, t, p, a
    <3>4. DOMAIN t.recs = DOMAIN s.recs \cup lo..hi
      BY <2>1, <3>3, WrittenStore
    <3>5. CASE v \in DOMAIN s.recs
      BY <2>2, <3>4, <3>5 DEF Complete, t
    <3>6. CASE v \in lo..hi
      <4>1. Complete(t, v)
        BY <2>1, <3>3, <3>4, <3>6, WrittenComplete
      <4> QED
        BY <4>1 DEF t
    <3> QED
      BY <1>1, <3>4, <3>5, <3>6 DEF t
  <2>5. CASE StorePruned(b)
    <3>1. t = prune_versions(s, a, Keep)
      BY <2>5 DEF StorePruned
    <3> HIDE DEF s, t, p, a
    <3>2. /\ DOMAIN t.recs \subseteq DOMAIN s.recs
          /\ \A w \in DOMAIN t.recs : Complete(s, w) => Complete(t, w)
      BY <2>1, <3>1, ConfigAssumption, PrunedStore
    <3> QED
      BY <1>1, <2>2, <3>2 DEF t
  <2>6. CASE StoreGone(b)
    BY <1>1, <2>6, EmptyHistory DEF StoreGone
  <2> QED
    BY <2>3, <2>4, <2>5, <2>6, EveryStoreStep DEF StoreStep
<1> QED
  BY <1>1 DEF WholeHistory

\* Without gray releases every chain is whole in every reachable state.
THEOREM HistoryIsWhole ==
    ASSUME GrayRule = {}
    PROVE  Spec => []WholeHistory
<1>1. Init => WholeHistory
  BY EmptyHistory DEF Init, WholeHistory
<1>2. HistoryInv /\ WholeHistory /\ [Next]_vars => WholeHistory'
  BY WholeHistoryStep
<1> QED
  BY <1>1, <1>2, HistoryInvariant, PTL DEF Spec

\* I6 in full, without gray releases: every version in the history of a branch
\* rebuilds to the content it was given, and the active one is there.
THEOREM HistoryAlwaysRebuilds ==
    ASSUME GrayRule = {}
    PROVE  Spec => []HistoryRebuilds
<1>1. ASSUME HistoryInv, WholeHistory PROVE HistoryRebuilds
  <2>1. ASSUME NEW b \in Live
        PROVE  /\ branches[b].active_version > 0 =>
                     branches[b].active_version \in DOMAIN store[b].recs
               /\ \A v \in DOMAIN store[b].recs : snapshot_of(store[b], v) = published[b][v]
    <3>1. /\ Active(b) \in Nat /\ StoreHolds(store[b], published[b], Active(b))
          /\ Active(b) = branches[b].active_version
      BY <1>1, LiveBranch DEF BranchHistory
    <3>2. ASSUME NEW v \in DOMAIN store[b].recs PROVE snapshot_of(store[b], v) = published[b][v]
      <4>1. v \in Nat \ {0} /\ Complete(store[b], v)
        BY <1>1, <3>1 DEF StoreHolds, WholeHistory, Live
      <4> QED
        BY <3>1, <4>1, RebuiltContent
    <3> QED
      BY <3>1, <3>2 DEF StoreHolds
  <2> QED
    BY <2>1 DEF HistoryRebuilds
<1>2. HistoryInv /\ WholeHistory => HistoryRebuilds
  BY <1>1
<1> QED
  BY <1>2, HistoryInvariant, HistoryIsWhole, PTL

\* Without gray releases clients can always read the active version.
THEOREM ActiveAlwaysReadable ==
    ASSUME GrayRule = {}
    PROVE  Spec => []ActiveReadable
<1>1. ASSUME HistoryInv, WholeHistory PROVE ActiveReadable
  <2>1. ASSUME NEW b \in Live PROVE ActiveContent(b) # NotFound
    <3>1. /\ Active(b) \in Nat /\ StoreHolds(store[b], published[b], Active(b))
          /\ Active(b) = branches[b].active_version /\ b \in Branch
      BY <1>1, LiveBranch DEF BranchHistory
    <3>2. CASE Active(b) = 0
      <4>1. ActiveContent(b) \in Content
        BY <3>1, <3>2, EmptyMapType DEF ActiveContent, Content
      <4> QED
        BY <4>1, ConfigAssumption
    <3>3. CASE Active(b) # 0
      <4>1. Active(b) \in DOMAIN store[b].recs /\ Active(b) \in DOMAIN published[b]
        BY <3>1, <3>3 DEF StoreHolds
      <4>2. Complete(store[b], Active(b))
        BY <1>1, <3>1, <4>1 DEF WholeHistory
      <4>3. ActiveContent(b) = published[b][Active(b)]
        BY <3>1, <3>3, <4>2, RebuiltContent DEF ActiveContent
      <4>4. ActiveContent(b) \in Content
        BY <3>1, <4>1, <4>3 DEF StoreHolds
      <4> QED
        BY <4>4, ConfigAssumption
    <3> QED
      BY <3>2, <3>3
  <2> QED
    BY <2>1 DEF ActiveReadable
<1>2. HistoryInv /\ WholeHistory => ActiveReadable
  BY <1>1
<1> QED
  BY <1>2, HistoryInvariant, HistoryIsWhole, PTL

\* Without gray releases a cascade delivers: the active content of every branch
\* has the new value of every shared item at every item bound to it, and the
\* other values it had.
THEOREM CascadeAlwaysDelivers ==
    ASSUME GrayRule = {}
    PROVE  Spec => CascadeDelivers
<1> DEFINE Deliver ==
      SharedPublish("auto") =>
          \A b \in Live : snapshot_of(store'[b], branches'[b].active_version) =
              IF branches'[b].active_version = 0 THEN NotFound
              ELSE Overlay(ActiveContent(b),
                           [i \in Affected(b) |->
                               shared'[branches[b].shared_bindings[i]].value])
<1>1. ASSUME HistoryInv, ActiveReadable PROVE Deliver
  BY <1>1, CascadeStep DEF ActiveReadable
<1>2. HistoryInv /\ ActiveReadable /\ [Next]_vars => [Deliver]_vars
  BY <1>1
<1> QED
  BY <1>2, HistoryInvariant, ActiveAlwaysReadable, PTL DEF Spec, CascadeDelivers
=============================================================================
