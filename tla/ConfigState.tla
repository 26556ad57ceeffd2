------------------------------ MODULE ConfigState ------------------------------
(***************************************************************************)
(* The deterministic state machine of dsh-core (src/state.rs) for one      *)
(* project: its structure, its branches with their drafts, versions and    *)
(* gray release, and the shared library that branches bind items to.       *)
(*                                                                         *)
(* Every command is one action: StateMachine::apply runs commands one at a *)
(* time (the Raft log order) and commits their writes in one batch.  A     *)
(* command that returns an error writes nothing and is not a step, with    *)
(* the exception of SharedPublishAborted.                                  *)
(***************************************************************************)
EXTENDS VersionChain

CONSTANTS
    Branch,          \* branch names
    InitBranch,      \* the branches ProjectCreate makes (dev, test, prod)
    NamePrefix,      \* <<b, c>>: the name of b is a prefix of the name of c
    Item,            \* (group, key) pairs, numbered in lexicographic order
    GroupOf,         \* the group of an item
    Ty,              \* value types; "secret" is the only one treated apart
    Value,           \* values: records with their type and a datum
    SharedKey,       \* keys of the shared library, numbered in lexicographic order
    RequestId,       \* client request ids
    GrayRule,        \* gray rules accepted by validate_gray_rule
    None,            \* an absent branch, rule, draft or request id
    StructureInputs, \* structures that StructureDraftSet may submit
    DraftInputs,     \* edits that DraftUpdate may submit
    SharedInputs,    \* items that SharedDraftUpdate may submit
    Policies,        \* PublishPolicy: "block" or "warn"
    CascadeModes,    \* SharedCascadeMode: "auto" or "manual"
    Keep,            \* versions the retention job keeps per branch
    MaxBranches,     \* MAX_BRANCHES_PER_PROJECT
    MaxVersion,      \* bound: highest version and gray number explored
    MaxStructure,    \* bound: highest structure version explored
    MaxDraftRev      \* bound: draft edits explored per branch

ItemDef == [ty : Ty, required : BOOLEAN, shared : BOOLEAN]

SharedItem == [ty : Ty, value : Value]

\* The maps from a part of S into T.
PartialFcn(S, T) == UNION {[D -> T] : D \in SUBSET S}

Content == PartialFcn(Item, Value)

ASSUME ConfigAssumption ==
    /\ Item \subseteq Nat /\ IsFiniteSet(Item)
    /\ SharedKey \subseteq Nat
    /\ InitBranch \subseteq Branch
    /\ \A b \in Branch : <<b, b>> \in NamePrefix
    /\ None \notin RequestId /\ None \notin GrayRule /\ None \notin SharedKey
    /\ StructureInputs \subseteq PartialFcn(Item, ItemDef)
    /\ \A e \in DraftInputs :
          /\ e.updates \in Content
          /\ e.deletes \subseteq Item
          /\ e.bindings \in PartialFcn(Item, SharedKey \cup {None})
    /\ SharedInputs \subseteq SharedItem
    /\ Keep \in Nat /\ MaxVersion \in Nat /\ MaxDraftRev \in Nat
    /\ NotFound \notin Content

VARIABLES
    structure,    \* published structure: version and item definitions
    structDraft,  \* structure draft: base_version and item definitions, or None
    branches,     \* BranchState of every branch, None when it does not exist
    drafts,       \* BranchState::value_draft: the values and the groups it has
    store,        \* version store of every branch
    graySnaps,    \* gray snapshots of every branch, by gray number
    shared,       \* published shared items
    sharedDraft,  \* shared drafts
    published     \* history: the content each retained version was given

vars == <<structure, structDraft, branches, drafts, store, graySnaps,
          shared, sharedDraft, published>>

-----------------------------------------------------------------------------
(* Reading the state *)

Live == {b \in Branch : branches[b] # None}

SharedDefs(defs) == {i \in DOMAIN defs : defs[i].shared}

\* The content of the active version: empty before the first publication.
ActiveContent(b) ==
    IF branches[b].active_version = 0 THEN EmptyMap
    ELSE snapshot_of(store[b], branches[b].active_version)

\* The gray number of a branch, 0 when no gray release runs.
GrayNumber(b) == IF branches[b] = None THEN 0 ELSE branches[b].gray_seq

\* A draft may hold a group without items; it is empty when it has no group.
EmptyDraft == [values |-> EmptyMap, groups |-> {}]

\* The items of branch b that are bound to shared key k (shared_usage).
BoundTo(b, k) ==
    {i \in DOMAIN branches[b].shared_bindings : branches[b].shared_bindings[i] = k}

\* Mutant: the gray number is ignored when a version number is allocated.
next_monotonic_active_only(active, gray) == active + 1

next_monotonic(active, gray) == (IF active > gray THEN active ELSE gray) + 1

\* BranchState::new
NewBranchState(version) ==
    [active_version |-> 0, structure_version |-> version, last_request_id |-> None,
     draft_rev |-> 0, gray_seq |-> 0, gray_rule |-> None,
     shared_bindings |-> EmptyMap, bindings_dirty |-> FALSE]

-----------------------------------------------------------------------------
(* materialize_resolved: the content a publication gives to a branch       *)

\* Mutant: carried secrets are read from the checkpoint of the active version.
DraftWithCheckpoint(b, old) ==
    LET base == FullAt(store[b], ChainBase(branches[b].active_version))
        carried == IF base = NotFound THEN {}
                   ELSE {i \in DOMAIN structure.defs \cap DOMAIN base :
                            /\ ~structure.defs[i].shared
                            /\ structure.defs[i].ty = "secret"
                            /\ i \notin DOMAIN drafts[b].values}
    IN  Overlay(drafts[b].values, [i \in carried |-> base[i]])

\* Secrets that the draft leaves out keep their published ciphertext.
DraftWithSecrets(b, old) ==
    LET carried == {i \in DOMAIN structure.defs :
                       /\ ~structure.defs[i].shared
                       /\ structure.defs[i].ty = "secret"
                       /\ i \notin DOMAIN drafts[b].values
                       /\ i \in DOMAIN old}
    IN  Overlay(drafts[b].values, [i \in carried |-> old[i]])

\* Referenced items whose binding is missing, dangling or of another type.
Unresolved(b) ==
    LET bound == branches[b].shared_bindings
    IN  {i \in SharedDefs(structure.defs) :
            \/ i \notin DOMAIN bound
            \/ bound[i] \notin DOMAIN shared
            \/ shared[bound[i]].ty # structure.defs[i].ty}

\* validate_publish and the errors of the shared references.
PublishErrors(b, old) ==
    LET draft == DraftWithSecrets(b, old)
        local == {i \in DOMAIN structure.defs : ~structure.defs[i].shared}
    IN  {i \in local : structure.defs[i].required /\ i \notin DOMAIN draft}
        \cup {i \in local \cap DOMAIN draft : draft[i].ty # structure.defs[i].ty}
        \cup Unresolved(b)

materialize_resolved(b, old) ==
    Overlay(DraftWithSecrets(b, old),
            [i \in SharedDefs(structure.defs) \ Unresolved(b) |->
                shared[branches[b].shared_bindings[i]].value])

-----------------------------------------------------------------------------
(* Project structure *)

StructureDraftSet(base_version, defs) ==
    /\ base_version = structure.version
    /\ structDraft' = [base_version |-> base_version, defs |-> defs]
    /\ UNCHANGED <<structure, branches, drafts, store, graySnaps,
                   shared, sharedDraft, published>>

\* The bindings that PublishStructure keeps: of an item that is still there and
\* still referenced, to a shared item of the type the structure declares.
FittingBindings(st, defs) ==
    {i \in DOMAIN st.shared_bindings \cap SharedDefs(defs) :
        /\ st.shared_bindings[i] \in DOMAIN shared
        /\ shared[st.shared_bindings[i]].ty = defs[i].ty}

\* What PublishStructure does to the state of one branch.
Restructured(st, defs) ==
    LET vno == next_monotonic(st.active_version, st.gray_seq)
    IN  [st EXCEPT !.active_version = vno,
                   !.structure_version = structure.version + 1,
                   !.gray_seq = IF @ > 0 THEN vno + 1 ELSE 0,
                   !.shared_bindings = [i \in FittingBindings(st, defs) |-> @[i]]]

\* Draft values of removed items go with their groups, then those of
\* referenced items, whose group may stay behind without items.
RestructuredDraft(draft, defs) ==
    LET known == DOMAIN draft.values \cap DOMAIN defs
    IN  [values |-> [i \in known \ SharedDefs(defs) |-> draft.values[i]],
         groups |-> {GroupOf[i] : i \in known}]

\* Mutant: the gray number advances, its snapshot stays at the old number.
GrayBumpedNot(b) == graySnaps[b]

\* The gray snapshot of b moves to the number after the new version.
GrayBumped(b) ==
    LET seq == branches[b].gray_seq
        next == next_monotonic(branches[b].active_version, seq) + 1
    IN  IF seq = 0 THEN graySnaps[b]
        ELSE Overlay(Without(graySnaps[b], {seq}), [n \in {next} |-> graySnaps[b][seq]])

\* A new structure version, and a new version with unchanged values on every
\* branch.
PublishStructure ==
    LET new(b) == next_monotonic(branches[b].active_version, branches[b].gray_seq)
        one(b) == [v \in {new(b)} |-> ActiveContent(b)]
    IN  /\ structDraft # None
        /\ structDraft.base_version = structure.version
        /\ structure.version < MaxStructure
        /\ \A b \in Live :
              /\ new(b) < MaxVersion
              /\ ActiveContent(b) # NotFound
              /\ branches[b].gray_seq > 0 => branches[b].gray_seq \in DOMAIN graySnaps[b]
        /\ structure' = [version |-> structure.version + 1, defs |-> structDraft.defs]
        /\ structDraft' = None
        /\ branches' = [b \in Branch |->
              IF b \in Live THEN Restructured(branches[b], structDraft.defs) ELSE None]
        /\ drafts' = [b \in Branch |->
              IF b \in Live THEN RestructuredDraft(drafts[b], structDraft.defs) ELSE drafts[b]]
        /\ store' = [b \in Branch |->
              IF b \in Live THEN write_versions(store[b], ActiveContent(b), one(b), 0)
              ELSE store[b]]
        /\ graySnaps' = [b \in Branch |-> IF b \in Live THEN GrayBumped(b) ELSE graySnaps[b]]
        /\ published' = [b \in Branch |->
              IF b \in Live THEN Overlay(published[b], one(b)) ELSE published[b]]
        /\ UNCHANGED <<shared, sharedDraft>>

-----------------------------------------------------------------------------
(* Branches *)

\* Mutant: the values of referenced items become draft values of the copy.
CopiedDraftWhole(content) ==
    [values |-> content, groups |-> {GroupOf[i] : i \in DOMAIN content}]

\* The draft of a branch made from a published one: its content, without the
\* items that are referenced.
CopiedDraft(content) ==
    LET values == Without(content, SharedDefs(structure.defs))
    IN  [values |-> values, groups |-> {GroupOf[i] : i \in DOMAIN values}]

\* src is None for a branch made from nothing.
BranchCreate(b, src) ==
    /\ b \notin Live
    /\ Cardinality(Live) < MaxBranches
    /\ src # None => /\ src \in Live
                     /\ branches[src].active_version > 0
                     /\ ActiveContent(src) # NotFound
    /\ branches' = [branches EXCEPT ![b] =
          IF src = None THEN NewBranchState(structure.version)
          ELSE [NewBranchState(structure.version) EXCEPT
                  !.shared_bindings = branches[src].shared_bindings]]
    /\ drafts' = [drafts EXCEPT ![b] =
          IF src = None THEN EmptyDraft ELSE CopiedDraft(ActiveContent(src))]
    /\ UNCHANGED <<structure, structDraft, store, graySnaps, shared, sharedDraft, published>>

BranchDeletable(b) == branches[b].active_version = 0 /\ drafts[b].groups = {}

\* Mutant: the version keys are looked for under the whole name of b.
StoresWithoutExactly(b) == [store EXCEPT ![b] = EmptyStore]

\* The keys of b are found by its name as a prefix, without the separator that
\* ends it: the branches whose names continue that of b go with it.
DeletedWith(b) == {c \in Branch : <<b, c>> \in NamePrefix}

StoresWithout(b) == [c \in Branch |-> IF c \in DeletedWith(b) THEN EmptyStore ELSE store[c]]

BranchDelete(b) ==
    LET gone == DeletedWith(b)
    IN  /\ b \in Live
        /\ BranchDeletable(b)
        /\ branches' = [c \in Branch |-> IF c \in gone THEN None ELSE branches[c]]
        /\ drafts' = [c \in Branch |-> IF c \in gone THEN EmptyDraft ELSE drafts[c]]
        /\ store' = StoresWithout(b)
        /\ graySnaps' = [c \in Branch |-> IF c \in gone THEN EmptyMap ELSE graySnaps[c]]
        /\ published' = [c \in Branch |-> IF c \in gone THEN EmptyMap ELSE published[c]]
        /\ UNCHANGED <<structure, structDraft, shared, sharedDraft>>

-----------------------------------------------------------------------------
(* Draft edits *)

\* Every value is of the type of a local item, every binding is of a
\* referenced item to a published shared item of its type.
EditValid(edit) ==
    LET defs == structure.defs
    IN  /\ \A i \in DOMAIN edit.updates :
              /\ i \in DOMAIN defs
              /\ ~defs[i].shared
              /\ edit.updates[i].ty = defs[i].ty
        /\ \A i \in DOMAIN edit.bindings :
              /\ i \in SharedDefs(defs)
              /\ edit.bindings[i] # None =>
                    /\ edit.bindings[i] \in DOMAIN shared
                    /\ shared[edit.bindings[i]].ty = defs[i].ty

\* Mutant: an older revision than the current one is accepted.
LockHoldsOlder(b, expected) == expected = None \/ expected <= branches[b].draft_rev

\* The optimistic lock: expected_draft_rev is None when it is not sent.
LockHolds(b, expected) == expected = None \/ expected = branches[b].draft_rev

\* An edit binds with a key and unbinds with None.
Rebound(bound, bindings) ==
    Overlay(Without(bound, DOMAIN bindings),
            [i \in {j \in DOMAIN bindings : bindings[j] # None} |-> bindings[i]])

\* Deletions come first; they leave the group of the item behind.
EditedDraft(draft, edit) ==
    [values |-> Overlay(Without(draft.values, edit.deletes), edit.updates),
     groups |-> draft.groups \cup {GroupOf[i] : i \in DOMAIN edit.updates}]

DraftUpdate(b, edit, expected) ==
    LET bound == branches[b].shared_bindings
        rebound == Rebound(bound, edit.bindings)
    IN  /\ b \in Live
        /\ LockHolds(b, expected)
        /\ EditValid(edit)
        /\ branches[b].draft_rev < MaxDraftRev
        /\ branches' = [branches EXCEPT
              ![b].shared_bindings = rebound,
              ![b].bindings_dirty = @ \/ rebound # bound,
              ![b].draft_rev = @ + 1]
        /\ drafts' = [drafts EXCEPT ![b] = EditedDraft(@, edit)]
        /\ UNCHANGED <<structure, structDraft, store, graySnaps,
                       shared, sharedDraft, published>>

-----------------------------------------------------------------------------
(* Publication, rollback and gray release *)

\* The guards that Publish and GrayPublish share: the request is not the last
\* one the branch carried out, there is something to publish, the active
\* content can be read, and the checks pass or only warn.
Publishable(b, rid, policy) ==
    /\ b \in Live
    /\ branches[b].last_request_id # rid
    /\ drafts[b].groups # {} \/ branches[b].bindings_dirty
    /\ ActiveContent(b) # NotFound
    /\ policy = "warn" \/ PublishErrors(b, ActiveContent(b)) = {}

\* Version v of branch b is written with this content.
WriteVersion(b, v, content, rollback_of) ==
    LET one == [n \in {v} |-> content]
    IN  /\ v <= MaxVersion
        /\ store' = [store EXCEPT ![b] =
              write_versions(@, ActiveContent(b), one, rollback_of)]
        /\ published' = [published EXCEPT ![b] = Overlay(@, one)]

Publish(b, rid, policy) ==
    LET v == branches[b].active_version + 1
    IN  /\ Publishable(b, rid, policy)
        /\ WriteVersion(b, v, materialize_resolved(b, ActiveContent(b)), 0)
        /\ branches' = [branches EXCEPT ![b].active_version = v,
                                        ![b].last_request_id = rid,
                                        ![b].bindings_dirty = FALSE]
        /\ drafts' = [drafts EXCEPT ![b] = EmptyDraft]
        /\ UNCHANGED <<structure, structDraft, graySnaps, shared, sharedDraft>>

RollbackContent(b, to) == snapshot_of(store[b], to)

Rollback(b, to, rid) ==
    LET v == branches[b].active_version + 1
    IN  /\ b \in Live
        /\ branches[b].last_request_id # rid
        /\ 0 < to /\ to < branches[b].active_version
        /\ RollbackContent(b, to) # NotFound
        /\ ActiveContent(b) # NotFound
        /\ WriteVersion(b, v, RollbackContent(b, to), to)
        /\ branches' = [branches EXCEPT ![b].active_version = v,
                                        ![b].last_request_id = rid]
        /\ UNCHANGED <<structure, structDraft, drafts, graySnaps, shared, sharedDraft>>

\* The draft becomes the gray snapshot, in place of the one there may be.
GrayPublish(b, rule, rid, policy) ==
    LET seq == branches[b].gray_seq + 1
        snap == materialize_resolved(b, ActiveContent(b))
    IN  /\ Publishable(b, rid, policy)
        /\ seq <= MaxVersion
        /\ graySnaps' = [graySnaps EXCEPT ![b] =
              Without(Overlay(@, [n \in {seq} |-> snap]),
                      IF seq > 1 THEN {seq - 1} ELSE {})]
        /\ branches' = [branches EXCEPT ![b].gray_seq = seq,
                                        ![b].gray_rule = rule,
                                        ![b].last_request_id = rid,
                                        ![b].bindings_dirty = FALSE]
        /\ drafts' = [drafts EXCEPT ![b] = EmptyDraft]
        /\ UNCHANGED <<structure, structDraft, store, shared, sharedDraft, published>>

GrayActive(b) == branches[b].gray_seq > 0 /\ branches[b].gray_rule # None

GrayCleared(st, rid) ==
    [st EXCEPT !.gray_seq = 0, !.gray_rule = None, !.last_request_id = rid]

GrayPromote(b, rid) ==
    LET seq == branches[b].gray_seq
        v == next_monotonic(branches[b].active_version, seq)
    IN  /\ b \in Live
        /\ branches[b].last_request_id # rid
        /\ GrayActive(b)
        /\ seq \in DOMAIN graySnaps[b]
        /\ ActiveContent(b) # NotFound
        /\ WriteVersion(b, v, graySnaps[b][seq], 0)
        /\ graySnaps' = [graySnaps EXCEPT ![b] = Without(@, {seq})]
        /\ branches' = [branches EXCEPT ![b] =
              [GrayCleared(@, rid) EXCEPT !.active_version = v]]
        /\ UNCHANGED <<structure, structDraft, drafts, shared, sharedDraft>>

GrayAbort(b, rid) ==
    /\ b \in Live
    /\ branches[b].last_request_id # rid
    /\ GrayActive(b)
    /\ graySnaps' = [graySnaps EXCEPT ![b] = Without(@, {branches[b].gray_seq})]
    /\ branches' = [branches EXCEPT ![b] = GrayCleared(@, rid)]
    /\ UNCHANGED <<structure, structDraft, drafts, store, shared, sharedDraft, published>>

-----------------------------------------------------------------------------
(* Shared library *)

SharedDraftUpdate(k, item) ==
    /\ sharedDraft' = Overlay(sharedDraft, [x \in {k} |-> item])
    /\ UNCHANGED <<structure, structDraft, branches, drafts, store, graySnaps,
                   shared, published>>

\* The items of branch b that a cascade of the current drafts rewrites.
Affected(b) == UNION {BoundTo(b, k) : k \in DOMAIN sharedDraft}

\* The position of item i in the cascade: drafts in the order of their keys,
\* the items bound to one key in their own order; one version for each.
CascadeRank(b, i) ==
    LET key(j) == branches[b].shared_bindings[j]
    IN  Cardinality({j \in Affected(b) :
                        key(j) < key(i) \/ (key(j) = key(i) /\ j <= i)})

\* Mutant: each step starts from the content before the command, because the
\* reads do not see the writes that the command has buffered.
CascadeContentStale(b, n) ==
    Overlay(ActiveContent(b),
            [i \in {j \in Affected(b) : CascadeRank(b, j) = n} |->
                sharedDraft[branches[b].shared_bindings[i]].value])

\* cascade_to_branch: the content of the n-th version of the cascade.
CascadeContent(b, n) ==
    Overlay(ActiveContent(b),
            [i \in {j \in Affected(b) : CascadeRank(b, j) <= n} |->
                sharedDraft[branches[b].shared_bindings[i]].value])

\* The versions that a cascade adds to branch b.
CascadeVersions(b) ==
    LET active == branches[b].active_version
    IN  [v \in (active + 1)..(active + Cardinality(Affected(b))) |->
            CascadeContent(b, v - active)]

\* All drafts are published.  In mode "auto" every item bound to one of them
\* gets its value in a version of its own.
SharedPublish(mode) ==
    LET cascade == {b \in Live : mode = "auto" /\ Affected(b) # {}}
    IN  /\ DOMAIN sharedDraft # {}
        /\ \A b \in cascade :
              /\ ActiveContent(b) # NotFound
              /\ branches[b].active_version + Cardinality(Affected(b)) <= MaxVersion
        /\ shared' = Overlay(shared, sharedDraft)
        /\ sharedDraft' = EmptyMap
        /\ branches' = [b \in Branch |->
              IF b \in cascade
              THEN [branches[b] EXCEPT !.active_version = @ + Cardinality(Affected(b))]
              ELSE branches[b]]
        /\ store' = [b \in Branch |->
              IF b \in cascade
              THEN write_versions(store[b], ActiveContent(b), CascadeVersions(b), 0)
              ELSE store[b]]
        /\ published' = [b \in Branch |->
              IF b \in cascade THEN Overlay(published[b], CascadeVersions(b))
              ELSE published[b]]
        /\ UNCHANGED <<structure, structDraft, drafts, graySnaps>>

\* A cascade that meets a branch whose active content cannot be read fails.
\* The buffered writes are dropped; the drafts up to the key it had reached
\* were deleted in the store directly and are gone.
SharedPublishAborted(mode) ==
    LET failing == {k \in DOMAIN sharedDraft :
                       \E b \in Live : BoundTo(b, k) # {} /\ ActiveContent(b) = NotFound}
        reached == {k \in DOMAIN sharedDraft : \A f \in failing : k <= f}
    IN  /\ mode = "auto"
        /\ failing # {}
        /\ sharedDraft' = Without(sharedDraft, reached)
        /\ UNCHANGED <<structure, structDraft, branches, drafts, store, graySnaps,
                       shared, published>>

\* Mutant: only the branches that have published are asked.
UnreferencedByPublished(k) ==
    \A b \in Live : branches[b].active_version > 0 => BoundTo(b, k) = {}

Unreferenced(k) == \A b \in Live : BoundTo(b, k) = {}

SharedDelete(k) ==
    /\ k \in DOMAIN shared => Unreferenced(k)
    /\ shared' = Without(shared, {k})
    /\ sharedDraft' = Without(sharedDraft, {k})
    /\ UNCHANGED <<structure, structDraft, branches, drafts, store, graySnaps, published>>

-----------------------------------------------------------------------------
(* The retention job prunes the versions of one branch. *)

Prune(b) ==
    LET kept == prune_versions(store[b], branches[b].active_version, Keep)
    IN  /\ b \in Live
        /\ kept # store[b]
        /\ store' = [store EXCEPT ![b] = kept]
        /\ published' = [published EXCEPT ![b] = [v \in DOMAIN kept.recs |-> @[v]]]
        /\ UNCHANGED <<structure, structDraft, branches, drafts, graySnaps,
                       shared, sharedDraft>>

-----------------------------------------------------------------------------
(* The state right after ProjectCreate, and the specification *)

Init ==
    /\ structure = [version |-> 1, defs |-> EmptyMap]
    /\ structDraft = None
    /\ branches = [b \in Branch |-> IF b \in InitBranch THEN NewBranchState(1) ELSE None]
    /\ drafts = [b \in Branch |-> EmptyDraft]
    /\ store = [b \in Branch |-> EmptyStore]
    /\ graySnaps = [b \in Branch |-> EmptyMap]
    /\ shared = EmptyMap
    /\ sharedDraft = EmptyMap
    /\ published = [b \in Branch |-> EmptyMap]

StructureNext ==
    \/ \E defs \in StructureInputs : StructureDraftSet(structure.version, defs)
    \/ PublishStructure

BranchNext(b) ==
    \/ \E src \in Branch \cup {None} : BranchCreate(b, src)
    \/ BranchDelete(b)
    \/ \E edit \in DraftInputs, expected \in {None} \cup 0..MaxDraftRev :
          DraftUpdate(b, edit, expected)
    \/ \E rid \in RequestId, policy \in Policies : Publish(b, rid, policy)
    \/ \E rid \in RequestId, to \in 1..MaxVersion : Rollback(b, to, rid)
    \/ \E rid \in RequestId, policy \in Policies, rule \in GrayRule :
          GrayPublish(b, rule, rid, policy)
    \/ \E rid \in RequestId : GrayPromote(b, rid)
    \/ \E rid \in RequestId : GrayAbort(b, rid)
    \/ Prune(b)

SharedNext ==
    \/ \E k \in SharedKey, item \in SharedInputs : SharedDraftUpdate(k, item)
    \/ \E mode \in CascadeModes : SharedPublish(mode)
    \/ \E mode \in CascadeModes : SharedPublishAborted(mode)
    \/ \E k \in SharedKey : SharedDelete(k)

Next ==
    \/ StructureNext
    \/ \E b \in Branch : BranchNext(b)
    \/ SharedNext

Spec == Init /\ [][Next]_vars

-----------------------------------------------------------------------------
(* Types *)

BranchState ==
    [active_version : Nat, structure_version : Nat,
     last_request_id : RequestId \cup {None}, draft_rev : Nat,
     gray_seq : Nat, gray_rule : GrayRule \cup {None},
     shared_bindings : PartialFcn(Item, SharedKey), bindings_dirty : BOOLEAN]

ASSUME NoneAssumption == None \notin BranchState

\* The part of the type invariant that does not depend on what a version
\* rebuilds to.
StateTypeOK ==
    /\ structure \in [version : Nat, defs : PartialFcn(Item, ItemDef)]
    /\ structDraft \in [base_version : Nat, defs : PartialFcn(Item, ItemDef)] \cup {None}
    /\ branches \in [Branch -> BranchState \cup {None}]
    /\ shared \in PartialFcn(SharedKey, SharedItem)
    /\ sharedDraft \in PartialFcn(SharedKey, SharedItem)

\* Drafts, versions, gray snapshots and history hold contents; a drafted item
\* is in a group of the draft.
ContentTypeOK ==
    \A b \in Branch :
        /\ drafts[b].values \in Content
        /\ {GroupOf[i] : i \in DOMAIN drafts[b].values} \subseteq drafts[b].groups
        /\ DOMAIN store[b].recs \subseteq 1..MaxVersion
        /\ DOMAIN published[b] = DOMAIN store[b].recs
        /\ \A v \in DOMAIN published[b] : published[b][v] \in Content
        /\ \A v \in DOMAIN store[b].recs :
              (v \in DOMAIN store[b].snaps) # (v \in DOMAIN store[b].diffs)
        /\ \A n \in DOMAIN graySnaps[b] : graySnaps[b][n] \in Content

\* The type invariant: every record is of its type, every version record has
\* exactly one payload, a full snapshot or a diff (write_version_snapshot).
TypeOK == StateTypeOK /\ ContentTypeOK

-----------------------------------------------------------------------------
(* Safety *)

\* I6, "versions are immutable": every version in the history of a branch
\* rebuilds, through checkpoints and diffs, to the content it was given when
\* it was written, and the active version is in that history.
HistoryRebuilds ==
    \A b \in Live :
        /\ branches[b].active_version > 0 =>
              branches[b].active_version \in DOMAIN store[b].recs
        /\ \A v \in DOMAIN store[b].recs : snapshot_of(store[b], v) = published[b][v]

\* The same where version numbers may have gaps: a version that can be read
\* at all is read with the content it was given, never with another one.
HistoryFaithful ==
    \A b \in Live : \A v \in DOMAIN store[b].recs :
        snapshot_of(store[b], v) \in {published[b][v], NotFound}

\* Clients can read the active version of every branch (get_config, version 0).
ActiveReadable == \A b \in Live : ActiveContent(b) # NotFound

\* While a gray release runs it has a rule and exactly one snapshot, at the
\* number clients resolve to; otherwise it leaves nothing behind.
GrayServable ==
    \A b \in Branch :
        /\ DOMAIN graySnaps[b] = IF GrayNumber(b) > 0 THEN {GrayNumber(b)} ELSE {}
        /\ b \in Live => (GrayNumber(b) > 0 <=> branches[b].gray_rule # None)

\* Nothing outlives a branch, whether it was deleted by its own name or as one
\* whose name continues that of another (branch_prefix has no separator at its
\* end): no gray snapshot, record, snapshot or diff is left that a branch made
\* again under the name would serve, diff its versions against or roll back to.
DeletedLeavesNothing ==
    \A b \in Branch :
        /\ b \notin Live => DOMAIN graySnaps[b] = {}
        /\ b \notin Live \/ branches[b].active_version = 0 =>
              /\ DOMAIN store[b].recs = {}
              /\ DOMAIN store[b].snaps = {}
              /\ DOMAIN store[b].diffs = {}

\* Every binding is of an item that the structure marks as referenced, to a
\* shared item that is published: neither SharedDelete, nor PublishStructure,
\* nor the copy of a branch leaves a dangling one.
BindingsResolve ==
    \A b \in Live : \A i \in DOMAIN branches[b].shared_bindings :
        /\ i \in SharedDefs(structure.defs)
        /\ branches[b].shared_bindings[i] \in DOMAIN shared

\* A referenced item never has a draft value of its own, however the item
\* came to be referenced and the branch to have its draft.
RefItemsReadOnly ==
    \A b \in Live : DOMAIN drafts[b].values \cap SharedDefs(structure.defs) = {}

\* I3: all branches of a project are at the structure version of the project,
\* branches created between two structure publications included.
StructureLockstep ==
    \A b \in Live : branches[b].structure_version = structure.version

\* I9: a version made by a rollback has the content of the version it names,
\* for as long as both are kept.
RollbackRestores ==
    \A b \in Live : \A v \in DOMAIN store[b].recs :
        LET to == store[b].recs[v]
        IN  to \in DOMAIN store[b].recs =>
                snapshot_of(store[b], v) = snapshot_of(store[b], to)

-----------------------------------------------------------------------------
(* What a step may never do *)

\* I6 as an action property: no command and no run of the retention job
\* changes what a version reads as, as long as the version is kept.
VersionImmutable ==
    [][\A b \in Live :
          \A v \in DOMAIN store[b].recs \cap DOMAIN store'[b].recs :
              snapshot_of(store[b], v) # NotFound =>
                  snapshot_of(store'[b], v) = snapshot_of(store[b], v)]_vars

\* The active version of a branch never goes back.  The numbers of one gray
\* release never go back either, whatever is published or restructured while it
\* runs, and the version that ends it is above all of them (next_monotonic).
\* Once a release is aborted the next one starts from 1 again: GrayReuse.cfg.
VersionNumbersGrow ==
    [][\A b \in Live : branches'[b] # None =>
          LET st == branches[b]
              new == branches'[b]
          IN  /\ new.active_version >= st.active_version
              /\ new.gray_seq > 0 => new.gray_seq >= st.gray_seq
              /\ new.gray_seq = 0 /\ new.active_version # st.active_version =>
                    new.active_version > st.gray_seq]_vars

\* BranchDelete removes no branch that has published versions or a pending
\* draft.
PublishedSurvives ==
    [][\A b \in Live :
          branches[b].active_version > 0 \/ drafts[b].groups # {} => branches'[b] # None]_vars

\* D15: a shared draft goes away by being published or by being deleted, not
\* through a publication that fails.
SharedDraftsKept ==
    [][\A k \in DOMAIN sharedDraft \ DOMAIN sharedDraft' :
          \/ SharedDelete(k)
          \/ k \in DOMAIN shared' /\ shared'[k] = sharedDraft[k]]_vars

\* After a cascade the active content of every branch has the new value of
\* every shared item at every item bound to it, and the other values it had.
CascadeDelivers ==
    [][SharedPublish("auto") =>
          \A b \in Live : snapshot_of(store'[b], branches'[b].active_version) =
              IF branches'[b].active_version = 0 THEN NotFound
              ELSE Overlay(ActiveContent(b),
                           [i \in Affected(b) |->
                               shared'[branches[b].shared_bindings[i]].value])]_vars

\* The secrets of its own that clients read from branch b.
PublishedSecrets(b) ==
    IF ActiveContent(b) = NotFound THEN {}
    ELSE {i \in DOMAIN ActiveContent(b) \cap DOMAIN structure.defs :
             structure.defs[i].ty = "secret" /\ ~structure.defs[i].shared}

\* The ciphertext of item i in a content that was read.
CipherIn(content, i) ==
    IF content # NotFound /\ i \in DOMAIN content THEN content[i] ELSE NotFound

\* The ciphertext a materialization of the draft of b owes its secret i.
OwedCipher(b, i) ==
    IF i \in DOMAIN drafts[b].values THEN drafts[b].values[i] ELSE ActiveContent(b)[i]

\* The steps that materialize the draft of b, and those that bring an older
\* content of it back.
Publishes(b) == \E rid \in RequestId, policy \in Policies : Publish(b, rid, policy)

PublishesGray(b) ==
    \E rid \in RequestId, policy \in Policies, rule \in GrayRule :
        GrayPublish(b, rule, rid, policy)

RestoresOlder(b) ==
    \/ \E rid \in RequestId, to \in 1..MaxVersion : Rollback(b, to, rid)
    \/ \E rid \in RequestId : GrayPromote(b, rid)

\* Clients cannot read a secret back and send it again, so its ciphertext stays
\* as it is until a draft replaces it: a publication and a gray publication give
\* a secret the drafted ciphertext or else the very one that is published, and
\* every other command but a rollback and a promotion, which bring an older
\* content back, leaves the published ones alone: structure publications that
\* remove the item and put it back, cascades and pruning included.
SecretsSurvivePublish ==
    [][\A b \in Live : branches'[b] # None =>
          \A i \in PublishedSecrets(b) :
              LET now == snapshot_of(store'[b], branches'[b].active_version)
              IN  /\ CipherIn(now, i) = OwedCipher(b, i) \/ ~Publishes(b)
                  /\ CipherIn(now, i) = ActiveContent(b)[i] \/ now = NotFound
                        \/ Publishes(b) \/ RestoresOlder(b)
                  /\ PublishesGray(b) =>
                        CipherIn(graySnaps'[b][branches'[b].gray_seq], i) = OwedCipher(b, i)]_vars
=============================================================================
