------------------------ MODULE BundleReleaseProofs ------------------------
(***************************************************************************)
(* Machine-checked properties of release bundles, for any traces, evidence *)
(* directories, kernels and environments, however many checks, edits,      *)
(* crashes and bundlings there are.                                        *)
(***************************************************************************)
EXTENDS BundleRelease, StableOrderProofs

(* What Lean accepted, and what it was not asked about. *)
Known(claims) ==
    RuntimeCertificates \cup {c \in LeanCertificates : ClaimOf(c) \in claims}

LookedAt(pairs) == {KernelChecked(q[1], q[2], k) : q \in pairs, k \in Kernels}

Unread == {NoFile, Garbled}
ClosedManifests == {m \in ManifestOf(Kernels) : Closed(m)}

WorkspaceInv ==
    /\ trace \in Traces /\ dir \in Directories /\ kernel \in Kernels
    /\ proofs \in [Hashes -> Projections \cup {NoFile}] /\ sidecar \in Projections \cup {NoFile}
    /\ out \in [projection: Projections \cup {NoFile}, theorems: Projections \cup {NoFile},
                certificate: Known(issued) \cup {NoFile}, result: Known(issued) \cup {NoFile}]

(* The result is written when the certificate is. *)
LeanInv ==
    lean # Idle =>
        /\ lean \in [pc: {"projection", "theorems", "certificate", "result"},
                     certificate: LookedAt(examined)]
        /\ lean.pc = "result" => ClaimOf(lean.certificate) \in issued

BundlerInv ==
    bundler # Idle =>
        /\ bundler \in [pc: Places \ {"idle"}, trace: Traces, certificate: Known(issued),
                        kernel: Kernels \cup {NoFile}, items: ItemLists, taken: Nat,
                        copied: SUBSET Kernels, draft: ManifestOf({NoFile})]
        /\ bundler.pc \in {"kernel", "manifest", "finish"} => bundler.kernel \in Kernels
        /\ bundler.pc = "listing" => bundler.draft.listing \in Listings

BundleInv ==
    /\ DOMAIN bundle = DOMAIN NoBundle
    /\ bundle.trace \in Traces \cup Unread
    /\ bundle.certificate \in Known(issued) \cup Unread
    /\ bundle.kernel \in Kernels \cup {Mixed} \cup Unread
    /\ bundle.manifest \in ClosedManifests \cup Unread

(* Lean accepts what was examined first.                                     *)
ClaimsInv ==
    /\ examined \subseteq Acceptables
    /\ issued \subseteq {ClaimOf(c) : c \in LookedAt(examined)} /\ published \subseteq issued

CountInv ==
    /\ spent \in [checks: 0..MaxChecks, bundles: 0..MaxBundles, edits: 0..MaxEdits]
    /\ quiet \in BOOLEAN /\ (quiet => spent.bundles > 0)

BaseInv ==
    WorkspaceInv /\ LeanInv /\ BundlerInv /\ BundleInv /\ ClaimsInv /\ CountInv

-----------------------------------------------------------------------------
(* What a certificate says.                                                  *)
LEMMA LeanCertificateShape ==
    ASSUME NEW c \in LeanCertificates
    PROVE  /\ \E t \in Traces, d \in Directories, k \in Kernels :
                 Acceptable(t, d) /\ c = KernelChecked(t, d, k)
           /\ c.class = "LeanKernelChecked" /\ c.trace \in Hashes
           /\ c.projection \in Projections /\ c.kernel \in Kernels
           /\ c.proof = c.projection /\ c.theorems = c.projection
  <1>1. PICK q \in Acceptables, k \in Kernels : c = KernelChecked(q[1], q[2], k)
    BY DEF LeanCertificates
  <1>2. q[1] \in Traces /\ q[2] \in Directories /\ Acceptable(q[1], q[2])
    BY DEF Acceptables
  <1>3. ProjectionOf(q[1], q[2], Mode) \in Projections
    BY DEF Projections
  <1>4. q[1].hash \in Hashes
    BY <1>2, BundleReleaseAssumption
  <1>5. /\ c.class = "LeanKernelChecked" /\ c.trace = q[1].hash
        /\ c.projection = ProjectionOf(q[1], q[2], Mode) /\ c.kernel = k
        /\ c.proof = c.projection /\ c.theorems = c.projection
    BY <1>1 DEF KernelChecked
  <1> QED BY <1>1, <1>2, <1>3, <1>4, <1>5

LEMMA RuntimeCertificateShape ==
    ASSUME NEW c \in RuntimeCertificates
    PROVE  /\ c.class = "RuntimeChecked" /\ c.trace \in Hashes /\ c.proof = NoFile
           /\ c.projection = NoFile /\ c.theorems = NoFile /\ c.kernel = NoFile
  <1>1. PICK t \in Traces : c = RuntimeChecked(t)
    BY DEF RuntimeCertificates
  <1> QED BY <1>1, BundleReleaseAssumption DEF RuntimeChecked

LEMMA KnownCertificates ==
    ASSUME NEW claims, NEW c \in Known(claims)
    PROVE  /\ c \in Certificates /\ c \notin Unread
           /\ c.class \in {"LeanKernelChecked", "RuntimeChecked"} /\ c.trace \in Hashes
           /\ c.proof \in Projections \cup {NoFile}
           /\ c.class = "LeanKernelChecked" => c \in LeanCertificates /\ ClaimOf(c) \in claims
  <1>1. c \in Certificates
    BY DEF Known, Certificates
  <1>2. c \notin Unread
    BY <1>1, SentinelAssumption DEF Unread
  <1>3. CASE c \in RuntimeCertificates
    BY <1>1, <1>2, <1>3, RuntimeCertificateShape
  <1>4. CASE c \in LeanCertificates /\ ClaimOf(c) \in claims
    BY <1>1, <1>2, <1>4, LeanCertificateShape
  <1> QED BY <1>3, <1>4 DEF Known

LEMMA LookedAtLeanCertificates ==
    ASSUME NEW pairs, pairs \subseteq Acceptables
    PROVE  LookedAt(pairs) \subseteq LeanCertificates
  BY DEF LookedAt, LeanCertificates

LEMMA KnownGrows ==
    ASSUME NEW S, NEW T, S \subseteq T
    PROVE  Known(S) \subseteq Known(T)
  BY DEF Known

(* What can be read is not taken for what cannot.                            *)
LEMMA NothingUnread ==
    /\ \A t \in Traces : t \notin Unread
    /\ \A k \in Kernels \cup {Mixed} : k \notin Unread
    /\ \A p \in Projections : p \notin Unread
    /\ \A m \in ManifestOf(Kernels) : m \notin Unread
    /\ \A l \in Listings : l \notin Unread
    /\ Mixed \notin Kernels
  BY SentinelAssumption, BundleReleaseAssumption DEF Unread

-----------------------------------------------------------------------------
(* Lists.                                                                    *)
LEMMA SmallestAndLargest ==
    ASSUME NEW n \in Nat, NEW S, S \subseteq 1..n, S # {}
    PROVE  /\ Min(S) \in S /\ \A y \in S : Min(S) <= y
           /\ Max(S) \in S
  <1>1. PICK m \in S : \A y \in S : m <= y
    <2>1. S \in SUBSET Nat
      OBVIOUS
    <2> QED BY <2>1, LeastElement
  <1>2. Min(S) \in S /\ \A y \in S : Min(S) <= y
    BY <1>1 DEF Min
  <1>3. PICK top \in S : \A y \in S : top >= y
    <2> DEFINE T == {n - x : x \in S}
    <2>1. T \in SUBSET Nat /\ T # {}
      <3>1. \A x \in S : x \in 1..n
        OBVIOUS
      <3>2. \A x \in S : n - x \in Nat
        BY <3>1
      <3> QED BY <3>2
    <2>2. PICK k \in T : \A y \in T : k <= y
      <3> HIDE DEF T
      <3> QED BY <2>1, LeastElement
    <2>3. PICK x \in S : k = n - x
      BY <2>2
    <2>4. \A y \in S : n - x <= n - y
      BY <2>2, <2>3
    <2>5. \A y \in S : y \in Int /\ x \in Int
      BY <2>3
    <2>6. \A y \in S : x >= y
      BY <2>4, <2>5
    <2> QED BY <2>6
  <1>4. Max(S) \in S
    BY <1>3 DEF Max
  <1> QED BY <1>2, <1>4

LEMMA Joined ==
    ASSUME NEW s, NEW u, IsSequence(s), IsSequence(u)
    PROVE  /\ IsSequence(s \o u) /\ ToSet(s \o u) = ToSet(s) \cup ToSet(u)
           /\ Len(s) \in Nat /\ Len(u) \in Nat /\ DOMAIN s = 1..Len(s)
           /\ Len(s \o u) = Len(s) + Len(u) /\ DOMAIN (s \o u) = 1..(Len(s) + Len(u))
           /\ \A i \in 1..(Len(s) + Len(u)) :
                 (s \o u)[i] = IF i <= Len(s) THEN s[i] ELSE u[i - Len(s)]
  <1> DEFINE S == ToSet(s) \cup ToSet(u)
             j == s \o u
  <1>1. s \in Seq(S) /\ u \in Seq(S)
    <2>1. s \in Seq(ToSet(s)) /\ u \in Seq(ToSet(u))
      BY DEF IsSequence
    <2>2. /\ Len(s) \in Nat /\ s \in [1..Len(s) -> ToSet(s)]
          /\ Len(u) \in Nat /\ u \in [1..Len(u) -> ToSet(u)]
      BY <2>1
    <2> HIDE DEF S
    <2>3. ToSet(s) \subseteq S /\ ToSet(u) \subseteq S
      BY DEF S
    <2>4. s \in [1..Len(s) -> S] /\ u \in [1..Len(u) -> S]
      BY <2>2, <2>3, SMTT(30)
    <2>5. (\E n \in Nat : s \in [1..n -> S]) /\ (\E n \in Nat : u \in [1..n -> S])
      BY <2>2, <2>4, Zenon
    <2> QED BY <2>5, SeqDef
  <1> HIDE DEF S
  <1>2. /\ j \in Seq(S) /\ Len(j) = Len(s) + Len(u)
        /\ \A i \in 1..(Len(s) + Len(u)) : j[i] = IF i <= Len(s) THEN s[i] ELSE u[i - Len(s)]
    BY <1>1, ConcatProperties
  <1> HIDE DEF j
  <1>3. /\ Len(s) \in Nat /\ Len(u) \in Nat /\ DOMAIN s = 1..Len(s) /\ DOMAIN u = 1..Len(u)
        /\ DOMAIN j = 1..(Len(s) + Len(u))
    BY <1>1, <1>2
  <1>4. ToSet(j) \subseteq ToSet(s) \cup ToSet(u)
    BY <1>2, <1>3, SMTT(30) DEF ToSet
  <1>5. ToSet(s) \subseteq ToSet(j)
    <2> SUFFICES ASSUME NEW i \in 1..Len(s) PROVE s[i] \in ToSet(j)
      BY <1>3 DEF ToSet
    <2>1. i \in DOMAIN j /\ j[i] = s[i]
      BY <1>2, <1>3
    <2> QED BY <2>1 DEF ToSet
  <1>6. ToSet(u) \subseteq ToSet(j)
    <2> SUFFICES ASSUME NEW i \in 1..Len(u) PROVE u[i] \in ToSet(j)
      BY <1>3 DEF ToSet
    <2>1. Len(s) + i \in DOMAIN j /\ j[Len(s) + i] = u[i]
      BY <1>2, <1>3
    <2> QED BY <2>1 DEF ToSet
  <1>7. j \in Seq(ToSet(j))
    <2>1. j \in [1..Len(j) -> ToSet(j)] /\ Len(j) \in Nat
      BY <1>2, <1>3, SMTT(30) DEF ToSet
    <2>2. \E n \in Nat : j \in [1..n -> ToSet(j)]
      BY <2>1, Zenon
    <2> QED BY <2>2, SeqDef
  <1> QED BY <1>2, <1>3, <1>4, <1>5, <1>6, <1>7 DEF IsSequence, j

LEMMA EachMade ==
    ASSUME NEW ids, IsSequence(ids), NEW made, made = [i \in DOMAIN ids |-> made[i]]
    PROVE  IsSequence(made) /\ DOMAIN made = 1..Len(ids) /\ Len(made) = Len(ids)
  <1>1. Len(ids) \in Nat /\ DOMAIN ids = 1..Len(ids)
    BY DEF IsSequence
  <1>2. DOMAIN made = 1..Len(ids) /\ made \in [1..Len(ids) -> ToSet(made)]
    BY <1>1 DEF ToSet
  <1>3. made \in Seq(ToSet(made))
    <2>1. \E n \in Nat : made \in [1..n -> ToSet(made)]
      BY <1>1, <1>2
    <2> QED BY <2>1, SeqDef
  <1>4. Len(made) = Len(ids)
    BY <1>1, <1>2, <1>3
  <1> QED BY <1>2, <1>3, <1>4 DEF IsSequence

(* Looking for a file of a kind and id finds one, if one is there.           *)
LEMMA FoundWith ==
    ASSUME NEW files, IsSequence(files), NEW kind, NEW id \in Ids(files, kind)
    PROVE  \A f \in {FirstWith(files, kind, id), LastWith(files, kind, id)} :
              f \in ToSet(files) /\ f.kind = kind /\ f.id = id
  <1> DEFINE M == Matching(files, kind, id)
  <1>1. Len(files) \in Nat /\ DOMAIN files = 1..Len(files)
    BY DEF IsSequence
  <1>2. M \subseteq 1..Len(files) /\ M # {}
    <2>1. PICK f \in ToSet(files) : f.kind = kind /\ f.id = id
      BY DEF Ids
    <2>2. PICK i \in DOMAIN files : files[i] = f
      BY DEF ToSet
    <2>3. i \in M
      BY <2>1, <2>2 DEF Matching
    <2> QED BY <1>1, <2>3 DEF Matching
  <1>3. Min(M) \in M /\ Max(M) \in M
    <2> HIDE DEF M
    <2> QED BY <1>1, <1>2, SmallestAndLargest
  <1>4. \A i \in M : files[i] \in ToSet(files) /\ files[i].kind = kind /\ files[i].id = id
    BY DEF Matching, ToSet
  <1> QED BY <1>3, <1>4 DEF FirstWith, LastWith

(* The contract ids that events name, in their order.                        *)
NamedIds(t, d) == Arranged(IdOrder, [i \in DOMAIN IdOrder |-> i], NamedPlaces(t, d))

LEMMA NamedIdsListed ==
    ASSUME NEW t, NEW d
    PROVE  IsSequence(NamedIds(t, d)) /\ ToSet(NamedIds(t, d)) = {IdOrder[i] : i \in NamedPlaces(t, d)}
  <1> DEFINE keys == [i \in DOMAIN IdOrder |-> i]
             P == NamedPlaces(t, d)
             named == NamedIds(t, d)
  <1>1. Len(IdOrder) \in Nat /\ DOMAIN IdOrder = 1..Len(IdOrder)
    BY BundleReleaseAssumption DEF IsSequence
  <1>2. P \subseteq 1..Len(IdOrder)
    BY <1>1 DEF NamedPlaces
  <1>3. IsFiniteSet(P) /\ P \in SUBSET Int /\ \A i \in P : keys[i] \in Int
    <2>1. IsFiniteSet(1..Len(IdOrder))
      BY <1>1, FS_Interval
    <2>2. IsFiniteSet(P)
      BY <1>2, <2>1, FS_Subset
    <2> QED BY <1>1, <1>2, <2>2
  <1>4. named = Arranged(IdOrder, keys, P)
    BY DEF NamedIds
  <1> HIDE DEF keys, P, named
  <1>5. /\ Cardinality(P) \in Nat /\ DOMAIN named = 1..Cardinality(P)
        /\ \A k \in 1..Cardinality(P) : \E j \in P : named[k] = IdOrder[j]
        /\ \A j \in P : \E k \in 1..Cardinality(P) : named[k] = IdOrder[j]
    <2>1. \A i \in P : keys[i] \in Int
      BY <1>3
    <2>2. P \in SUBSET Int
      BY <1>3
    <2>3. IsFiniteSet(P)
      BY <1>3
    <2>4. PICK A : A = Arranged(IdOrder, keys, P)
      OBVIOUS
    <2>5. Cardinality(P) \in Nat /\ DOMAIN A = 1..Cardinality(P)
      BY <2>1, <2>2, <2>3, <2>4, ArrangedIsPermutation
    <2>6. \A k \in 1..Cardinality(P) : \E j \in P : A[k] = IdOrder[j]
      BY <2>1, <2>2, <2>3, <2>4, ArrangedIsPermutation
    <2>7. \A j \in P : \E k \in 1..Cardinality(P) : A[k] = IdOrder[j]
      BY <2>1, <2>2, <2>3, <2>4, ArrangedIsPermutation
    <2> QED BY <1>4, <2>4, <2>5, <2>6, <2>7
  <1>6. ToSet(named) = {IdOrder[i] : i \in P}
    BY <1>5, SMTT(30) DEF ToSet
  <1>7. IsSequence(named)
    <2>1. named = [k \in 1..Cardinality(P) |-> named[k]]
      BY <1>4 DEF Arranged
    <2>2. named \in [1..Cardinality(P) -> ToSet(named)]
      BY <1>5, <2>1 DEF ToSet
    <2>3. \E n \in Nat : named \in [1..n -> ToSet(named)]
      BY <1>5, <2>2
    <2> QED BY <2>3, SeqDef DEF IsSequence
  <1> QED BY <1>6, <1>7 DEF named, P

(* What is selected is a list.                                               *)
LEMMA SelectedLists ==
    ASSUME NEW t \in Traces, NEW d \in Directories
    PROVE  LET sel == Selection(t, d)
           IN  IsSequence(SelectedIds(sel, "handoffs")) /\ IsSequence(ContractIds(t, d, sel))
  <1> DEFINE sel == Selection(t, d)
  <1>1. IsSelection(sel)
    BY BundleReleaseAssumption DEF Selection
  <1>2. IsSequence(<<>>)
    BY DEF IsSequence, ToSet
  <1>3. ContractIds(t, d, sel) = IF Selects(sel, "contracts") THEN sel.contracts ELSE NamedIds(t, d)
    BY DEF ContractIds, NamedIds
  <1> HIDE DEF sel
  <1>4. IsSequence(SelectedIds(sel, "handoffs")) /\ IsSequence(ContractIds(t, d, sel))
    BY <1>1, <1>2, <1>3, NamedIdsListed DEF IsSelection, SelectedIds
  <1> QED BY <1>4 DEF sel

LEMMA OneFile ==
    ASSUME NEW f
    PROVE  IsSequence(<<f>>) /\ ToSet(<<f>>) = {f} /\ Len(<<f>>) = 1 /\ <<f>>[1] = f
           /\ IsSequence(<<>>) /\ ToSet(<<>>) = {} /\ Len(<<>>) = 0
  <1>1. ToSet(<<f>>) = {f} /\ ToSet(<<>>) = {} /\ Len(<<f>>) = 1 /\ <<f>>[1] = f /\ Len(<<>>) = 0
    BY DEF ToSet
  <1>2. <<f>> \in Seq({f}) /\ <<>> \in Seq({})
    OBVIOUS
  <1> QED BY <1>1, <1>2 DEF IsSequence

(* What evidence resolves to, and the list of what a bundle takes along.     *)
LEMMA ResolvedParts ==
    ASSUME NEW t, NEW d
    PROVE  LET sel == Selection(t, d)
               hs == SelectedIds(sel, "handoffs")
               cs == ContractIds(t, d, sel)
           IN  /\ Resolved(t, d).handoffs = [i \in DOMAIN hs |-> ResolvedHandoff(d, hs[i])]
               /\ Resolved(t, d).contracts = [i \in DOMAIN cs |-> ResolvedContract(d, cs[i])]
               /\ Resolved(t, d).frame =
                    IF Selects(sel, "frame") THEN ResolvedFrame(d, sel.frame) ELSE NoFrame
  BY DEF Resolved, Mapped

FrameItems(t, d) ==
    LET r == Resolved(t, d) IN IF r.frame = NoFrame THEN <<>> ELSE <<r.frame>>

LEMMA FourParts ==
    ASSUME NEW t \in Traces, NEW d \in Directories
    PROVE  LET r == Resolved(t, d)
           IN  /\ Items(t, d) = r.handoffs \o r.contracts \o FrameItems(t, d) \o <<PolicyItem(t)>>
               /\ IsSequence(r.handoffs) /\ IsSequence(r.contracts)
               /\ IsSequence(FrameItems(t, d)) /\ IsSequence(<<PolicyItem(t)>>)
               /\ IsSequence(Items(t, d))
  <1> DEFINE sel == Selection(t, d)
             hs == SelectedIds(sel, "handoffs")
             cs == ContractIds(t, d, sel)
             H == Resolved(t, d).handoffs
             C == Resolved(t, d).contracts
             F == FrameItems(t, d)
             P == <<PolicyItem(t)>>
  <1>1. IsSequence(hs) /\ IsSequence(cs)
    BY SelectedLists
  <1>2. /\ H = [i \in DOMAIN hs |-> ResolvedHandoff(d, hs[i])]
        /\ C = [i \in DOMAIN cs |-> ResolvedContract(d, cs[i])]
    BY ResolvedParts
  <1>3. IsSequence(F) /\ IsSequence(P)
    BY OneFile DEF FrameItems
  <1>4. Items(t, d) = H \o C \o F \o P
    BY DEF Items, FrameItems
  <1> HIDE DEF hs, cs, H, C, F, P
  <1>5. IsSequence(H)
    <2>1. H = [i \in DOMAIN hs |-> H[i]]
      BY <1>2
    <2> QED BY <1>1, <2>1, EachMade
  <1>6. IsSequence(C)
    <2>1. C = [i \in DOMAIN cs |-> C[i]]
      BY <1>2
    <2> QED BY <1>1, <2>1, EachMade
  <1>7. IsSequence(H \o C)
    BY <1>5, <1>6, Joined
  <1>8. IsSequence((H \o C) \o F)
    BY <1>3, <1>7, Joined
  <1>9. IsSequence(((H \o C) \o F) \o P)
    BY <1>3, <1>8, Joined
  <1> QED BY <1>3, <1>4, <1>5, <1>6, <1>9 DEF H, C, F, P

LEMMA ItemListsAreLists ==
    ASSUME NEW items \in ItemLists
    PROVE  IsSequence(items) /\ DOMAIN items = 1..Len(items) /\ Len(items) \in Nat
  <1>1. IsSequence(items)
    <2>1. CASE items = <<>>
      BY <2>1, OneFile
    <2>2. CASE \E q \in Resolvables : items = Items(q[1], q[2])
      <3>1. PICK q \in Resolvables : items = Items(q[1], q[2])
        BY <2>2
      <3>2. q[1] \in Traces /\ q[2] \in Directories
        BY DEF Resolvables
      <3> QED BY <3>1, <3>2, FourParts
    <2> QED BY <2>1, <2>2 DEF ItemLists
  <1> QED BY <1>1 DEF IsSequence

-----------------------------------------------------------------------------
(* The steps, one by one.                                                    *)
LEMMA BaseInitially ==
    ASSUME Init
    PROVE  BaseInv
  <1>1. trace \in Traces /\ dir \in Directories /\ kernel \in Kernels
    <2>1. PICK s \in Starts : trace = s[1] /\ dir = s[2] /\ kernel = s[3]
      BY DEF Init
    <2>2. s \in Traces \X Directories \X Kernels
      BY BundleReleaseAssumption
    <2> QED BY <2>1, <2>2
  <1>2. WorkspaceInv
    BY <1>1 DEF Init, WorkspaceInv, NoOutput
  <1>3. LeanInv /\ BundlerInv /\ ClaimsInv
    BY DEF Init, LeanInv, BundlerInv, ClaimsInv
  <1>4. BundleInv
    BY DEF Init, BundleInv, NoBundle, Unread
  <1>5. CountInv
    <2>1. MaxChecks \in Nat /\ MaxBundles \in Nat /\ MaxEdits \in Nat
      BY BundleReleaseAssumption
    <2>2. spent \in [checks: 0..MaxChecks, bundles: 0..MaxBundles, edits: 0..MaxEdits]
      BY <2>1 DEF Init
    <2>3. quiet \in BOOLEAN /\ ~quiet
      BY DEF Init
    <2> QED BY <2>2, <2>3 DEF CountInv
  <1> QED BY <1>2, <1>3, <1>4, <1>5 DEF BaseInv

LEMMA SpendCounts ==
    ASSUME CountInv, NEW what \in {"checks", "bundles", "edits"}, NEW max \in Nat,
           Spend(what, max),
           max = CASE what = "checks" -> MaxChecks [] what = "bundles" -> MaxBundles
                   [] OTHER -> MaxEdits
    PROVE  /\ spent' \in [checks: 0..MaxChecks, bundles: 0..MaxBundles, edits: 0..MaxEdits]
           /\ spent'.bundles >= spent.bundles
           /\ what = "bundles" => spent'.bundles > 0
  <1>1. MaxChecks \in Nat /\ MaxBundles \in Nat /\ MaxEdits \in Nat
    BY BundleReleaseAssumption
  <1>2. /\ spent \in [checks: 0..MaxChecks, bundles: 0..MaxBundles, edits: 0..MaxEdits]
        /\ spent[what] < max /\ spent' = [spent EXCEPT ![what] = @ + 1]
    BY DEF CountInv, Spend
  <1>3. CASE what = "checks"
    BY <1>1, <1>2, <1>3
  <1>4. CASE what = "bundles"
    BY <1>1, <1>2, <1>4
  <1>5. CASE what = "edits"
    BY <1>1, <1>2, <1>5
  <1> QED BY <1>3, <1>4, <1>5

LEMMA BaseEditInputs ==
    ASSUME BaseInv, EditInputs
    PROVE  BaseInv'
  <1> USE DEF BaseInv, EditInputs
  <1>1. WorkspaceInv'
    BY DEF WorkspaceInv
  <1>2. LeanInv' /\ BundlerInv' /\ BundleInv' /\ ClaimsInv'
    BY DEF LeanInv, BundlerInv, BundleInv, ClaimsInv
  <1>3. CountInv'
    <2>1. MaxEdits \in Nat
      BY BundleReleaseAssumption
    <2>2. /\ spent' \in [checks: 0..MaxChecks, bundles: 0..MaxBundles, edits: 0..MaxEdits]
          /\ spent'.bundles >= spent.bundles
      BY <2>1, SpendCounts
    <2> QED BY <2>2, BundleReleaseAssumption DEF CountInv, WorkspaceChanges
  <1> QED BY <1>1, <1>2, <1>3

LEMMA BaseCheckWithLean ==
    ASSUME BaseInv, CheckWithLean
    PROVE  BaseInv'
  <1> USE DEF BaseInv, CheckWithLean
  <1> DEFINE c == KernelChecked(trace, dir, kernel)
  <1>1. c \in LeanCertificates
    <2>1. <<trace, dir>> \in Acceptables
      BY DEF Acceptables, WorkspaceInv
    <2>2. \A q \in Acceptables, k \in Kernels : KernelChecked(q[1], q[2], k) \in LeanCertificates
      BY DEF LeanCertificates
    <2>3. KernelChecked(<<trace, dir>>[1], <<trace, dir>>[2], kernel) \in LeanCertificates
      BY <2>1, <2>2 DEF WorkspaceInv
    <2> QED BY <2>3
  <1>2. /\ c.proof \in Projections /\ c.projection \in Projections
        /\ lean' = [pc |-> "projection", certificate |-> c]
    BY <1>1, LeanCertificateShape
  <1> HIDE DEF c
  <1>3. WorkspaceInv'
    <2>1. lean'.certificate = c
      BY <1>2
    <2>2. proofs' \in [Hashes -> Projections \cup {NoFile}] /\ sidecar' \in Projections \cup {NoFile}
      BY <1>2, <2>1 DEF WorkspaceInv
    <2>3. UNCHANGED <<trace, dir, kernel, out, issued>>
      BY DEF inputs
    <2> QED BY <2>2, <2>3 DEF WorkspaceInv
  <1>4. LeanInv' /\ examined' \subseteq Acceptables
    <2>1. examined' = examined \cup {<<trace, dir>>} /\ <<trace, dir>> \in Acceptables
      BY DEF Acceptables, WorkspaceInv
    <2>2. KernelChecked(<<trace, dir>>[1], <<trace, dir>>[2], kernel) \in LookedAt(examined')
      BY <2>1 DEF LookedAt, WorkspaceInv
    <2>3. c \in LookedAt(examined')
      BY <2>2 DEF c
    <2> QED BY <1>2, <2>1, <2>3 DEF LeanInv, ClaimsInv
  <1>5. BundlerInv' /\ BundleInv' /\ ClaimsInv'
    <2>1. LookedAt(examined) \subseteq LookedAt(examined')
      BY DEF LookedAt
    <2>2. issued' = issued /\ published' = published
      OBVIOUS
    <2>3. issued' \subseteq {ClaimOf(x) : x \in LookedAt(examined')}
      BY <2>1, <2>2 DEF ClaimsInv
    <2> QED BY <1>4, <2>2, <2>3 DEF BundlerInv, BundleInv, ClaimsInv
  <1>6. CountInv'
    <2>1. MaxChecks \in Nat
      BY BundleReleaseAssumption
    <2>2. /\ spent' \in [checks: 0..MaxChecks, bundles: 0..MaxBundles, edits: 0..MaxEdits]
          /\ spent'.bundles >= spent.bundles
      BY <2>1, SpendCounts
    <2> QED BY <2>2, BundleReleaseAssumption DEF CountInv, WorkspaceChanges
  <1> QED BY <1>3, <1>4, <1>5, <1>6

LEMMA BaseCheckAtRuntime ==
    ASSUME BaseInv, CheckAtRuntime
    PROVE  BaseInv'
  <1> USE DEF BaseInv, CheckAtRuntime
  <1> DEFINE c == RuntimeChecked(trace)
  <1>1. c \in Known(issued)
    BY DEF Known, RuntimeCertificates, WorkspaceInv
  <1> HIDE DEF c
  <1>2. WorkspaceInv'
    <2>1. out' = [out EXCEPT !.certificate = c, !.result = c]
      BY DEF c
    <2> QED BY <1>1, <2>1 DEF WorkspaceInv, inputs
  <1>3. LeanInv' /\ BundlerInv' /\ BundleInv' /\ ClaimsInv'
    BY DEF LeanInv, BundlerInv, BundleInv, ClaimsInv
  <1>4. CountInv'
    <2>1. MaxChecks \in Nat
      BY BundleReleaseAssumption
    <2>2. /\ spent' \in [checks: 0..MaxChecks, bundles: 0..MaxBundles, edits: 0..MaxEdits]
          /\ spent'.bundles >= spent.bundles
      BY <2>1, SpendCounts
    <2> QED BY <2>2, BundleReleaseAssumption DEF CountInv, WorkspaceChanges
  <1> QED BY <1>2, <1>3, <1>4

(* The certificate is one that Lean accepted from the moment it is written,  *)
(* and so is every copy of it.                                               *)
LEMMA BaseSave ==
    ASSUME BaseInv, Save
    PROVE  BaseInv'
  <1> USE DEF BaseInv, Save
  <1>1. issued \subseteq issued' /\ Known(issued) \subseteq Known(issued')
    BY KnownGrows
  <1>2. /\ lean \in [pc: {"projection", "theorems", "certificate", "result"},
                     certificate: LookedAt(examined)]
        /\ lean.certificate \in LeanCertificates /\ examined' = examined
        /\ lean.pc = "result" => ClaimOf(lean.certificate) \in issued
        /\ lean.certificate.projection \in Projections
    BY LeanCertificateShape, LookedAtLeanCertificates DEF LeanInv, ClaimsInv
  <1>3. lean.pc \in {"certificate", "result"} => lean.certificate \in Known(issued')
    BY <1>2 DEF Known
  <1>4. WorkspaceInv'
    <2>1. CASE lean.pc \in {"projection", "theorems"}
      BY <1>1, <1>2, <2>1 DEF WorkspaceInv, inputs
    <2>2. CASE lean.pc \in {"certificate", "result"}
      BY <1>1, <1>2, <1>3, <2>2 DEF WorkspaceInv, inputs
    <2> QED BY <1>2, <2>1, <2>2
  <1>5. LeanInv'
    BY <1>2 DEF LeanInv, AfterSaving, Idle
  <1>6. BundlerInv' /\ BundleInv'
    BY <1>1 DEF BundlerInv, BundleInv
  <1>7. ClaimsInv'
    BY <1>2 DEF ClaimsInv
  <1>8. CountInv'
    BY DEF CountInv, WorkspaceChanges
  <1> QED BY <1>4, <1>5, <1>6, <1>7, <1>8

LEMMA BaseLeanFailsOrDies ==
    ASSUME BaseInv, LeanFailsOrDies
    PROVE  BaseInv'
  BY DEF BaseInv, LeanFailsOrDies, WorkspaceInv, LeanInv, BundlerInv, BundleInv, ClaimsInv,
         CountInv, workspace, inputs, ghosts

-----------------------------------------------------------------------------
(* The steps of the bundler.                                                 *)
LEMMA BaseLoad ==
    ASSUME BaseInv, Load
    PROVE  BaseInv'
  <1> USE DEF BaseInv, Load
  <1> DEFINE c == out.certificate
             draft == [trace |-> c.trace, class |-> c.class, proofHash |-> c.proof, proof |-> NoFile,
                       result |-> NoFile, projection |-> NoFile, theorems |-> NoFile,
                       listing |-> NoFile, kernel |-> NoFile]
  <1>1. c \in Known(issued)
    BY DEF WorkspaceInv, Unreadable
  <1>2. draft \in ManifestOf({NoFile})
    <2> HIDE DEF c
    <2>1. /\ c.class \in {"LeanKernelChecked", "RuntimeChecked"} /\ c.trace \in Hashes
          /\ c.proof \in Projections \cup {NoFile}
      BY <1>1, KnownCertificates
    <2> QED BY <2>1 DEF ManifestOf
  <1>3. BundlerInv'
    <2>1. bundler' = [pc |-> "trace", trace |-> trace, certificate |-> c, kernel |-> NoFile,
                      items |-> <<>>, taken |-> 0, copied |-> {}, draft |-> draft]
      OBVIOUS
    <2> HIDE DEF c, draft
    <2>2. trace \in Traces /\ issued' = issued
      BY DEF WorkspaceInv
    <2>3. <<>> \in ItemLists
      BY DEF ItemLists
    <2> QED BY <1>1, <1>2, <2>1, <2>2, <2>3 DEF BundlerInv, Places
  <1>4. WorkspaceInv' /\ LeanInv' /\ BundleInv' /\ ClaimsInv'
    BY DEF WorkspaceInv, LeanInv, BundleInv, ClaimsInv, workspace, inputs
  <1>5. CountInv'
    <2>1. MaxBundles \in Nat
      BY BundleReleaseAssumption
    <2>2. /\ spent' \in [checks: 0..MaxChecks, bundles: 0..MaxBundles, edits: 0..MaxEdits]
          /\ spent'.bundles > 0
      BY <2>1, SpendCounts
    <2>3. quiet' \in BOOLEAN
      BY DEF Settled, AgreesOnIds
    <2> QED BY <2>2, <2>3 DEF CountInv
  <1> QED BY <1>3, <1>4, <1>5

(* What a step that only moves the bundler and writes the bundle leaves be.  *)
LEMMA BundlerLeaves ==
    ASSUME BaseInv, BundlerOnly, quiet' \in {quiet, FALSE}
    PROVE  /\ WorkspaceInv' /\ LeanInv' /\ ClaimsInv' /\ CountInv' /\ issued' = issued
  <1>1. WorkspaceInv' /\ LeanInv' /\ ClaimsInv' /\ issued' = issued
    BY DEF BaseInv, BundlerOnly, WorkspaceInv, LeanInv, ClaimsInv, workspace, inputs
  <1>2. CountInv'
    <2>1. CASE quiet' = quiet
      BY <2>1 DEF BaseInv, BundlerOnly, CountInv
    <2>2. CASE quiet' = FALSE
      <3>1. spent' = spent /\ ~quiet' /\ quiet' \in BOOLEAN
        BY <2>2 DEF BundlerOnly
      <3> QED BY <3>1 DEF BaseInv, CountInv
    <2> QED BY <2>1, <2>2
  <1> QED BY <1>1, <1>2

LEMMA BaseAbort ==
    ASSUME BaseInv, Abort, BundlerOnly
    PROVE  BaseInv'
  <1>1. WorkspaceInv' /\ LeanInv' /\ ClaimsInv' /\ CountInv' /\ issued' = issued
    BY BundlerLeaves DEF Abort
  <1>2. BundlerInv' /\ BundleInv'
    BY <1>1 DEF BaseInv, Abort, BundlerInv, BundleInv
  <1> QED BY <1>1, <1>2 DEF BaseInv

(* A step of the bundler to another place.                                   *)
LEMMA BundlerMoves ==
    ASSUME BaseInv, bundler # Idle, issued' = issued, NEW place \in Places \ {"idle"}, Then(place),
           place # "listing", place \in {"kernel", "manifest", "finish"} => bundler.kernel \in Kernels
    PROVE  BundlerInv'
  <1>1. bundler \in [pc: Places \ {"idle"}, trace: Traces, certificate: Known(issued),
                     kernel: Kernels \cup {NoFile}, items: ItemLists, taken: Nat,
                     copied: SUBSET Kernels, draft: ManifestOf({NoFile})]
    BY DEF BaseInv, BundlerInv
  <1>2. bundler' = [bundler EXCEPT !.pc = place]
    BY DEF Then
  <1> QED BY <1>1, <1>2 DEF BundlerInv

LEMMA BaseCopyTrace ==
    ASSUME BaseInv, bundler # Idle, CopyTrace
    PROVE  BaseInv'
  <1> USE DEF CopyTrace
  <1>1. WorkspaceInv' /\ LeanInv' /\ ClaimsInv' /\ CountInv' /\ issued' = issued
    BY BundlerLeaves
  <1>2. BundlerInv'
    BY <1>1, BundlerMoves DEF Places
  <1>3. BundleInv'
    BY <1>1 DEF BaseInv, BundleInv, WorkspaceInv, NoBundle
  <1> QED BY <1>1, <1>2, <1>3 DEF BaseInv

LEMMA BaseCopyCertificate ==
    ASSUME BaseInv, bundler # Idle, CopyCertificate
    PROVE  BaseInv'
  <1> USE DEF CopyCertificate
  <1>1. WorkspaceInv' /\ LeanInv' /\ ClaimsInv' /\ CountInv' /\ issued' = issued
    BY BundlerLeaves
  <1>2. BundlerInv'
    BY <1>1, BundlerMoves DEF Places
  <1>3. BundleInv'
    <2>1. out.certificate \in Known(issued) \cup Unread
      BY DEF BaseInv, WorkspaceInv, Unread
    <2> QED BY <1>1, <2>1 DEF BaseInv, BundleInv, NoBundle
  <1> QED BY <1>1, <1>2, <1>3 DEF BaseInv

LEMMA DraftUpdated ==
    ASSUME NEW draft \in ManifestOf({NoFile}), NEW source,
           NEW place \in {"result", "proof", "projection", "theorems", "listing"},
           \/ place = "result" /\ source \in Certificates
           \/ place = "listing" /\ source \in Listings
           \/ place \notin {"result", "listing"} /\ source \in Projections
    PROVE  [draft EXCEPT ![place] = source] \in ManifestOf({NoFile})
  <1>1. CASE place = "result"
    BY <1>1 DEF ManifestOf
  <1>2. CASE place = "proof"
    BY <1>2 DEF ManifestOf
  <1>3. CASE place = "projection"
    BY <1>3 DEF ManifestOf
  <1>4. CASE place = "theorems"
    BY <1>4 DEF ManifestOf
  <1>5. CASE place = "listing"
    BY <1>5 DEF ManifestOf
  <1> QED BY <1>1, <1>2, <1>3, <1>4, <1>5

LEMMA BaseCopyHashed ==
    ASSUME BaseInv, bundler # Idle,
           NEW place \in {"result", "proof", "projection", "theorems"}, NEW source,
           NEW next \in {"proof", "projection", "theorems", "evidence"},
           CopyHashed(place, next, source),
           \/ source = NoFile
           \/ place = "result" /\ source \in Certificates
           \/ place # "result" /\ source \in Projections
    PROVE  BaseInv'
  <1> USE DEF CopyHashed
  <1>1. WorkspaceInv' /\ LeanInv' /\ ClaimsInv' /\ CountInv' /\ issued' = issued
    BY BundlerLeaves
  <1>2. CASE source = NoFile
    <2>1. BundlerInv'
      BY <1>1, <1>2, BundlerMoves DEF Places
    <2>2. BundleInv'
      BY <1>1, <1>2 DEF BaseInv, BundleInv
    <2> QED BY <1>1, <2>1, <2>2 DEF BaseInv
  <1>3. CASE source # NoFile
    <2>1. bundler \in [pc: Places \ {"idle"}, trace: Traces, certificate: Known(issued),
                       kernel: Kernels \cup {NoFile}, items: ItemLists, taken: Nat,
                       copied: SUBSET Kernels, draft: ManifestOf({NoFile})]
      BY DEF BaseInv, BundlerInv
    <2>2. [bundler.draft EXCEPT ![place] = source] \in ManifestOf({NoFile})
      BY <1>3, <2>1, DraftUpdated
    <2>3. bundler' = [bundler EXCEPT !.pc = next,
                                     !.draft = [bundler.draft EXCEPT ![place] = source]]
      BY <1>3, <2>1
    <2> DEFINE d == [bundler.draft EXCEPT ![place] = source]
    <2> HIDE DEF d
    <2>4. BundlerInv'
      <3>1. next \in Places \ {"idle"} /\ next \notin {"kernel", "manifest", "finish"}
        BY DEF Places
      <3>2. d \in ManifestOf({NoFile}) /\ bundler' = [bundler EXCEPT !.pc = next, !.draft = d]
        BY <2>2, <2>3 DEF d
      <3>3. bundler' \in [pc: Places \ {"idle"}, trace: Traces, certificate: Known(issued),
                          kernel: Kernels \cup {NoFile}, items: ItemLists, taken: Nat,
                          copied: SUBSET Kernels, draft: ManifestOf({NoFile})]
            /\ bundler'.pc = next
        BY <2>1, <3>1, <3>2
      <3> QED BY <1>1, <3>1, <3>3 DEF BundlerInv
    <2>5. BundleInv'
      <3>1. bundle' = [bundle EXCEPT ![place] = source]
        BY <1>3
      <3> QED BY <1>1, <3>1 DEF BaseInv, BundleInv
    <2> QED BY <1>1, <2>4, <2>5 DEF BaseInv
  <1> QED BY <1>2, <1>3

LEMMA BaseCopies ==
    ASSUME BaseInv, bundler # Idle, CopyResult \/ CopyProof \/ CopyProjection \/ CopyTheorems
    PROVE  BaseInv'
  <1>1. /\ bundler \in [pc: Places \ {"idle"}, trace: Traces, certificate: Known(issued),
                       kernel: Kernels \cup {NoFile}, items: ItemLists, taken: Nat,
                       copied: SUBSET Kernels, draft: ManifestOf({NoFile})]
        /\ out \in [projection: Projections \cup {NoFile}, theorems: Projections \cup {NoFile},
                    certificate: Known(issued) \cup {NoFile}, result: Known(issued) \cup {NoFile}]
        /\ sidecar \in Projections \cup {NoFile}
    BY DEF BaseInv, BundlerInv, WorkspaceInv
  <1>2. CASE CopyResult
    <2>1. out.result = NoFile \/ out.result \in Certificates
      BY <1>1, KnownCertificates
    <2> QED BY <1>2, <2>1, BaseCopyHashed DEF CopyResult
  <1>3. CASE CopyProof
    <2> DEFINE found == proofs[bundler.certificate.trace]
    <2>1. found \in Projections \cup {NoFile}
      <3>1. bundler.certificate.trace \in Hashes
        BY <1>1, KnownCertificates
      <3> QED BY <3>1 DEF BaseInv, WorkspaceInv
    <2> HIDE DEF found
    <2>2. CASE Abort /\ BundlerOnly
      BY <2>2, BaseAbort
    <2>3. CASE \E f \in {found, NoFile} : CopyHashed("proof", "projection", f)
      BY <2>1, <2>3, BaseCopyHashed
    <2> QED BY <1>3, <2>2, <2>3 DEF CopyProof, found
  <1>4. ASSUME NEW saved \in Projections \cup {NoFile}
        PROVE  Companion(saved) = NoFile \/ Companion(saved) \in Projections
    BY <1>1 DEF Companion
  <1>5. CASE CopyProjection
    BY <1>1, <1>4, <1>5, BaseCopyHashed DEF CopyProjection
  <1>6. CASE CopyTheorems
    BY <1>1, <1>4, <1>6, BaseCopyHashed DEF CopyTheorems
  <1> QED BY <1>2, <1>3, <1>5, <1>6

LEMMA BaseResolveEvidence ==
    ASSUME BaseInv, bundler # Idle, ResolveEvidence
    PROVE  BaseInv'
  <1> DEFINE list == IF ResolutionErrors(bundler.trace, dir, Mode) = {}
                     THEN Items(bundler.trace, dir) ELSE <<>>
             d == [bundler.draft EXCEPT !["listing"] = <<>>]
  <1>1. bundler \in [pc: Places \ {"idle"}, trace: Traces, certificate: Known(issued),
                     kernel: Kernels \cup {NoFile}, items: ItemLists, taken: Nat,
                     copied: SUBSET Kernels, draft: ManifestOf({NoFile})]
    BY DEF BaseInv, BundlerInv
  <1>2. list \in ItemLists
    <2>1. CASE ResolutionErrors(bundler.trace, dir, Mode) = {}
      <3>1. <<bundler.trace, dir>> \in Resolvables
        BY <1>1, <2>1 DEF BaseInv, WorkspaceInv, Resolvables
      <3>2. \A q \in Resolvables : Items(q[1], q[2]) \in ItemLists
        BY DEF ItemLists
      <3>3. Items(<<bundler.trace, dir>>[1], <<bundler.trace, dir>>[2]) \in ItemLists
        BY <3>1, <3>2
      <3> QED BY <2>1, <3>3
    <2>2. CASE ResolutionErrors(bundler.trace, dir, Mode) # {}
      BY <2>2 DEF ItemLists
    <2> QED BY <2>1, <2>2
  <1>3. /\ bundler' = [bundler EXCEPT !.pc = "listing", !.draft.listing = <<>>, !.items = list]
        /\ UNCHANGED <<bundle, quiet>> /\ BundlerOnly
    BY DEF ResolveEvidence
  <1> HIDE DEF list
  <1>4. d \in ManifestOf({NoFile}) /\ d.listing = <<>> /\ <<>> \in Listings
    <2>1. <<>> \in Listings
      BY DEF Listings
    <2>2. d \in ManifestOf({NoFile})
      BY <1>1, <2>1, DraftUpdated
    <2>3. bundler.draft \in ManifestOf({NoFile})
      BY <1>1
    <2>4. d.listing = <<>>
      BY <2>3 DEF ManifestOf
    <2> QED BY <2>1, <2>2, <2>4
  <1>5. bundler' = [bundler EXCEPT !.pc = "listing", !.draft = d, !.items = list]
    BY <1>1, <1>3
  <1> HIDE DEF d
  <1>6. WorkspaceInv' /\ LeanInv' /\ ClaimsInv' /\ CountInv' /\ issued' = issued
    BY <1>3, BundlerLeaves
  <1>7. BundlerInv'
    <2>1. "listing" \in Places \ {"idle"}
      BY DEF Places
    <2> QED BY <1>1, <1>2, <1>4, <1>5, <1>6, <2>1 DEF BundlerInv
  <1>8. BundleInv'
    BY <1>3, <1>6 DEF BaseInv, BundleInv
  <1> QED BY <1>6, <1>7, <1>8 DEF BaseInv

LEMMA BaseCopyEvidence ==
    ASSUME BaseInv, bundler # Idle, CopyEvidence
    PROVE  BaseInv'
  <1> DEFINE item == bundler.items[bundler.taken + 1]
             list == Append(bundler.draft.listing, Copied(item, dir))
             d == [bundler.draft EXCEPT !["listing"] = list]
  <1>1. /\ bundler \in [pc: Places \ {"idle"}, trace: Traces, certificate: Known(issued),
                        kernel: Kernels \cup {NoFile}, items: ItemLists, taken: Nat,
                        copied: SUBSET Kernels, draft: ManifestOf({NoFile})]
        /\ bundler.pc = "listing" /\ bundler.draft.listing \in Listings
    BY DEF BaseInv, BundlerInv, CopyEvidence, At
  <1>2. WorkspaceInv' /\ LeanInv' /\ ClaimsInv' /\ CountInv' /\ issued' = issued
    BY BundlerLeaves DEF CopyEvidence
  <1>3. CASE Gone(item, dir)
    <2>1. bundler' = [bundler EXCEPT !.taken = @ + 1] /\ UNCHANGED bundle
      BY <1>3 DEF CopyEvidence
    <2>2. BundlerInv'
      BY <1>1, <1>2, <2>1 DEF BundlerInv
    <2>3. BundleInv'
      BY <1>2, <2>1 DEF BaseInv, BundleInv
    <2> QED BY <1>2, <2>2, <2>3 DEF BaseInv
  <1>4. CASE ~Gone(item, dir)
    <2>1. item \in UNION {ToSet(items) : items \in ItemLists}
      <3>1. /\ IsSequence(bundler.items) /\ DOMAIN bundler.items = 1..Len(bundler.items)
            /\ Len(bundler.items) \in Nat /\ bundler.taken \in Nat
            /\ bundler.taken < Len(bundler.items)
        BY <1>1, ItemListsAreLists DEF CopyEvidence
      <3>2. item \in ToSet(bundler.items)
        BY <3>1 DEF ToSet
      <3> QED BY <1>1, <3>2
    <2>2. <<item, dir>> \in Copyings
      <3> HIDE DEF item
      <3> QED BY <1>4, <2>1 DEF Copyings, BaseInv, WorkspaceInv
    <2>3. list \in Listings
      <3> HIDE DEF item
      <3>1. \A p \in Copyings : Copied(p[1], p[2]) \in {Copied(x[1], x[2]) : x \in Copyings}
        OBVIOUS
      <3>2. Copied(<<item, dir>>[1], <<item, dir>>[2]) \in {Copied(x[1], x[2]) : x \in Copyings}
        BY <2>2, <3>1
      <3>3. Copied(item, dir) \in {Copied(x[1], x[2]) : x \in Copyings}
        BY <3>2
      <3> QED BY <1>1, <3>3 DEF Listings
    <2>4. /\ bundle' = [bundle EXCEPT !.evidence = Overlaid(@, Copied(item, dir))]
          /\ bundler' = [bundler EXCEPT !.taken = @ + 1, !.draft.listing = list]
      BY <1>1, <1>4 DEF CopyEvidence
    <2> HIDE DEF list
    <2>5. d \in ManifestOf({NoFile}) /\ d.listing = list
      <3>1. bundler.draft \in ManifestOf({NoFile})
        BY <1>1
      <3>2. d.listing = list
        BY <3>1 DEF ManifestOf
      <3> QED BY <2>3, <3>1, <3>2, DraftUpdated
    <2>6. bundler' = [bundler EXCEPT !.taken = @ + 1, !.draft = d]
      BY <1>1, <2>4
    <2> HIDE DEF d
    <2>7. BundlerInv'
      <3>1. bundler.taken + 1 \in Nat
        BY <1>1
      <3>2. bundler' = [bundler EXCEPT !.taken = bundler.taken + 1, !.draft = d]
        BY <2>6
      <3>3. /\ bundler' \in [pc: Places \ {"idle"}, trace: Traces, certificate: Known(issued),
                             kernel: Kernels \cup {NoFile}, items: ItemLists, taken: Nat,
                             copied: SUBSET Kernels, draft: ManifestOf({NoFile})]
            /\ bundler'.pc = "listing" /\ bundler'.draft = d
        <4> DEFINE n == bundler.taken + 1
        <4> HIDE DEF n
        <4>1. n \in Nat /\ bundler' = [bundler EXCEPT !.taken = n, !.draft = d]
          BY <3>1, <3>2 DEF n
        <4> QED BY <1>1, <2>5, <4>1
      <3> QED BY <1>2, <2>3, <2>5, <3>3 DEF BundlerInv
    <2>8. BundleInv'
      BY <1>2, <2>4 DEF BaseInv, BundleInv
    <2> QED BY <1>2, <2>7, <2>8 DEF BaseInv
  <1> QED BY <1>3, <1>4

LEMMA BaseWriteListing ==
    ASSUME BaseInv, bundler # Idle, WriteListing
    PROVE  BaseInv'
  <1>1. WorkspaceInv' /\ LeanInv' /\ ClaimsInv' /\ CountInv' /\ issued' = issued
    BY BundlerLeaves DEF WriteListing
  <1>2. BundlerInv'
    BY <1>1 DEF BaseInv, BundlerInv, WorkspaceInv, WriteListing, Places
  <1>3. BundleInv'
    BY <1>1 DEF BaseInv, BundleInv, WriteListing
  <1> QED BY <1>1, <1>2, <1>3 DEF BaseInv

LEMMA BaseCopyKernel ==
    ASSUME BaseInv, bundler # Idle, CopySomeOfKernel \/ CopyRestOfKernel
    PROVE  BaseInv'
  <1>1. WorkspaceInv' /\ LeanInv' /\ ClaimsInv' /\ CountInv' /\ issued' = issued
    BY BundlerLeaves DEF CopySomeOfKernel, CopyRestOfKernel
  <1>2. CASE CopyRestOfKernel
    <2>1. bundler.kernel \in Kernels
      BY <1>2 DEF BaseInv, BundlerInv, CopyRestOfKernel, At
    <2>2. BundlerInv'
      BY <1>1, <1>2, <2>1, BundlerMoves DEF CopyRestOfKernel, Places
    <2>3. BundleInv'
      <3> DEFINE copy == IF bundler.copied \subseteq {kernel} THEN kernel ELSE Mixed
      <3>1. copy \in Kernels \cup {Mixed} /\ bundle' = [bundle EXCEPT !.kernel = copy]
        BY <1>2 DEF BaseInv, WorkspaceInv, CopyRestOfKernel
      <3> HIDE DEF copy
      <3> QED BY <1>1, <3>1 DEF BaseInv, BundleInv, NoBundle
    <2> QED BY <1>1, <2>2, <2>3 DEF BaseInv
  <1>3. CASE CopySomeOfKernel
    <2>1. BundlerInv'
      <3>1. bundler' = [bundler EXCEPT !.copied = @ \cup {kernel}] /\ kernel \in Kernels
        BY <1>3 DEF CopySomeOfKernel, BaseInv, WorkspaceInv
      <3> QED BY <1>1, <3>1 DEF BaseInv, BundlerInv
    <2>2. BundleInv'
      <3>1. (IF bundle.kernel = kernel THEN kernel ELSE Mixed) \in Kernels \cup {Mixed}
        BY DEF BaseInv, WorkspaceInv
      <3> QED BY <1>1, <1>3, <3>1 DEF BaseInv, BundleInv, CopySomeOfKernel, NoBundle
    <2> QED BY <1>1, <2>1, <2>2 DEF BaseInv
  <1> QED BY <1>2, <1>3

(* A manifest that is written names one kernel, the one that was copied, and *)
(* with a claim of Lean's it is closed.                                      *)
LEMMA WrittenManifest ==
    ASSUME NEW draft \in ManifestOf({NoFile}), NEW k \in Kernels, Closed(draft)
    PROVE  Manifest(draft, k) \in ClosedManifests
  <1>1. Manifest(draft, k) \in ManifestOf(Kernels)
    BY DEF Manifest, ManifestOf
  <1>2. \A f \in {"class", "proof", "proofHash", "result", "projection", "theorems", "listing"} :
            Manifest(draft, k)[f] = draft[f]
    BY DEF Manifest, ManifestOf
  <1>3. Closed(Manifest(draft, k))
    BY <1>2 DEF Closed
  <1> QED BY <1>1, <1>3 DEF ClosedManifests

LEMMA BaseWriteManifest ==
    ASSUME BaseInv, bundler # Idle, WriteManifest
    PROVE  BaseInv'
  <1>1. CASE Abort
    BY <1>1, BaseAbort DEF WriteManifest
  <1>2. CASE /\ bundle.kernel = bundler.kernel /\ Closed(bundler.draft)
             /\ Then("finish") /\ UNCHANGED quiet
             /\ bundle' = [bundle EXCEPT !.manifest = Manifest(bundler.draft, bundle.kernel)]
    <2>1. WorkspaceInv' /\ LeanInv' /\ ClaimsInv' /\ CountInv' /\ issued' = issued
      BY <1>2, BundlerLeaves DEF WriteManifest
    <2>2. bundler.kernel \in Kernels /\ bundler.draft \in ManifestOf({NoFile})
      BY DEF BaseInv, BundlerInv, WriteManifest, At
    <2>3. BundlerInv'
      BY <1>2, <2>1, <2>2, BundlerMoves DEF Places
    <2>4. Manifest(bundler.draft, bundle.kernel) \in ClosedManifests
      BY <1>2, <2>2, WrittenManifest
    <2>5. BundleInv'
      BY <1>2, <2>1, <2>4 DEF BaseInv, BundleInv, NoBundle
    <2> QED BY <2>1, <2>3, <2>5 DEF BaseInv
  <1> QED BY <1>1, <1>2 DEF WriteManifest

LEMMA BaseWriteKernelManifest ==
    ASSUME BaseInv, bundler # Idle, WriteKernelManifest
    PROVE  BaseInv'
  <1>1. WorkspaceInv' /\ LeanInv' /\ ClaimsInv' /\ CountInv' /\ issued' = issued
    BY BundlerLeaves DEF WriteKernelManifest
  <1>2. BundlerInv'
    BY DEF WriteKernelManifest, BundlerInv
  <1>3. BundleInv'
    BY <1>1 DEF BaseInv, BundleInv, WriteKernelManifest
  <1> QED BY <1>1, <1>2, <1>3 DEF BaseInv

-----------------------------------------------------------------------------
(* What happens to a bundle that is there.                                   *)
LEMMA BaseDamage ==
    ASSUME BaseInv, NEW f \in Damageable, Damage(f)
    PROVE  BaseInv'
  <1> USE DEF BaseInv
  <1>1. WorkspaceInv' /\ LeanInv' /\ BundlerInv' /\ ClaimsInv' /\ issued' = issued
    BY DEF Damage, WorkspaceInv, LeanInv, BundlerInv, ClaimsInv, workspace, inputs
  <1>2. CountInv'
    <2>1. MaxEdits \in Nat
      BY BundleReleaseAssumption
    <2>2. spent' \in [checks: 0..MaxChecks, bundles: 0..MaxBundles, edits: 0..MaxEdits]
      BY <2>1, SpendCounts DEF Damage
    <2>3. ~quiet' /\ quiet' \in BOOLEAN
      BY DEF Damage
    <2> QED BY <2>2, <2>3 DEF CountInv
  <1>3. PICK v \in Spoilt \cup Versions(f) : bundle' = [bundle EXCEPT ![f] = v]
    BY DEF Damage
  <1>4. Spoilt \subseteq Unread
    BY BundleReleaseAssumption DEF Unread
  <1>5. BundleInv'
    <2> USE DEF BundleInv, NoBundle
    <2>1. CASE f = "trace"
      BY <1>1, <1>3, <1>4, <2>1 DEF Versions
    <2>2. CASE f = "certificate"
      <3>1. out.certificate \in Known(issued) \cup Unread
        BY DEF WorkspaceInv, Unread
      <3> QED BY <1>1, <1>3, <1>4, <2>2, <3>1 DEF Versions
    <2>3. CASE f = "kernel"
      BY <1>1, <1>3, <1>4, <2>3 DEF Versions
    <2>4. CASE f = "manifest"
      BY <1>1, <1>3, <1>4, <2>4 DEF Versions
    <2>5. CASE f \notin {"trace", "certificate", "kernel", "manifest"}
      BY <1>1, <1>3, <2>5
    <2> QED BY <2>1, <2>2, <2>3, <2>4, <2>5
  <1> QED BY <1>1, <1>2, <1>5

LEMMA BaseLoseEvidence ==
    ASSUME BaseInv, LoseEvidence
    PROVE  BaseInv'
  <1> USE DEF BaseInv, LoseEvidence
  <1>1. WorkspaceInv' /\ LeanInv' /\ BundlerInv' /\ ClaimsInv' /\ issued' = issued
    BY DEF WorkspaceInv, LeanInv, BundlerInv, ClaimsInv, workspace, inputs
  <1>2. CountInv'
    <2>1. MaxEdits \in Nat
      BY BundleReleaseAssumption
    <2>2. spent' \in [checks: 0..MaxChecks, bundles: 0..MaxBundles, edits: 0..MaxEdits]
      BY <2>1, SpendCounts
    <2>3. ~quiet' /\ quiet' \in BOOLEAN
      OBVIOUS
    <2> QED BY <2>2, <2>3 DEF CountInv
  <1>3. BundleInv'
    <2>1. PICK e \in bundle.evidence : bundle' = [bundle EXCEPT !.evidence = @ \ {e}]
      OBVIOUS
    <2> QED BY <1>1, <2>1 DEF BundleInv
  <1> QED BY <1>1, <1>2, <1>3

LEMMA AttestedFiles ==
    ASSUME NEW env, NEW live, NEW absence, NEW answer, Attest(env, live, absence, answer),
           DOMAIN bundle = DOMAIN NoBundle
    PROVE  /\ DOMAIN bundle' = DOMAIN NoBundle
           /\ \A f \in DOMAIN NoBundle \ {"attestation", "notice"} : bundle'[f] = bundle[f]
  <1> DEFINE att == Attested(bundle.manifest, bundle.trace, env, live, answer, Site)
  <1>1. bundle' = IF att # NoFile THEN [bundle EXCEPT !.attestation = att, !.notice = NoFile]
                  ELSE IF absence /\ ~live THEN [bundle EXCEPT !.notice = bundle.manifest]
                  ELSE bundle
    BY DEF Attest
  <1> HIDE DEF att
  <1> QED BY <1>1

LEMMA BaseAttest ==
    ASSUME BaseInv, NEW env, NEW live, NEW absence, NEW answer, Attest(env, live, absence, answer)
    PROVE  BaseInv'
  <1> USE DEF BaseInv
  <1>1. WorkspaceInv' /\ LeanInv' /\ BundlerInv' /\ ClaimsInv' /\ issued' = issued
    BY DEF Attest, WorkspaceInv, LeanInv, BundlerInv, ClaimsInv, workspace, inputs
  <1>2. CountInv'
    <2>1. MaxEdits \in Nat
      BY BundleReleaseAssumption
    <2>2. /\ spent' \in [checks: 0..MaxChecks, bundles: 0..MaxBundles, edits: 0..MaxEdits]
          /\ spent'.bundles >= spent.bundles
      BY <2>1, SpendCounts DEF Attest
    <2>3. quiet' = quiet
      BY DEF Attest
    <2> QED BY <2>2, <2>3, BundleReleaseAssumption DEF CountInv
  <1>3. BundleInv'
    <2>1. /\ DOMAIN bundle' = DOMAIN NoBundle
          /\ \A f \in DOMAIN NoBundle \ {"attestation", "notice"} : bundle'[f] = bundle[f]
      BY AttestedFiles DEF BundleInv
    <2>2. \A f \in {"trace", "certificate", "kernel", "manifest"} : bundle'[f] = bundle[f]
      BY <2>1 DEF NoBundle
    <2> QED BY <1>1, <2>1, <2>2 DEF BundleInv
  <1> QED BY <1>1, <1>2, <1>3

-----------------------------------------------------------------------------
(* Verification.                                                             *)
(* A claim that is not NoClaim comes from files that can be read.            *)
LEMMA ClaimedFiles ==
    ASSUME NEW b, BundleClaim(b) # NoClaim
    PROVE  /\ b.manifest \notin Unread /\ b.certificate \notin Unread
           /\ b.trace \notin Unread /\ b.listing \notin Unread
           /\ b.manifest.class = "LeanKernelChecked" /\ b.certificate.class = "LeanKernelChecked"
           /\ BundleClaim(b) = [projection |-> ProjectionOf(b.trace, Staged(b.listing), Mode),
                                kernel |-> b.kernel]
  BY DEF BundleClaim, Unreadable, Unread

LEMMA NoStructuralErrors ==
    ASSUME NEW b, NEW mode, b.manifest \notin Unread, VerifyErrors(b, mode) = {}
    PROVE  /\ TraceErrors(b, b.manifest) = {} /\ CertificateErrors(b, b.manifest) = {}
           /\ HashErrors(b, b.manifest) = {} /\ EvidenceFileErrors(b, b.manifest) = {}
           /\ KernelErrors(b, b.manifest) = {}
           /\ ManifestErrors(b) = {} /\ ReplayErrors(b) = {} /\ TheoremErrors(b) = {}
           /\ AttestationSidecarErrors(b, mode) = {}
  <1>1. /\ StructuralErrors(b, mode) = {}
        /\ ManifestErrors(b) = {} /\ ReplayErrors(b) = {} /\ TheoremErrors(b) = {}
        /\ AttestationSidecarErrors(b, mode) = {}
    BY DEF VerifyErrors
  <1>2. ~Unreadable(b.manifest)
    BY DEF Unread, Unreadable
  <1> QED BY <1>1, <1>2 DEF StructuralErrors

(* What verifies was accepted by Lean: the manifest ties the certificate to  *)
(* the copied kernel and projection, and the projection was made again.      *)
LEMMA VerifiedIsIssued ==
    ASSUME BaseInv, NEW mode, BundleClaim(bundle) # NoClaim, VerifyErrors(bundle, mode) = {}
    PROVE  BundleClaim(bundle) \in issued
  <1> DEFINE m == bundle.manifest
             c == bundle.certificate
  <1>1. /\ m \notin Unread /\ c \notin Unread
        /\ m.class = "LeanKernelChecked" /\ c.class = "LeanKernelChecked"
        /\ BundleClaim(bundle) = [projection |-> ProjectionOf(bundle.trace, Staged(bundle.listing), Mode),
                                  kernel |-> bundle.kernel]
    BY ClaimedFiles
  <1>2. /\ HashErrors(bundle, m) = {} /\ KernelErrors(bundle, m) = {}
        /\ ManifestErrors(bundle) = {} /\ ReplayErrors(bundle) = {}
    BY <1>1, NoStructuralErrors
  <1>3. c \in LeanCertificates /\ ClaimOf(c) \in issued
    BY <1>1, KnownCertificates DEF BaseInv, BundleInv
  <1>4. c.projection \in Projections /\ c.kernel \in Kernels /\ c.projection # NoFile /\ c.kernel # NoFile
    BY <1>3, LeanCertificateShape, NothingUnread DEF Unread
  <1>5. m \in ManifestOf(Kernels) /\ Closed(m)
    BY <1>1 DEF BaseInv, BundleInv, ClosedManifests
  <1>6. m.kernel \in Kernels /\ m.kernel # NoFile /\ m.projection # NoFile /\ m.listing # NoFile
    <2>1. m.kernel \in Kernels
      BY <1>5 DEF ManifestOf
    <2>2. NoFile \notin {m[f] : f \in {"proof", "proofHash", "result", "projection",
                                       "theorems", "listing"}}
      BY <1>1, <1>5 DEF Closed
    <2> QED BY <2>1, <2>2, NothingUnread DEF Unread
  <1>7. bundle.kernel = m.kernel
    <2>1. "PfcoreKernelHashMismatch" \notin KernelErrors(bundle, m)
      BY <1>2
    <2> QED BY <2>1 DEF KernelErrors
  <1>8. c.kernel = m.kernel /\ c.projection = m.projection
    <2>1. "kernel" \notin ManifestErrors(bundle) /\ "projection" \notin ManifestErrors(bundle)
      BY <1>2
    <2> QED BY <2>1, <1>4, <1>6 DEF ManifestErrors, BothSay
  <1>9. bundle.projection = m.projection
    <2>1. "projection" \notin HashErrors(bundle, m)
      BY <1>2
    <2> QED BY <2>1, <1>6 DEF HashErrors, Differs
  <1>10. ProjectionOf(bundle.trace, Staged(bundle.listing), Mode) = bundle.projection
    <2>1. "ProjectionReplay" \notin ReplayErrors(bundle)
      BY <1>2
    <2> QED BY <2>1, <1>6 DEF ReplayErrors
  <1> QED BY <1>1, <1>3, <1>7, <1>8, <1>9, <1>10 DEF ClaimOf

LEMMA BaseVerify ==
    ASSUME BaseInv, Verify
    PROVE  BaseInv'
  <1>1. BundleClaim(bundle) \in issued
    BY VerifiedIsIssued DEF Verify
  <1> QED BY <1>1 DEF BaseInv, Verify, WorkspaceInv, LeanInv, BundlerInv, BundleInv, ClaimsInv,
                     CountInv, workspace, inputs

LEMMA BaseKept ==
    ASSUME BaseInv, [Next]_vars
    PROVE  BaseInv'
  <1>1. CASE UNCHANGED vars
    BY <1>1 DEF BaseInv, WorkspaceInv, LeanInv, BundlerInv, BundleInv, ClaimsInv, CountInv,
                vars, workspace, inputs, ghosts
  <1>2. CASE EditInputs \/ CheckWithLean \/ CheckAtRuntime \/ Save \/ LeanFailsOrDies
    BY <1>2, BaseEditInputs, BaseCheckWithLean, BaseCheckAtRuntime, BaseSave, BaseLeanFailsOrDies
  <1>3. CASE Load
    BY <1>3, BaseLoad
  <1>4. CASE bundler # Idle /\ BundlerStep
    BY <1>4, BaseCopyTrace, BaseCopyCertificate, BaseCopies, BaseResolveEvidence,
       BaseCopyEvidence, BaseWriteListing, BaseCopyKernel, BaseWriteManifest, BaseWriteKernelManifest DEF BundlerStep
  <1>5. CASE BundlerDies
    BY <1>5, BaseAbort DEF BundlerDies
  <1>6. CASE \E f \in Damageable : Damage(f)
    BY <1>6, BaseDamage
  <1>7. CASE LoseEvidence \/ Verify
    BY <1>7, BaseLoseEvidence, BaseVerify
  <1>8. CASE \E env \in Environments, live, absence \in BOOLEAN :
                \E answer \in AnswersOf(env, Refs) : Attest(env, live, absence, answer)
    BY <1>8, BaseAttest
  <1> QED BY <1>1, <1>2, <1>3, <1>4, <1>5, <1>6, <1>7, <1>8 DEF Next

LEMMA BaseHolds == Spec => []BaseInv
  BY BaseInitially, BaseKept, PTL DEF Spec

-----------------------------------------------------------------------------
(* The state keeps its shape, and nothing is published that was not accepted *)
(* (the type invariant of the run).                                          *)
THEOREM TypeCorrect == Spec => []TypeOK
  <1>1. ASSUME BaseInv PROVE TypeOK
    <2> USE DEF BaseInv
    <2>1. /\ trace \in Traces /\ dir \in Directories /\ kernel \in Kernels
          /\ DOMAIN proofs = Hashes /\ DOMAIN out = DOMAIN NoOutput
      BY <1>1 DEF WorkspaceInv, NoOutput
    <2>2. lean.pc \in {"idle"} \cup DOMAIN AfterSaving \cup {"result"}
      BY <1>1 DEF LeanInv, Idle, AfterSaving
    <2>3. bundler.pc \in Places
      BY <1>1 DEF BundlerInv, Idle, Places
    <2>4. DOMAIN bundle = DOMAIN NoBundle /\ bundle.kernel \in Kernels \cup {Mixed, NoFile, Garbled}
      BY <1>1 DEF BundleInv, Unread
    <2>5. published \subseteq issued
      BY <1>1 DEF ClaimsInv
    <2>6. spent.checks <= MaxChecks /\ spent.bundles <= MaxBundles /\ spent.edits <= MaxEdits
      BY <1>1, BundleReleaseAssumption DEF CountInv
    <2>7. quiet => spent.bundles > 0
      BY <1>1 DEF CountInv
    <2> QED BY <2>1, <2>2, <2>3, <2>4, <2>5, <2>6, <2>7 DEF TypeOK
  <1> QED BY <1>1, BaseHolds, PTL

(* verify-bundle publishes only claims that Lean accepted, whatever is in    *)
(* the files: every step is a step of ReleasePromise.                        *)
THEOREM PromiseIsKept == Spec => PromiseKept
  <1>1. Init => Promise!Init
    BY DEF Init, Promise!Init, NoBundle, BundleClaim, Unreadable
  <1>2. ASSUME BaseInv, [Next]_vars PROVE [Promise!Next]_(Promise!vars)
    <2> USE DEF Promise!Next, Promise!vars
    <2>1. CASE UNCHANGED vars
      <3>1. UNCHANGED <<issued, published>>
        BY <2>1 DEF vars, ghosts
      <3> QED BY <3>1 DEF Promise!Offer
    <2>2. CASE Save
      <3>1. issued \subseteq issued' /\ UNCHANGED <<bundle, published>>
        BY <2>2 DEF Save
      <3>2. BundleClaim(bundle)' = BundleClaim(bundle)
        BY <3>1
      <3> QED BY <3>1, <3>2 DEF Promise!Issue
    <2>3. CASE Verify
      <3>1. BundleClaim(bundle) \in issued
        BY <1>2, <2>3, VerifiedIsIssued DEF Verify
      <3>2. /\ published' = published \cup {BundleClaim(bundle)}
            /\ UNCHANGED <<issued, bundle>>
        BY <2>3 DEF Verify
      <3> QED BY <3>1, <3>2 DEF Promise!Publish
    <2>4. CASE \/ EditInputs \/ CheckWithLean \/ CheckAtRuntime \/ LeanFailsOrDies \/ Load
               \/ (bundler # Idle /\ BundlerStep) \/ BundlerDies \/ LoseEvidence
               \/ \E f \in Damageable : Damage(f)
               \/ \E env \in Environments, live, absence \in BOOLEAN :
                     \E answer \in AnswersOf(env, Refs) : Attest(env, live, absence, answer)
      <3>1. CASE EditInputs \/ CheckWithLean \/ CheckAtRuntime \/ LeanFailsOrDies \/ Load
        BY <3>1 DEF Promise!Offer, EditInputs, CheckWithLean, CheckAtRuntime, LeanFailsOrDies,
                    Load, ghosts
      <3>2. CASE (bundler # Idle /\ BundlerStep) \/ BundlerDies
        BY <3>2 DEF Promise!Offer, BundlerStep, BundlerDies, BundlerOnly, CopyTrace,
                    CopyCertificate, CopyResult, CopyProof, CopyProjection, CopyTheorems,
                    CopyHashed, ResolveEvidence, CopyEvidence, WriteListing, CopySomeOfKernel, CopyRestOfKernel,
                    WriteManifest, WriteKernelManifest
      <3>3. CASE LoseEvidence \/ \E f \in Damageable : Damage(f)
        BY <3>3 DEF Promise!Offer, LoseEvidence, Damage
      <3>4. CASE \E env \in Environments, live, absence \in BOOLEAN :
                    \E answer \in AnswersOf(env, Refs) : Attest(env, live, absence, answer)
        BY <3>4 DEF Promise!Offer, Attest
      <3> QED BY <2>4, <3>1, <3>2, <3>3, <3>4
    <2> QED BY <1>2, <2>1, <2>2, <2>3, <2>4 DEF Next
  <1> QED BY <1>1, <1>2, BaseHolds, PTL DEF Spec, PromiseKept, Promise!Spec

(* A certificate that binds in its workspace says that Lean accepted its     *)
(* projection under the installed kernel and, judged with its trace, that    *)
(* this is the trace and the evidence that lie there now, in all that a      *)
(* projection shows of them.                                                 *)
THEOREM BindingIsAlwaysCurrent == Spec => []BindingIsCurrent
  <1>1. ASSUME BaseInv PROVE BindingIsCurrent
    <2> DEFINE c == out.certificate
               here == ProjectionOf(trace, dir, Mode)
    <2> SUFFICES ASSUME NEW withTrace \in BOOLEAN, ProofBindingErrors(c, withTrace) = {}
                 PROVE  [projection |-> IF withTrace THEN here ELSE c.projection,
                         kernel |-> kernel] \in issued
      BY DEF BindingIsCurrent
    <2>1. /\ ~Unreadable(c) /\ c.class = "LeanKernelChecked"
          /\ BindingDigestErrors(c, withTrace) = {} /\ (withTrace => SourceErrors(c) = {})
      BY DEF ProofBindingErrors
    <2>2. ClaimOf(c) \in issued
      <3>1. c \in Known(issued)
        BY <1>1, <2>1 DEF BaseInv, WorkspaceInv, Unreadable
      <3> QED BY <2>1, <3>1, KnownCertificates
    <2> HIDE DEF c
    <2>3. kernel = c.kernel
      <3>1. "Kernel" \notin BindingDigestErrors(c, withTrace)
        BY <2>1
      <3> QED BY <3>1 DEF BindingDigestErrors
    <2>4. withTrace => here = c.projection
      <3> SUFFICES ASSUME withTrace PROVE here = c.projection
        OBVIOUS
      <3>1. "ProjectionReplay" \notin SourceErrors(c)
        BY <2>1
      <3> QED BY <3>1 DEF SourceErrors
    <2> HIDE DEF here
    <2>5. (IF withTrace THEN here ELSE c.projection) = c.projection
      BY <2>4
    <2> QED BY <2>2, <2>3, <2>5 DEF ClaimOf
  <1> QED BY <1>1, BaseHolds, PTL

-----------------------------------------------------------------------------
(* What Lean is shown of what evidence resolves to.                          *)
LEMMA ProjectedParts ==
    ASSUME NEW t, NEW d, NEW mode
    PROVE  /\ ToSet(ProjectionOf(t, d, mode).events) = {ProjectedEvent(e) : e \in ToSet(EventsOf(t))}
           /\ \A c \in ToSet(ProjectionOf(t, d, mode).contracts) :
                 \E x \in ToSet(Resolved(t, d).contracts) : c.id = x.id /\ c.body = x.body
  <1> DEFINE es == EventsOf(t)
             rc == Resolved(t, d).contracts
             p == ProjectionOf(t, d, mode)
             shown(x) == [id |-> x.id, body |-> x.body, events |-> ReferencingEvents(es, x.id)]
  <1>1. p.events = [i \in DOMAIN es |-> ProjectedEvent(es[i])]
    BY DEF ProjectionOf, Project, Mapped
  <1>2. p.contracts = [i \in DOMAIN rc |-> shown(rc[i])]
    BY DEF ProjectionOf, Project, Mapped
  <1> HIDE DEF es, rc, p
  <1>3. ToSet(p.events) = {ProjectedEvent(e) : e \in ToSet(es)}
    BY <1>1 DEF ToSet
  <1>4. \A c \in ToSet(p.contracts) : \E x \in ToSet(rc) : c.id = x.id /\ c.body = x.body
    BY <1>2 DEF ToSet
  <1> QED BY <1>3, <1>4 DEF es, rc, p

(* The events in their order are the events of the trace.                    *)
LEMMA OrderedEvents ==
    ASSUME NEW t \in Traces
    PROVE  ToSet(EventsOf(t)) \subseteq EventsIn(t)
  <1> DEFINE keys == [i \in DOMAIN t.events |-> t.events[i].sequence]
  <1>1. t.events \in Seq(ToSet(t.events)) /\ \A i \in DOMAIN t.events : t.events[i].sequence \in Int
    BY BundleReleaseAssumption DEF IsSequence
  <1>2. DOMAIN t.events = 1..Len(t.events)
    BY <1>1
  <1>3. \A i \in 1..Len(t.events) : keys[i] \in Int
    BY <1>1, <1>2
  <1>4. EventsOf(t) = Arranged(t.events, keys, 1..Len(t.events))
    BY <1>2 DEF EventsOf
  <1> DEFINE s == t.events
             sorted == Arranged(s, keys, 1..Len(s))
  <1>5. s \in Seq(ToSet(s)) /\ \A i \in 1..Len(s) : keys[i] \in Int
    BY <1>1, <1>3
  <1> HIDE DEF keys, s
  <1>6. /\ Arranged(s, keys, 1..Len(s)) \in Seq(ToSet(s))
        /\ Len(Arranged(s, keys, 1..Len(s))) = Len(s)
        /\ \A k \in 1..Len(s) : \E j \in 1..Len(s) : Arranged(s, keys, 1..Len(s))[k] = s[j]
    <2> DEFINE S == ToSet(s)
    <2>1. s \in Seq(S)
      BY <1>5
    <2> HIDE DEF S
    <2>2. /\ Arranged(s, keys, 1..Len(s)) \in Seq(S)
          /\ Len(Arranged(s, keys, 1..Len(s))) = Len(s)
          /\ \A k \in 1..Len(s) : \E j \in 1..Len(s) : Arranged(s, keys, 1..Len(s))[k] = s[j]
      BY <2>1, <1>5, SortedKeepsAll
    <2> QED BY <2>2 DEF S
  <1>7. EventsOf(t) = sorted /\ DOMAIN s = 1..Len(s) /\ EventsIn(t) = {s[i] : i \in DOMAIN s}
    BY <1>2, <1>4 DEF s, EventsIn
  <1> HIDE DEF sorted
  <1>8. /\ sorted \in Seq(ToSet(s)) /\ Len(sorted) = Len(s)
        /\ \A k \in 1..Len(s) : \E j \in 1..Len(s) : sorted[k] = s[j]
    BY <1>6 DEF sorted
  <1>9. DOMAIN sorted = 1..Len(s)
    BY <1>8
  <1> QED BY <1>7, <1>8, <1>9 DEF ToSet

(* The contracts resolved under one id are one contract.                     *)
LEMMA OneContractById ==
    ASSUME NEW t, NEW d, NEW i \in DOMAIN Resolved(t, d).contracts,
           NEW j \in DOMAIN Resolved(t, d).contracts,
           Resolved(t, d).contracts[i].id = Resolved(t, d).contracts[j].id
    PROVE  Resolved(t, d).contracts[i] = Resolved(t, d).contracts[j]
  <1> DEFINE cs == ContractIds(t, d, Selection(t, d))
             rc == Resolved(t, d).contracts
  <1>1. rc = [k \in DOMAIN cs |-> ResolvedContract(d, cs[k])]
    BY DEF Resolved, Mapped
  <1> HIDE DEF cs, rc
  <1>2. \A k \in DOMAIN rc : rc[k] = ResolvedContract(d, cs[k])
    BY <1>1
  <1>3. \A k \in DOMAIN rc : rc[k].id = cs[k]
    BY <1>2 DEF ResolvedContract
  <1>4. i \in DOMAIN rc /\ j \in DOMAIN rc /\ rc[i].id = rc[j].id
    BY DEF rc
  <1>5. cs[i] = cs[j]
    BY <1>3, <1>4
  <1>6. rc[i] = rc[j]
    BY <1>2, <1>4, <1>5
  <1> QED BY <1>6 DEF rc

(* What validate_contracts_before_codegen lets pass: every event meets what  *)
(* is in scope of each resolved contract it names.                           *)
LEMMA NoContractIssues ==
    ASSUME NEW t, NEW contracts, TraceContractIssues(t, contracts) = {},
           \A i, j \in DOMAIN contracts : contracts[i].id = contracts[j].id => contracts[i] = contracts[j],
           NEW i \in DOMAIN contracts, NEW e \in EventsIn(t), contracts[i].id \in e.refs
    PROVE  ContractIssues(e, contracts[i].body) = {}
  <1> DEFINE known == {contracts[k].id : k \in DOMAIN contracts}
             all == {contracts[k] : k \in DOMAIN contracts}
             body(x) == (CHOOSE k \in all : k.id = x).body
             refused(f) == {x \in f.refs : x \notin known \/ ContractIssues(f, body(x)) # {}}
             id == contracts[i].id
  <1>1. known # {} /\ id \in known
    OBVIOUS
  <1>2. UNION {{<<f.sequence, x>> : x \in refused(f)} : f \in EventsIn(t)} = {}
    BY <1>1 DEF TraceContractIssues
  <1>3. (CHOOSE k \in all : k.id = id) = contracts[i]
    <2>1. \E k \in all : k.id = id
      OBVIOUS
    <2>2. (CHOOSE k \in all : k.id = id) \in all /\ (CHOOSE k \in all : k.id = id).id = id
      BY <2>1
    <2> QED BY <2>2
  <1>4. body(id) = contracts[i].body
    BY <1>3
  <1>5. id \notin refused(e)
    <2> HIDE DEF refused
    <2>1. {<<e.sequence, x>> : x \in refused(e)} = {}
      BY <1>2
    <2> QED BY <2>1
  <1> HIDE DEF known, body
  <1>6. ~(id \notin known \/ ContractIssues(e, body(id)) # {})
    BY <1>5
  <1> QED BY <1>4, <1>6

(* A projected event meets what the event meets, but for the evidence.       *)
LEMMA ProjectedMeets ==
    ASSUME NEW e, NEW r, r.kind # "evidence", Meets(e, r)
    PROVE  Meets(ProjectedEvent(e), r)
  <1> DEFINE p == ProjectedEvent(e)
  <1>1. /\ p.refs = e.refs /\ p.principal = e.principal /\ p.cap = e.cap /\ p.effects = e.effects
        /\ p.tenants = e.tenants /\ p.decision = e.decision
    BY DEF ProjectedEvent
  <1> HIDE DEF p
  <1>2. Meets(p, r)
    BY <1>1 DEF Meets, TenantMatches, EventIsSafe
  <1> QED BY <1>2 DEF p

(* What the deciders let pass meets all of the resolved contracts.           *)
LEMMA ExaminedMeets ==
    ASSUME NEW t \in Traces, NEW d \in Directories, Acceptable(t, d),
           NEW e \in EventsIn(t), NEW contract \in ToSet(ProjectionOf(t, d, Mode).contracts)
    PROVE  MeetsAll(e, contract, RequirementKinds)
  <1> SUFFICES ASSUME contract.id \in e.refs, NEW r \in InScope(contract) PROVE Meets(e, r)
    BY DEF MeetsAll
  <1> DEFINE rc == Resolved(t, d).contracts
             pc == ProjectionOf(t, d, Mode).contracts
  <1>1. \A c \in ToSet(pc) : \E x \in ToSet(rc) : c.id = x.id /\ c.body = x.body
    BY ProjectedParts
  <1>2. TraceContractIssues(t, rc) = {}
    BY DEF Acceptable
  <1>3. \A j, m \in DOMAIN rc : rc[j].id = rc[m].id => rc[j] = rc[m]
    BY OneContractById
  <1>4. contract \in ToSet(pc)
    OBVIOUS
  <1> HIDE DEF rc, pc
  <1>5. PICK i \in DOMAIN rc : contract.id = rc[i].id /\ contract.body = rc[i].body
    BY <1>1, <1>4 DEF ToSet
  <1>6. ContractIssues(e, rc[i].body) = {}
    BY <1>2, <1>3, <1>5, NoContractIssues
  <1> QED BY <1>5, <1>6 DEF ContractIssues, InScope

(* What is published was looked at: every event in it meets what is in scope *)
(* of the bundled contracts it names, all but the evidence, which was met by *)
(* the trace the published projection was made from.                         *)
THEOREM PublishedAlwaysMeetsContracts == Spec => []PublishedMeetsContracts
  <1>1. ASSUME BaseInv PROVE PublishedMeetsContracts
    <2> DEFINE Fits(claim) ==
                  LET contracts == ToSet(claim.projection.contracts)
                  IN  /\ \A e \in ToSet(claim.projection.events), contract \in contracts :
                             MeetsAll(e, contract, RequirementKinds \ {"evidence"})
                      /\ \E q \in examined :
                            /\ ProjectionOf(q[1], q[2], Mode) = claim.projection
                            /\ \A e \in EventsIn(q[1]), contract \in contracts :
                                  MeetsAll(e, contract, RequirementKinds)
    <2> SUFFICES ASSUME NEW claim \in published PROVE Fits(claim)
      BY DEF PublishedMeetsContracts
    <2>1. PICK c \in LookedAt(examined) : claim = ClaimOf(c)
      BY <1>1 DEF BaseInv, ClaimsInv
    <2>2. PICK q \in examined, k \in Kernels : c = KernelChecked(q[1], q[2], k)
      BY DEF LookedAt
    <2> DEFINE t == q[1]
               d == q[2]
               p == claim.projection
    <2>3. t \in Traces /\ d \in Directories /\ Acceptable(t, d)
      BY <1>1 DEF BaseInv, ClaimsInv, Acceptables
    <2>4. p = ProjectionOf(t, d, Mode)
      BY <2>1, <2>2 DEF ClaimOf, KernelChecked
    <2> HIDE DEF t, d, p
    <2>5. \A e \in EventsIn(t), contract \in ToSet(p.contracts) :
             MeetsAll(e, contract, RequirementKinds)
      BY <2>3, <2>4, ExaminedMeets
    <2>6. ASSUME NEW e \in ToSet(p.events), NEW contract \in ToSet(p.contracts)
          PROVE  MeetsAll(e, contract, RequirementKinds \ {"evidence"})
      <3>1. ToSet(p.events) = {ProjectedEvent(f) : f \in ToSet(EventsOf(t))}
        BY <2>4, ProjectedParts
      <3>2. PICK f \in ToSet(EventsOf(t)) : e = ProjectedEvent(f)
        BY <2>6, <3>1
      <3>3. f \in EventsIn(t)
        BY <2>3, OrderedEvents
      <3>4. e.refs = f.refs
        BY <3>2 DEF ProjectedEvent
      <3> SUFFICES ASSUME contract.id \in e.refs, NEW r \in InScope(contract),
                          r.kind \in RequirementKinds \ {"evidence"}
                   PROVE  Meets(e, r)
        BY DEF MeetsAll
      <3>5. Meets(f, r)
        BY <2>5, <2>6, <3>3, <3>4 DEF MeetsAll
      <3> QED BY <3>2, <3>5, ProjectedMeets
    <2> QED BY <2>4, <2>5, <2>6 DEF t, d, p
  <1> QED BY <1>1, BaseHolds, PTL

-----------------------------------------------------------------------------
(* What attest-bundle leaves: an attestation that the site takes, and that   *)
(* is live only where a live checker was run.                                *)
Vouched(att) ==
    /\ SealErrors(att, Site.registered) = {}
    /\ AttestationPinErrors(att, Site.pin, Site.provision, FALSE) = {}
    /\ LiveErrors(att) = {} =>
          \E t \in Traces : t.hash = att.trace /\ <<att.bundle, t>> \in checkedLive

AttestationInv == bundle.attestation \notin Unread => Vouched(bundle.attestation)

(* Only a live binary gets a live word: a mock and a stub say what they are. *)
LEMMA LiveIsReallyChecked ==
    ASSUME NEW env, NEW live, NEW answer \in AnswersOf(env, Refs), NEW manifest, NEW t, NEW provision,
           LiveErrors(BuiltAttestation(manifest, t, RunCertifyEdgeCheck(env, NoRef, live, answer),
                                       env, provision)) = {}
    PROVE  ReallyChecked(env, answer)
  <1> DEFINE check == RunCertifyEdgeCheck(env, NoRef, live, answer)
             att == BuiltAttestation(manifest, t, check, env, provision)
  <1>1. att.ref = check.ref /\ att.result = check.status
    BY DEF BuiltAttestation, Sealed
  <1>2. RefClass(check.ref) \notin {"mock", "stub"} /\ check.status = "CertificateChecked"
    <2>1. "RefRejected" \notin LiveErrors(att) /\ "ResultRejected" \notin LiveErrors(att)
      OBVIOUS
    <2> HIDE DEF att
    <2> QED BY <1>1, <2>1 DEF LiveErrors
  <1>3. NoRef \notin {"mock", "stub", "live"} /\ NoFile \notin {"live", "stub"}
    BY SentinelAssumption
  <1>4. env.mode # "mock"
    <2> SUFFICES ASSUME env.mode = "mock" PROVE FALSE
      OBVIOUS
    <2>1. check = Refused("mock", NoRef) \/ check = Checked("mock", "mock")
      BY DEF RunCertifyEdgeCheck
    <2> HIDE DEF check
    <2> QED BY <1>2, <1>3, <2>1 DEF Refused, Checked, RefClass
  <1>5. /\ ChosenChecker(env) # NoFile /\ answer.exit = "zero"
        /\ check.ref = answer.ref
    <2>1. \/ \E class, ref : check = Refused(class, ref)
          \/ /\ ChosenChecker(env) # NoFile /\ answer.exit = "zero"
             /\ \E class : check = Checked(class, answer.ref)
      BY <1>3, <1>4 DEF RunCertifyEdgeCheck, RefClass
    <2> HIDE DEF check
    <2> QED BY <1>2, <2>1 DEF Refused, Checked
  <1>6. ChosenChecker(env) # "stub"
    <2> SUFFICES ASSUME ChosenChecker(env) = "stub" PROVE FALSE
      OBVIOUS
    <2>1. answer.ref = "stub"
      BY DEF AnswersOf, Answers
    <2> HIDE DEF check
    <2> QED BY <1>2, <1>3, <1>5, <2>1 DEF RefClass
  <1> QED BY <1>4, <1>5, <1>6 DEF ReallyChecked

LEMMA AttestationByAttest ==
    ASSUME BaseInv, AttestationInv, NEW env, NEW live \in BOOLEAN, NEW absence \in BOOLEAN,
           NEW answer \in AnswersOf(env, Refs), Attest(env, live, absence, answer)
    PROVE  AttestationInv'
  <1> DEFINE check == RunCertifyEdgeCheck(env, NoRef, live, answer)
             att == BuiltAttestation(bundle.manifest, bundle.trace, check, env, Site.provision)
             new == Attested(bundle.manifest, bundle.trace, env, live, answer, Site)
  <1>1. checkedLive \subseteq checkedLive'
    BY DEF Attest
  <1>2. bundle.trace \in Traces
    BY DEF Attest, BaseInv, BundleInv, Unreadable, Unread
  <1>3. bundle' = IF new # NoFile THEN [bundle EXCEPT !.attestation = new, !.notice = NoFile]
                  ELSE IF absence /\ ~live THEN [bundle EXCEPT !.notice = bundle.manifest]
                  ELSE bundle
    BY DEF Attest
  <1>4. DOMAIN bundle = DOMAIN NoBundle
    BY DEF BaseInv, BundleInv
  <1>5. CASE new = NoFile
    <2> HIDE DEF new
    <2>1. bundle'.attestation = bundle.attestation
      BY <1>3, <1>4, <1>5 DEF NoBundle
    <2> QED BY <1>1, <2>1 DEF AttestationInv, Vouched
  <1>6. CASE new # NoFile
    <2>1. new = att /\ AttestationErrors(att, bundle.manifest, bundle.trace, live, Site) = {}
      BY <1>6 DEF Attested
    <2>2. att.bundle = bundle.manifest /\ att.trace = bundle.trace.hash
      BY DEF BuiltAttestation, Sealed
    <2>3. LiveErrors(att) = {} => ReallyChecked(env, answer)
      BY LiveIsReallyChecked
    <2>4. ReallyChecked(env, answer) => <<bundle.manifest, bundle.trace>> \in checkedLive'
      BY DEF Attest
    <2> HIDE DEF new
    <2>5. bundle'.attestation = att
      <3> HIDE DEF att
      <3> QED BY <1>3, <1>4, <1>6, <2>1 DEF NoBundle
    <2> HIDE DEF att
    <2>6. /\ SealErrors(att, Site.registered) = {}
          /\ AttestationPinErrors(att, Site.pin, Site.provision, FALSE) = {}
      BY <2>1 DEF AttestationErrors
    <2>7. LiveErrors(att) = {} =>
              \E t \in Traces : t.hash = att.trace /\ <<att.bundle, t>> \in checkedLive'
      BY <1>2, <2>2, <2>3, <2>4
    <2> QED BY <2>5, <2>6, <2>7 DEF AttestationInv, Vouched
  <1> QED BY <1>5, <1>6

LEMMA AttestationByDamage ==
    ASSUME BaseInv, AttestationInv, NEW f \in Damageable, Damage(f)
    PROVE  AttestationInv'
  <1>1. PICK v \in Spoilt \cup Versions(f) : bundle' = [bundle EXCEPT ![f] = v]
    BY DEF Damage
  <1>2. DOMAIN bundle = DOMAIN NoBundle /\ Spoilt \subseteq Unread /\ checkedLive' = checkedLive
    BY BundleReleaseAssumption DEF BaseInv, BundleInv, Unread, Damage
  <1>3. CASE f = "attestation"
    <2>1. Versions(f) = {}
      BY <1>3 DEF Versions
    <2> QED BY <1>1, <1>2, <1>3, <2>1 DEF AttestationInv, NoBundle
  <1>4. CASE f # "attestation"
    <2>1. bundle'.attestation = bundle.attestation
      BY <1>1, <1>2, <1>4 DEF NoBundle
    <2> QED BY <1>2, <2>1 DEF AttestationInv, Vouched
  <1> QED BY <1>3, <1>4

LEMMA AttestationKept ==
    ASSUME BaseInv, AttestationInv, [Next]_vars
    PROVE  AttestationInv'
  <1> DEFINE Same == bundle'.attestation = bundle.attestation /\ checkedLive' = checkedLive
  <1>1. ASSUME Same PROVE AttestationInv'
    BY <1>1 DEF AttestationInv, Vouched
  <1>2. DOMAIN bundle = DOMAIN NoBundle
    BY DEF BaseInv, BundleInv
  <1>3. CASE \/ UNCHANGED vars \/ EditInputs \/ CheckWithLean \/ CheckAtRuntime \/ Save
             \/ LeanFailsOrDies \/ Load \/ BundlerDies \/ Verify
    <2>1. Same
      BY <1>3 DEF EditInputs, CheckWithLean, CheckAtRuntime, Save, LeanFailsOrDies, Load, BundlerDies,
                  Abort, BundlerOnly, Verify, vars, ghosts
    <2> QED BY <1>1, <2>1
  <1>4. CASE bundler # Idle /\ BundlerStep
    <2>1. CASE CopyTrace \/ CopyCertificate \/ ResolveEvidence \/ CopyEvidence \/ WriteListing
      BY <1>1, <1>2, <2>1 DEF CopyTrace, CopyCertificate, ResolveEvidence, CopyEvidence,
                              WriteListing, BundlerOnly, NoBundle
    <2>2. CASE CopySomeOfKernel \/ CopyRestOfKernel
      BY <1>1, <1>2, <2>2 DEF CopySomeOfKernel, CopyRestOfKernel, BundlerOnly, NoBundle
    <2>3. CASE WriteManifest \/ WriteKernelManifest
      BY <1>1, <1>2, <2>3 DEF WriteManifest, WriteKernelManifest, Abort, BundlerOnly, NoBundle
    <2>4. ASSUME NEW place \in {"result", "proof", "projection", "theorems"}, NEW next, NEW source,
                 CopyHashed(place, next, source)
          PROVE  Same
      <3>1. bundle' = bundle \/ bundle' = [bundle EXCEPT ![place] = source]
        BY <2>4 DEF CopyHashed
      <3> QED BY <1>2, <2>4, <3>1 DEF CopyHashed, BundlerOnly, NoBundle
    <2>5. CASE CopyResult \/ CopyProjection \/ CopyTheorems
      BY <1>1, <2>4, <2>5 DEF CopyResult, CopyProjection, CopyTheorems
    <2>6. CASE CopyProof
      BY <1>1, <2>4, <2>6 DEF CopyProof, Abort, BundlerOnly
    <2> QED BY <1>4, <2>1, <2>2, <2>3, <2>5, <2>6 DEF BundlerStep
  <1>5. CASE LoseEvidence
    <2>1. PICK e \in bundle.evidence : bundle' = [bundle EXCEPT !.evidence = @ \ {e}]
      BY <1>5 DEF LoseEvidence
    <2>2. Same
      BY <1>2, <1>5, <2>1 DEF LoseEvidence, NoBundle
    <2> QED BY <1>1, <2>2
  <1>6. CASE \E f \in Damageable : Damage(f)
    BY <1>6, AttestationByDamage
  <1>7. CASE \E env \in Environments, live, absence \in BOOLEAN :
                \E answer \in AnswersOf(env, Refs) : Attest(env, live, absence, answer)
    BY <1>7, AttestationByAttest
  <1> QED BY <1>3, <1>4, <1>5, <1>6, <1>7 DEF Next

LEMMA AttestationHolds == Spec => [](BaseInv /\ AttestationInv)
  <1>1. Init => AttestationInv
    BY DEF Init, NoBundle, AttestationInv, Unread
  <1> QED BY <1>1, BaseHolds, AttestationKept, PTL DEF Spec

(* What is verified as a release had a live checker run on it.               *)
THEOREM AlwaysAttestedAsReleased == Spec => []AttestedAsReleased
  <1>1. ASSUME BaseInv, AttestationInv PROVE AttestedAsReleased
    <2> SUFFICES ASSUME BundleClaim(bundle) # NoClaim, VerifyErrors(bundle, "release") = {}
                 PROVE  \E t \in Traces : t.hash = bundle.trace.hash
                                          /\ <<bundle.manifest, t>> \in checkedLive
      BY DEF AttestedAsReleased
    <2> DEFINE att == bundle.attestation
    <2>1. AttestationSidecarErrors(bundle, "release") = {}
      BY ClaimedFiles, NoStructuralErrors
    <2>2. SidecarErrors(att, bundle.notice, bundle.manifest, bundle.trace, TRUE, FALSE, Site) = {}
      BY <2>1 DEF AttestationSidecarErrors, LiveRequired
    <2> HIDE DEF att
    <2>3. att # NoFile /\ AttestationErrors(att, bundle.manifest, bundle.trace, TRUE, Site) = {}
      BY <2>2 DEF SidecarErrors
    <2>4. /\ att # Garbled /\ BoundErrors(att, bundle.manifest, bundle.trace) = {}
          /\ LiveErrors(att) = {}
      BY <2>3 DEF AttestationErrors
    <2>5. att.bundle = bundle.manifest /\ att.trace = bundle.trace.hash
      <3>1. "BundleMismatch" \notin BoundErrors(att, bundle.manifest, bundle.trace)
            /\ "TraceMismatch" \notin BoundErrors(att, bundle.manifest, bundle.trace)
        BY <2>4
      <3> QED BY <3>1 DEF BoundErrors
    <2>6. Vouched(att)
      BY <1>1, <2>3, <2>4 DEF AttestationInv, Unread, att
    <2> QED BY <2>4, <2>5, <2>6 DEF Vouched
  <1> QED BY <1>1, AttestationHolds, PTL

-----------------------------------------------------------------------------
(* The files of a bundle, read again.                                        *)
(* Without errors everything that is selected or named is there.             *)
LEMMA ResolvedIsThere ==
    ASSUME NEW t \in Traces, NEW d \in Directories, NEW mode, ResolutionErrors(t, d, mode) = {}
    PROVE  LET sel == Selection(t, d)
           IN  /\ ToSet(SelectedIds(sel, "handoffs")) \subseteq Ids(HandoffsNear(d), "handoff")
               /\ ToSet(ContractIds(t, d, sel)) \subseteq Ids(ContractsNear(d), "contract")
  <1> DEFINE sel == Selection(t, d)
  <1>1. HandoffErrors(d, sel, mode) = {} /\ ContractErrors(t, d, sel, mode) = {}
    BY DEF ResolutionErrors
  <1>2. ContractIds(t, d, sel) = IF Selects(sel, "contracts") THEN sel.contracts ELSE NamedIds(t, d)
    BY DEF ContractIds, NamedIds
  <1>3. ToSet(NamedIds(t, d)) \subseteq Ids(ContractsNear(d), "contract")
    BY NamedIdsListed DEF NamedPlaces
  <1> HIDE DEF sel
  <1>4. ToSet(SelectedIds(sel, "handoffs")) \subseteq Ids(HandoffsNear(d), "handoff")
    <2>1. "HandoffNotFound" \notin HandoffErrors(d, sel, mode)
      BY <1>1
    <2> QED BY <2>1 DEF HandoffErrors
  <1>5. ToSet(SelectedIds(sel, "contracts")) \subseteq Ids(ContractsNear(d), "contract")
    <2>1. "ContractNotFound" \notin ContractErrors(t, d, sel, mode)
      BY <1>1
    <2> QED BY <2>1 DEF ContractErrors
  <1>6. ToSet(ContractIds(t, d, sel)) \subseteq Ids(ContractsNear(d), "contract")
    BY <1>2, <1>3, <1>5 DEF SelectedIds
  <1> QED BY <1>4, <1>6 DEF sel

(* A copy is named for its item, and holds what its file holds.              *)
Entry(kind, id, body) == [name |-> <<kind, id>>, kind |-> kind, id |-> id, body |-> body]

LEMMA FileNamed ==
    ASSUME NEW d \in Directories, NEW f \in FilesNear(d), NEW item, item.path = f.name,
           item.kind = f.kind, item.id = f.id
    PROVE  ~Gone(item, d) /\ Copied(item, d) = Entry(item.kind, item.id, f.body)
  <1>1. f.name # Embedded /\ \A g \in FilesNear(d) : g.name = f.name => g = f
    BY BundleReleaseAssumption
  <1>2. (CHOOSE g \in FilesNear(d) : g.name = item.path) = f
    BY <1>1
  <1> QED BY <1>1, <1>2 DEF Gone, Copied, Entry

(* What is copied of a handoff, a contract and the frame is what was read.   *)
(* For handoffs because files of one id agree: the first is read, the last   *)
(* one copied.                                                               *)
LEMMA HandoffCopied ==
    ASSUME NEW d \in Directories, AgreesOnIds(d), NEW id \in Ids(HandoffsNear(d), "handoff")
    PROVE  /\ ~Gone(ResolvedHandoff(d, id), d)
           /\ Copied(ResolvedHandoff(d, id), d) = Entry("handoff", id, ResolvedHandoff(d, id).body)
  <1> DEFINE near == HandoffsNear(d)
             first == FirstWith(near, "handoff", id)
             last == LastWith(d.files, "handoff", id)
             path == HandoffPath(d, id)
             item == ResolvedHandoff(d, id)
  <1>1. item.kind = "handoff" /\ item.id = id /\ item.body = first.body /\ item.path = path
    BY DEF ResolvedHandoff
  <1>2. IsSequence(d.files) /\ IsSequence(d.toolUse)
    BY BundleReleaseAssumption
  <1>3. CASE id \notin Ids(d.files, "handoff")
    BY <1>1, <1>3 DEF HandoffPath, Gone, Copied, Entry
  <1>4. CASE id \in Ids(d.files, "handoff")
    <2>1. last \in ToSet(d.files) /\ last.kind = "handoff" /\ last.id = id /\ path = last.name
      BY <1>2, <1>4, FoundWith DEF HandoffPath
    <2> DEFINE own == d.files
               more == d.toolUse
               M == Matching(near, "handoff", id)
               m == Min(M)
    <2> HIDE DEF near, own, more
    <2>2. near = own \o more /\ IsSequence(own) /\ IsSequence(more)
      BY <1>2 DEF HandoffsNear, near, own, more
    <2>3. /\ Len(own) \in Nat /\ Len(more) \in Nat /\ DOMAIN own = 1..Len(own)
          /\ DOMAIN near = 1..(Len(own) + Len(more))
          /\ \A i \in 1..(Len(own) + Len(more)) :
                near[i] = IF i <= Len(own) THEN own[i] ELSE more[i - Len(own)]
      BY <2>2, Joined
    <2>4. PICK j \in 1..Len(own) : own[j].kind = "handoff" /\ own[j].id = id
      BY <1>4, <2>3 DEF Ids, ToSet, own
    <2>5. Len(own) + Len(more) \in Nat /\ j \in 1..(Len(own) + Len(more)) /\ near[j] = own[j]
      BY <2>3, <2>4
    <2>6. j \in M /\ M \subseteq 1..(Len(own) + Len(more))
      BY <2>3, <2>4, <2>5 DEF Matching
    <2>7. m \in M /\ m <= j
      <3> DEFINE n == Len(own) + Len(more)
      <3>1. n \in Nat /\ M # {} /\ M \subseteq 1..n
        BY <2>5, <2>6
      <3> HIDE DEF M, n
      <3> QED BY <2>6, <3>1, SmallestAndLargest
    <2>8. near[m].kind = "handoff" /\ near[m].id = id /\ m \in 1..(Len(own) + Len(more))
      BY <2>6, <2>7 DEF Matching
    <2> HIDE DEF M, m
    <2>9. m \in 1..Len(own) /\ near[m] = own[m]
      BY <2>3, <2>4, <2>7, <2>8
    <2>10. first = near[m]
      BY DEF FirstWith, m, M
    <2>11. first \in ToSet(d.files) /\ first.kind = "handoff" /\ first.id = id
      BY <2>3, <2>8, <2>9, <2>10 DEF ToSet, own
    <2> HIDE DEF first, last, path
    <2>12. first.body = last.body
      BY <2>1, <2>11 DEF AgreesOnIds
    <2>13. last \in FilesNear(d)
      BY <2>1 DEF FilesNear
    <2>14. ~Gone(item, d) /\ Copied(item, d) = Entry("handoff", id, last.body)
      <3> HIDE DEF item
      <3> QED BY <1>1, <2>1, <2>13, FileNamed
    <2> QED BY <1>1, <2>12, <2>14
  <1> QED BY <1>3, <1>4

LEMMA ContractCopied ==
    ASSUME NEW d \in Directories, NEW id \in Ids(ContractsNear(d), "contract")
    PROVE  /\ ~Gone(ResolvedContract(d, id), d)
           /\ Copied(ResolvedContract(d, id), d) = Entry("contract", id, ResolvedContract(d, id).body)
  <1> DEFINE file == LoadedContract(d, id)
             item == ResolvedContract(d, id)
  <1>1. IsSequence(d.files) /\ IsSequence(d.nested)
    BY BundleReleaseAssumption
  <1>2. IsSequence(ContractsNear(d)) /\ ToSet(ContractsNear(d)) = ToSet(d.files) \cup ToSet(d.nested)
    BY <1>1, Joined DEF ContractsNear
  <1>3. file \in ToSet(ContractsNear(d)) /\ file.kind = "contract" /\ file.id = id
    BY <1>2, FoundWith DEF LoadedContract
  <1>4. file \in FilesNear(d)
    BY <1>2, <1>3 DEF FilesNear
  <1>5. item.kind = "contract" /\ item.id = id /\ item.body = file.body /\ item.path = file.name
    BY DEF ResolvedContract
  <1> HIDE DEF file, item
  <1>6. ~Gone(item, d) /\ Copied(item, d) = Entry("contract", id, file.body)
    BY <1>3, <1>4, <1>5, FileNamed
  <1> QED BY <1>5, <1>6 DEF item

LEMMA FrameCopied ==
    ASSUME NEW d \in Directories, NEW id \in FrameIds(d)
    PROVE  /\ ~Gone(ResolvedFrame(d, id), d)
           /\ Copied(ResolvedFrame(d, id), d) = Entry("frame", id, FrameBody(d, id))
  <1> DEFINE file == FirstWith(d.files, "frame", id)
             item == ResolvedFrame(d, id)
  <1>1. IsSequence(d.files)
    BY BundleReleaseAssumption
  <1>2. file \in ToSet(d.files) /\ file.kind = "frame" /\ file.id = id
    BY <1>1, FoundWith DEF FrameIds
  <1>3. file \in FilesNear(d)
    BY <1>2 DEF FilesNear
  <1>4. item.kind = "frame" /\ item.id = id /\ item.path = file.name /\ file.body = FrameBody(d, id)
    BY DEF ResolvedFrame, FrameBody
  <1> HIDE DEF file, item
  <1>5. ~Gone(item, d) /\ Copied(item, d) = Entry("frame", id, file.body)
    BY <1>2, <1>3, <1>4, FileNamed
  <1> QED BY <1>4, <1>5 DEF item

(* The policy is missing when nothing selects evidence, and only then.       *)
LEMMA PolicyCopied ==
    ASSUME NEW t \in Traces, NEW d \in Directories
    PROVE  /\ Gone(PolicyItem(t), d) <=> Selection(t, d) = NoSelection
           /\ Selection(t, d) # NoSelection =>
                 Copied(PolicyItem(t), d) = Entry("policy", PolicyId, Selection(t, d))
  <1> DEFINE item == PolicyItem(t)
             file == [name |-> PolicyId, kind |-> "policy", id |-> PolicyId, body |-> d.policy]
  <1>1. /\ item.kind = "policy" /\ item.id = PolicyId /\ item.body = t.selection
        /\ item.path = IF t.selection # NoSelection THEN Embedded ELSE PolicyId
    BY DEF PolicyItem
  <1>2. /\ PolicyId # Embedded
        /\ \A f \in ToSet(d.files) \cup ToSet(d.nested) : f.name # PolicyId
    BY BundleReleaseAssumption
  <1>3. CASE t.selection # NoSelection
    BY <1>1, <1>3 DEF Gone, Copied, Entry, Selection
  <1>4. CASE t.selection = NoSelection /\ d.policy # NoSelection
    <2>1. file \in FilesNear(d) /\ file.name = PolicyId /\ file.kind = "policy"
          /\ file.id = PolicyId /\ file.body = d.policy
      BY <1>4 DEF FilesNear
    <2> HIDE DEF item, file
    <2>2. ~Gone(item, d) /\ Copied(item, d) = Entry("policy", PolicyId, d.policy)
      BY <1>1, <1>4, <2>1, FileNamed
    <2> QED BY <1>4, <2>2 DEF Selection, item
  <1>5. CASE t.selection = NoSelection /\ d.policy = NoSelection
    <2>1. FilesNear(d) = ToSet(d.files) \cup ToSet(d.nested)
      BY <1>5 DEF FilesNear
    <2>2. Gone(item, d)
      BY <1>1, <1>2, <1>5, <2>1 DEF Gone
    <2> QED BY <1>5, <2>2 DEF Selection
  <1> QED BY <1>3, <1>4, <1>5

(* A frame that is selected is found.                                        *)
LEMMA FrameIsThere ==
    ASSUME NEW t \in Traces, NEW d \in Directories, ResolutionErrors(t, d, Mode) = {}
    PROVE  \A e \in {d, Staged(EvidenceFiles(t, d))} :
              Selects(Selection(t, e), "frame") => Resolved(t, e).frame # NoFrame
  <1> DEFINE Found(t_1, d_1) ==
                \A e \in {d_1, Staged(EvidenceFiles(t_1, d_1))} :
                   Selects(Selection(t_1, e), "frame") => Resolved(t_1, e).frame # NoFrame
  <1>1. \A q \in Resolvables : Found(q[1], q[2])
    BY SentinelAssumption
  <1>2. <<t, d>> \in Resolvables
    BY DEF Resolvables
  <1> HIDE DEF Found
  <1>3. Found(<<t, d>>[1], <<t, d>>[2])
    BY <1>1, <1>2
  <1>4. Found(t, d)
    BY <1>3
  <1> QED BY <1>4 DEF Found

(* The items: the kinds they have, and that there is at most one frame.      *)
LEMMA ItemsAre ==
    ASSUME NEW t \in Traces, NEW d \in Directories, ResolutionErrors(t, d, Mode) = {}
    PROVE  LET items == Items(t, d)
               sel == Selection(t, d)
           IN  /\ IsSequence(items) /\ Len(items) \in Nat \ {0} /\ DOMAIN items = 1..Len(items)
               /\ items[Len(items)] = PolicyItem(t)
               /\ \A i \in 1..(Len(items) - 1) :
                     items[i] \in {ResolvedHandoff(d, x) : x \in ToSet(SelectedIds(sel, "handoffs"))}
                                  \cup {ResolvedContract(d, x) : x \in ToSet(ContractIds(t, d, sel))}
                                  \cup {x \in {ResolvedFrame(d, sel.frame)} : Selects(sel, "frame")}
               /\ {ResolvedHandoff(d, x) : x \in ToSet(SelectedIds(sel, "handoffs"))}
                  \cup {ResolvedContract(d, x) : x \in ToSet(ContractIds(t, d, sel))}
                  \cup {x \in {ResolvedFrame(d, sel.frame)} : Selects(sel, "frame")}
                     \subseteq {items[i] : i \in 1..(Len(items) - 1)}
               /\ \A i, j \in DOMAIN items :
                     items[i].kind = "frame" /\ items[j].kind = "frame" => i = j
  <1> DEFINE sel == Selection(t, d)
             hs == SelectedIds(sel, "handoffs")
             cs == ContractIds(t, d, sel)
             H == Resolved(t, d).handoffs
             C == Resolved(t, d).contracts
             F == FrameItems(t, d)
             P == <<PolicyItem(t)>>
             SH == {ResolvedHandoff(d, x) : x \in ToSet(hs)}
             SC == {ResolvedContract(d, x) : x \in ToSet(cs)}
             SF == {x \in {ResolvedFrame(d, sel.frame)} : Selects(sel, "frame")}
             items == Items(t, d)
  <1>1. /\ IsSequence(H) /\ IsSequence(C) /\ IsSequence(F) /\ IsSequence(P)
        /\ IsSequence(items) /\ items = H \o C \o F \o P
    BY FourParts
  <1>2. /\ H = [i \in DOMAIN hs |-> ResolvedHandoff(d, hs[i])]
        /\ C = [i \in DOMAIN cs |-> ResolvedContract(d, cs[i])]
        /\ Resolved(t, d).frame = IF Selects(sel, "frame") THEN ResolvedFrame(d, sel.frame) ELSE NoFrame
    BY ResolvedParts
  <1>3. Selects(sel, "frame") => Resolved(t, d).frame # NoFrame
    BY FrameIsThere
  <1>4. ToSet(F) = SF /\ Len(F) <= 1 /\ Len(F) \in Nat
    <2>1. F = IF Selects(sel, "frame") THEN <<ResolvedFrame(d, sel.frame)>> ELSE <<>>
      BY <1>2, <1>3 DEF FrameItems
    <2> HIDE DEF F, sel
    <2> QED BY <2>1, OneFile
  <1>5. /\ \A x \in SH : x.kind = "handoff"
        /\ \A x \in SC : x.kind = "contract"
        /\ \A x \in SF : x.kind = "frame"
        /\ Len(P) = 1 /\ P[1] = PolicyItem(t) /\ PolicyItem(t).kind = "policy"
    BY DEF ResolvedHandoff, ResolvedContract, ResolvedFrame, PolicyItem
  <1>6. ToSet(H) = SH /\ ToSet(C) = SC
    <2> HIDE DEF hs, cs, H, C
    <2> QED BY <1>2 DEF ToSet
  <1> HIDE DEF sel, hs, cs, H, C, F, P, SH, SC, SF, items
  <1> DEFINE HC == H \o C
             HCF == HC \o F
  <1>7. /\ IsSequence(HC) /\ ToSet(HC) = SH \cup SC /\ Len(HC) \in Nat
        /\ DOMAIN HC = 1..Len(HC)
    <2>1. /\ IsSequence(HC) /\ ToSet(HC) = ToSet(H) \cup ToSet(C)
          /\ Len(H) \in Nat /\ Len(C) \in Nat /\ Len(HC) = Len(H) + Len(C)
          /\ DOMAIN HC = 1..(Len(H) + Len(C))
      BY <1>1, Joined
    <2> HIDE DEF HC
    <2> QED BY <1>6, <2>1
  <1> HIDE DEF HC
  <1>8. /\ IsSequence(HCF) /\ ToSet(HCF) = SH \cup SC \cup SF
        /\ Len(HCF) = Len(HC) + Len(F) /\ Len(HCF) \in Nat /\ DOMAIN HCF = 1..Len(HCF)
        /\ \A i \in 1..Len(HCF) : i <= Len(HC) => HCF[i] = HC[i]
    <2>1. /\ IsSequence(HCF) /\ ToSet(HCF) = ToSet(HC) \cup ToSet(F)
          /\ Len(HCF) = Len(HC) + Len(F) /\ DOMAIN HCF = 1..(Len(HC) + Len(F))
          /\ \A i \in 1..(Len(HC) + Len(F)) : HCF[i] = IF i <= Len(HC) THEN HC[i] ELSE F[i - Len(HC)]
      BY <1>1, <1>7, Joined
    <2> HIDE DEF HCF
    <2> QED BY <1>4, <1>7, <2>1
  <1> HIDE DEF HCF
  <1>9. /\ Len(items) = Len(HCF) + 1 /\ DOMAIN items = 1..(Len(HCF) + 1)
        /\ \A i \in 1..(Len(HCF) + 1) : items[i] = IF i <= Len(HCF) THEN HCF[i] ELSE P[i - Len(HCF)]
    <2> DEFINE J == HCF \o P
    <2>1. IsSequence(HCF) /\ IsSequence(P)
      BY <1>1, <1>8
    <2>2. /\ Len(J) = Len(HCF) + Len(P) /\ DOMAIN J = 1..(Len(HCF) + Len(P))
          /\ \A i \in 1..(Len(HCF) + Len(P)) :
                J[i] = IF i <= Len(HCF) THEN HCF[i] ELSE P[i - Len(HCF)]
      BY <2>1, Joined
    <2>3. items = J
      BY <1>1 DEF HCF, HC
    <2> HIDE DEF J
    <2> QED BY <1>5, <2>2, <2>3
  <1>10. items[Len(items)] = PolicyItem(t)
    BY <1>5, <1>8, <1>9
  <1>11. \A i \in 1..Len(HCF) : items[i] = HCF[i] /\ items[i] \in SH \cup SC \cup SF
    <2>1. \A i \in 1..Len(HCF) : HCF[i] \in ToSet(HCF)
      BY <1>8 DEF ToSet
    <2> QED BY <1>8, <1>9, <2>1
  <1>12. SH \cup SC \cup SF \subseteq {items[i] : i \in 1..Len(HCF)}
    <2>1. ToSet(HCF) = {HCF[i] : i \in 1..Len(HCF)}
      BY <1>8 DEF ToSet
    <2> QED BY <1>8, <1>11, <2>1
  <1>13. \A i \in DOMAIN items : items[i].kind = "frame" => i = Len(HC) + 1
    <2> SUFFICES ASSUME NEW i \in DOMAIN items, items[i].kind = "frame", i # Len(HC) + 1
                 PROVE  FALSE
      OBVIOUS
    <2>1. CASE i <= Len(HC)
      <3>1. i \in 1..Len(HC) /\ i \in 1..Len(HCF)
        BY <1>4, <1>7, <1>8, <1>9, <2>1
      <3>2. items[i] = HC[i] /\ HC[i] \in ToSet(HC)
        BY <1>7, <1>8, <1>11, <2>1, <3>1 DEF ToSet
      <3> QED BY <1>5, <1>7, <3>2
    <2>2. CASE i > Len(HCF)
      <3>1. i = Len(items)
        BY <1>8, <1>9, <2>2, SMTT(30)
      <3> QED BY <1>5, <1>10, <3>1
    <2>3. i <= Len(HC) \/ i > Len(HCF)
      <3> DEFINE n == Len(HC)
                 l == Len(F)
                 o == Len(HCF)
      <3>1. n \in Nat /\ l \in Nat /\ l <= 1 /\ o = n + l /\ i \in Int /\ i # n + 1
        BY <1>4, <1>7, <1>8, <1>9
      <3> HIDE DEF n, l, o
      <3>2. i <= n \/ i > o
        BY <3>1
      <3> QED BY <3>2 DEF n, o
    <2> QED BY <2>1, <2>2, <2>3
  <1>14. Len(items) \in Nat \ {0} /\ Len(items) - 1 = Len(HCF) /\ DOMAIN items = 1..Len(items)
    BY <1>8, <1>9
  <1> QED BY <1>1, <1>10, <1>11, <1>12, <1>13, <1>14 DEF items, sel, hs, cs, SH, SC, SF

(* What is in the files of a bundle, copied from one directory.              *)
LEMMA FilesAre ==
    ASSUME NEW t \in Traces, NEW d \in Directories, ResolutionErrors(t, d, Mode) = {}, AgreesOnIds(d)
    PROVE  LET files == EvidenceFiles(t, d)
               items == Items(t, d)
               sel == Selection(t, d)
           IN  /\ IsSequence(files)
               /\ Len(files) = IF sel = NoSelection THEN Len(items) - 1 ELSE Len(items)
               /\ \A i \in DOMAIN items : Gone(items[i], d) <=> i > Len(files)
               /\ ToSet(files) =
                    {Entry("handoff", x, ResolvedHandoff(d, x).body) :
                        x \in ToSet(SelectedIds(sel, "handoffs"))}
                    \cup {Entry("contract", x, ResolvedContract(d, x).body) :
                        x \in ToSet(ContractIds(t, d, sel))}
                    \cup {x \in {Entry("frame", sel.frame, FrameBody(d, sel.frame))} :
                        Selects(sel, "frame")}
                    \cup {x \in {Entry("policy", PolicyId, sel)} : sel # NoSelection}
               /\ \A i, j \in DOMAIN files :
                     files[i].kind = "frame" /\ files[j].kind = "frame" => i = j
  <1> DEFINE sel == Selection(t, d)
             hs == SelectedIds(sel, "handoffs")
             cs == ContractIds(t, d, sel)
             items == Items(t, d)
             files == EvidenceFiles(t, d)
             hOf(x) == Entry("handoff", x, ResolvedHandoff(d, x).body)
             cOf(x) == Entry("contract", x, ResolvedContract(d, x).body)
             fOf == Entry("frame", sel.frame, FrameBody(d, sel.frame))
             pOf == Entry("policy", PolicyId, sel)
             F == {x \in {fOf} : Selects(sel, "frame")}
             P == {x \in {pOf} : sel # NoSelection}
             SF == {x \in {ResolvedFrame(d, sel.frame)} : Selects(sel, "frame")}
             Read == {ResolvedHandoff(d, x) : x \in ToSet(hs)}
                     \cup {ResolvedContract(d, x) : x \in ToSet(cs)} \cup SF
             n == Len(items) - 1
  <1>1. /\ Len(items) \in Nat \ {0} /\ DOMAIN items = 1..Len(items)
        /\ items[Len(items)] = PolicyItem(t)
        /\ \A i \in 1..n : items[i] \in Read
        /\ Read \subseteq {items[i] : i \in 1..n}
        /\ \A i, j \in DOMAIN items : items[i].kind = "frame" /\ items[j].kind = "frame" => i = j
    BY ItemsAre
  <1>2. \A x \in ToSet(hs) : ~Gone(ResolvedHandoff(d, x), d) /\ Copied(ResolvedHandoff(d, x), d) = hOf(x)
    BY ResolvedIsThere, HandoffCopied
  <1>3. \A x \in ToSet(cs) : ~Gone(ResolvedContract(d, x), d) /\ Copied(ResolvedContract(d, x), d) = cOf(x)
    BY ResolvedIsThere, ContractCopied
  <1>4. Selects(sel, "frame") => /\ ~Gone(ResolvedFrame(d, sel.frame), d)
                                 /\ Copied(ResolvedFrame(d, sel.frame), d) = fOf
    <2>1. FrameErrors(t, d, sel, Mode) = {}
      BY DEF ResolutionErrors
    <2> HIDE DEF sel
    <2>2. "FrameNotFound" \notin FrameErrors(t, d, sel, Mode)
      BY <2>1
    <2>3. Selects(sel, "frame") => sel.frame \in FrameIds(d)
      BY <2>2 DEF FrameErrors
    <2> QED BY <2>3, FrameCopied
  <1>5. /\ Gone(PolicyItem(t), d) <=> sel = NoSelection
        /\ sel # NoSelection => Copied(PolicyItem(t), d) = pOf
    BY PolicyCopied
  <1>6. files = [i \in {j \in DOMAIN items : ~Gone(items[j], d)} |-> Copied(items[i], d)]
    BY DEF EvidenceFiles
  <1>7. /\ \A x \in Read : ~Gone(x, d)
        /\ {Copied(x, d) : x \in Read} = {hOf(x) : x \in ToSet(hs)} \cup {cOf(x) : x \in ToSet(cs)} \cup F
    <2> DEFINE A == {ResolvedHandoff(d, x) : x \in ToSet(hs)}
               B == {ResolvedContract(d, x) : x \in ToSet(cs)}
    <2> HIDE DEF sel, hs, cs, hOf, cOf, fOf
    <2>1. (\A x \in A : ~Gone(x, d)) /\ {Copied(x, d) : x \in A} = {hOf(x) : x \in ToSet(hs)}
      BY <1>2
    <2>2. (\A x \in B : ~Gone(x, d)) /\ {Copied(x, d) : x \in B} = {cOf(x) : x \in ToSet(cs)}
      BY <1>3
    <2>3. (\A x \in SF : ~Gone(x, d)) /\ {Copied(x, d) : x \in SF} = F
      BY <1>4
    <2>4. Read = A \cup B \cup SF
      OBVIOUS
    <2> HIDE DEF A, B, SF, F, Read
    <2>5. {Copied(x, d) : x \in Read} = {Copied(x, d) : x \in A} \cup {Copied(x, d) : x \in B}
                                        \cup {Copied(x, d) : x \in SF}
      BY <2>4
    <2> QED BY <2>1, <2>2, <2>3, <2>4, <2>5
  <1>8. \A x, dd : Copied(x, dd).name = <<x.kind, x.id>>
    BY DEF Copied
  <1>9. \A i \in DOMAIN files : files[i].kind = items[i].kind
    <2> SUFFICES ASSUME NEW i \in DOMAIN files PROVE files[i].kind = items[i].kind
      OBVIOUS
    <2>1. i \in DOMAIN items /\ ~Gone(items[i], d) /\ files[i] = Copied(items[i], d)
      BY <1>6
    <2>2. CASE i \in 1..n
      <3>1. items[i] \in Read
        BY <1>1, <2>2
      <3>2. Copied(items[i], d) \in {hOf(x) : x \in ToSet(hs)} \cup {cOf(x) : x \in ToSet(cs)} \cup F
        BY <1>7, <3>1
      <3>3. \A e \in {hOf(x) : x \in ToSet(hs)} \cup {cOf(x) : x \in ToSet(cs)} \cup F :
               e.name = <<e.kind, e.id>>
        BY DEF Entry
      <3>4. files[i].name = <<files[i].kind, files[i].id>>
        BY <2>1, <3>2, <3>3
      <3>5. files[i].name = <<items[i].kind, items[i].id>>
        BY <1>8, <2>1
      <3> QED BY <3>4, <3>5
    <2>3. CASE i = Len(items)
      <3>1. items[i].kind = "policy" /\ files[i] = pOf
        BY <1>1, <1>5, <2>1, <2>3 DEF PolicyItem
      <3> QED BY <3>1 DEF Entry
    <2> QED BY <1>1, <2>1, <2>2, <2>3
  <1> HIDE DEF sel, hs, cs, items, files, hOf, cOf, fOf, pOf, F, SF, Read
  <1> DEFINE m == IF sel = NoSelection THEN n ELSE Len(items)
  <1>10. /\ n \in Nat /\ m \in Nat /\ {j \in DOMAIN items : ~Gone(items[j], d)} = 1..m
         /\ \A j \in DOMAIN items : ~Gone(items[j], d) <=> j <= m
    <2>1. \A j \in 1..n : ~Gone(items[j], d)
      BY <1>1, <1>7
    <2>2. Gone(items[Len(items)], d) <=> sel = NoSelection
      BY <1>1, <1>5
    <2>3. n \in Nat /\ Len(items) = n + 1 /\ m \in Nat /\ m <= Len(items)
      BY <1>1
    <2>4. \A j \in DOMAIN items : ~Gone(items[j], d) <=> j <= m
      <3> SUFFICES ASSUME NEW j \in DOMAIN items PROVE ~Gone(items[j], d) <=> j <= m
        OBVIOUS
      <3>1. CASE j \in 1..n
        BY <2>1, <2>3, <3>1
      <3>2. CASE j = Len(items)
        BY <2>2, <2>3, <3>2
      <3> QED BY <1>1, <2>3, <3>1, <3>2
    <2> HIDE DEF m, n
    <2> QED BY <1>1, <2>3, <2>4
  <1>11. files = [i \in 1..m |-> Copied(items[i], d)]
    BY <1>6, <1>10
  <1>12. IsSequence(files) /\ Len(files) = m /\ DOMAIN files = 1..m
    <2> HIDE DEF m
    <2>1. DOMAIN files = 1..m /\ files \in [1..m -> ToSet(files)]
      BY <1>11 DEF ToSet
    <2>2. \E k \in Nat : files \in [1..k -> ToSet(files)]
      BY <1>10, <2>1
    <2>3. files \in Seq(ToSet(files))
      BY <2>2, SeqDef
    <2>4. Len(files) = m
      BY <1>10, <2>1, <2>3
    <2> QED BY <2>1, <2>3, <2>4 DEF IsSequence
  <1>13. \A i \in DOMAIN items : Gone(items[i], d) <=> i > Len(files)
    <2> HIDE DEF m, n
    <2>1. \A i \in DOMAIN items : i \in Nat
      BY <1>1
    <2> QED BY <1>10, <1>12, <2>1
  <1>14. ToSet(files) = {hOf(x) : x \in ToSet(hs)} \cup {cOf(x) : x \in ToSet(cs)} \cup F \cup P
    <2>1. ToSet(files) = {Copied(items[i], d) : i \in 1..m}
      BY <1>11, <1>12 DEF ToSet
    <2>2. {Copied(items[i], d) : i \in 1..n} = {Copied(x, d) : x \in Read}
      BY <1>1
    <2>3. CASE sel = NoSelection
      BY <1>7, <2>1, <2>2, <2>3
    <2>4. CASE sel # NoSelection
      <3>1. m = n + 1 /\ 1..m = (1..n) \cup {n + 1} /\ n + 1 = Len(items)
        BY <1>1, <1>10, <2>4
      <3>2. Copied(items[n + 1], d) = pOf
        BY <1>1, <1>5, <2>4, <3>1
      <3>3. ToSet(files) = {Copied(items[i], d) : i \in 1..n} \cup {pOf}
        <4> HIDE DEF m, n
        <4> QED BY <2>1, <3>1, <3>2
      <3> QED BY <1>7, <2>2, <2>4, <3>3
    <2> QED BY <2>3, <2>4
  <1>15. \A i, j \in DOMAIN files : files[i].kind = "frame" /\ files[j].kind = "frame" => i = j
    <2>1. DOMAIN files \subseteq DOMAIN items
      BY <1>6
    <2> QED BY <1>1, <1>9, <2>1
  <1> QED BY <1>12, <1>13, <1>14, <1>15 DEF sel, hs, cs, items, files, hOf, cOf, fOf, pOf, F

(* Two copies of one name are one file.                                      *)
LEMMA OneByName ==
    ASSUME NEW t \in Traces, NEW d \in Directories, ResolutionErrors(t, d, Mode) = {}, AgreesOnIds(d)
    PROVE  \A f, g \in ToSet(EvidenceFiles(t, d)) : f.name = g.name => f = g
  <1> DEFINE sel == Selection(t, d)
             hOf(x) == Entry("handoff", x, ResolvedHandoff(d, x).body)
             cOf(x) == Entry("contract", x, ResolvedContract(d, x).body)
             fOf == Entry("frame", sel.frame, FrameBody(d, sel.frame))
             pOf == Entry("policy", PolicyId, sel)
  <1>1. \A f \in ToSet(EvidenceFiles(t, d)) :
           (\E x : f = hOf(x)) \/ (\E x : f = cOf(x)) \/ f = fOf \/ f = pOf
    BY FilesAre
  <1>2. \A kind, id, body : Entry(kind, id, body).name = <<kind, id>>
    BY DEF Entry
  <1>3. /\ \A x : hOf(x).name = <<"handoff", x>>
        /\ \A x : cOf(x).name = <<"contract", x>>
        /\ fOf.name = <<"frame", sel.frame>> /\ pOf.name = <<"policy", PolicyId>>
    BY <1>2
  <1> HIDE DEF hOf, cOf, fOf, pOf
  <1> QED BY <1>1, <1>3

LEMMA FilesByKind ==
    ASSUME NEW t \in Traces, NEW d \in Directories, ResolutionErrors(t, d, Mode) = {}, AgreesOnIds(d)
    PROVE  LET files == EvidenceFiles(t, d)
               sel == Selection(t, d)
               hs == SelectedIds(sel, "handoffs")
               cs == ContractIds(t, d, sel)
           IN  /\ Ids(files, "handoff") = ToSet(hs) /\ Ids(files, "contract") = ToSet(cs)
               /\ Ids(files, "frame") = IF Selects(sel, "frame") THEN {sel.frame} ELSE {}
               /\ Ids(files, "policy") = IF sel = NoSelection THEN {} ELSE {PolicyId}
               /\ \A f \in ToSet(files) :
                     /\ f.kind = "handoff" => f.body = ResolvedHandoff(d, f.id).body
                     /\ f.kind = "contract" => f.body = ResolvedContract(d, f.id).body
                     /\ f.kind = "frame" => f.body = FrameBody(d, sel.frame)
                     /\ f.kind = "policy" => f.body = sel
  <1> DEFINE files == EvidenceFiles(t, d)
             sel == Selection(t, d)
             hs == SelectedIds(sel, "handoffs")
             cs == ContractIds(t, d, sel)
             hOf(x) == Entry("handoff", x, ResolvedHandoff(d, x).body)
             cOf(x) == Entry("contract", x, ResolvedContract(d, x).body)
             fOf == Entry("frame", sel.frame, FrameBody(d, sel.frame))
             pOf == Entry("policy", PolicyId, sel)
             F == {x \in {fOf} : Selects(sel, "frame")}
             P == {x \in {pOf} : sel # NoSelection}
  <1>1. ToSet(files) = {hOf(x) : x \in ToSet(hs)} \cup {cOf(x) : x \in ToSet(cs)} \cup F \cup P
    BY FilesAre
  <1>2. /\ \A x : hOf(x).kind = "handoff" /\ hOf(x).id = x /\ hOf(x).body = ResolvedHandoff(d, x).body
        /\ \A x : cOf(x).kind = "contract" /\ cOf(x).id = x /\ cOf(x).body = ResolvedContract(d, x).body
        /\ fOf.kind = "frame" /\ fOf.id = sel.frame /\ fOf.body = FrameBody(d, sel.frame)
        /\ pOf.kind = "policy" /\ pOf.id = PolicyId /\ pOf.body = sel
    BY DEF Entry
  <1> HIDE DEF files, sel, hs, cs, hOf, cOf, fOf, pOf
  <1>3. Ids(files, "handoff") = ToSet(hs)
    BY <1>1, <1>2 DEF Ids
  <1>4. Ids(files, "contract") = ToSet(cs)
    BY <1>1, <1>2 DEF Ids
  <1>5. Ids(files, "frame") = IF Selects(sel, "frame") THEN {sel.frame} ELSE {}
    BY <1>1, <1>2 DEF Ids
  <1>6. Ids(files, "policy") = IF sel = NoSelection THEN {} ELSE {PolicyId}
    BY <1>1, <1>2 DEF Ids
  <1>7. ASSUME NEW f \in ToSet(files)
        PROVE  /\ f.kind = "handoff" => f.body = ResolvedHandoff(d, f.id).body
               /\ f.kind = "contract" => f.body = ResolvedContract(d, f.id).body
               /\ f.kind = "frame" => f.body = FrameBody(d, sel.frame)
               /\ f.kind = "policy" => f.body = sel
    <2>1. CASE \E x \in ToSet(hs) : f = hOf(x)
      BY <1>2, <2>1
    <2>2. CASE \E x \in ToSet(cs) : f = cOf(x)
      BY <1>2, <2>2
    <2>3. CASE f = fOf \/ f = pOf
      BY <1>2, <2>3
    <2> QED BY <1>1, <1>7, <2>1, <2>2, <2>3
  <1> QED BY <1>3, <1>4, <1>5, <1>6, <1>7 DEF files, sel, hs, cs

(* What can be listed.                                                       *)
LEMMA FilesListed ==
    ASSUME NEW t \in Traces, NEW d \in Directories, ResolutionErrors(t, d, Mode) = {}, AgreesOnIds(d)
    PROVE  EvidenceFiles(t, d) \in Listings
  <1> DEFINE items == Items(t, d)
             files == EvidenceFiles(t, d)
             Made == {Copied(p[1], p[2]) : p \in Copyings}
  <1>1. files = [i \in {j \in DOMAIN items : ~Gone(items[j], d)} |-> Copied(items[i], d)]
    BY DEF EvidenceFiles
  <1>2. items \in ItemLists
    <2>1. <<t, d>> \in Resolvables
      BY DEF Resolvables
    <2>2. \A q \in Resolvables : Items(q[1], q[2]) \in ItemLists
      BY DEF ItemLists
    <2>3. Items(<<t, d>>[1], <<t, d>>[2]) \in ItemLists
      BY <2>1, <2>2
    <2> QED BY <2>3
  <1>3. IsSequence(files)
    BY FilesAre
  <1> HIDE DEF items, files
  <1>4. \A i \in DOMAIN files : files[i] \in Made
    <2> SUFFICES ASSUME NEW i \in DOMAIN files PROVE files[i] \in Made
      OBVIOUS
    <2>1. i \in DOMAIN items /\ ~Gone(items[i], d) /\ files[i] = Copied(items[i], d)
      BY <1>1
    <2>2. items[i] \in UNION {ToSet(list) : list \in ItemLists}
      BY <1>2, <2>1 DEF ToSet
    <2>3. PICK item : item = items[i]
      OBVIOUS
    <2>4. <<item, d>> \in Copyings
      BY <2>1, <2>2, <2>3 DEF Copyings
    <2>5. \A p \in Copyings : Copied(p[1], p[2]) \in Made
      OBVIOUS
    <2>6. Copied(<<item, d>>[1], <<item, d>>[2]) \in Made
      BY <2>4, <2>5
    <2> HIDE DEF Made
    <2>7. Copied(item, d) \in Made
      BY <2>6
    <2> QED BY <2>1, <2>3, <2>7
  <1> HIDE DEF Made
  <1>5. files \in Seq(Made)
    <2>1. Len(files) \in Nat /\ files \in [1..Len(files) -> ToSet(files)]
      BY <1>3 DEF IsSequence
    <2>2. files \in [1..Len(files) -> Made]
      BY <1>4, <2>1, SMTT(30)
    <2>3. \E n \in Nat : files \in [1..n -> Made]
      BY <2>1, <2>2
    <2> QED BY <2>3, SeqDef
  <1> QED BY <1>5 DEF files, Made, Listings

(* The first of the copies, as far as a bundler has come.                    *)
Taken(t, d, n) ==
    [i \in {j \in 1..n : ~Gone(Items(t, d)[j], d)} |-> Copied(Items(t, d)[i], d)]

LEMMA NothingTaken ==
    ASSUME NEW t, NEW d
    PROVE  Taken(t, d, 0) = <<>>
  <1>1. {j \in 1..0 : ~Gone(Items(t, d)[j], d)} = {}
    OBVIOUS
  <1>2. Taken(t, d, 0) = [i \in {} |-> Copied(Items(t, d)[i], d)]
    BY <1>1 DEF Taken
  <1> QED BY <1>2

LEMMA AllTaken ==
    ASSUME NEW t \in Traces, NEW d \in Directories, ResolutionErrors(t, d, Mode) = {}
    PROVE  Taken(t, d, Len(Items(t, d))) = EvidenceFiles(t, d)
  <1>1. DOMAIN Items(t, d) = 1..Len(Items(t, d))
    BY ItemsAre
  <1> QED BY <1>1 DEF Taken, EvidenceFiles

LEMMA OneMoreTaken ==
    ASSUME NEW t \in Traces, NEW d \in Directories, ResolutionErrors(t, d, Mode) = {}, AgreesOnIds(d),
           NEW n \in Nat, n < Len(Items(t, d))
    PROVE  LET item == Items(t, d)[n + 1]
           IN  /\ Gone(item, d) => Taken(t, d, n + 1) = Taken(t, d, n)
               /\ ~Gone(item, d) =>
                     /\ Taken(t, d, n + 1) = Append(Taken(t, d, n), Copied(item, d))
                     /\ ToSet(Taken(t, d, n + 1)) \subseteq ToSet(Taken(t, d, n)) \cup {Copied(item, d)}
                     /\ Copied(item, d) \in ToSet(EvidenceFiles(t, d))
               /\ ToSet(Taken(t, d, n)) \subseteq ToSet(EvidenceFiles(t, d))
  <1> DEFINE items == Items(t, d)
             files == EvidenceFiles(t, d)
             item == items[n + 1]
             l == Len(files)
             some == Taken(t, d, n)
             more == Taken(t, d, n + 1)
  <1>1. /\ Len(items) \in Nat /\ DOMAIN items = 1..Len(items) /\ IsSequence(files)
        /\ l = Len(items) \/ l = Len(items) - 1
        /\ \A i \in DOMAIN items : Gone(items[i], d) <=> i > l
    BY FilesAre, ItemsAre
  <1>2. files = [i \in {j \in DOMAIN items : ~Gone(items[j], d)} |-> Copied(items[i], d)]
    BY DEF EvidenceFiles
  <1>3. /\ some = [i \in {j \in 1..n : ~Gone(items[j], d)} |-> Copied(items[i], d)]
        /\ more = [i \in {j \in 1..(n + 1) : ~Gone(items[j], d)} |-> Copied(items[i], d)]
    BY DEF Taken
  <1>4. l \in Nat
    <2>1. files \in Seq(ToSet(files))
      BY <1>1, Zenon DEF IsSequence
    <2> QED BY <2>1, SMTT(30)
  <1>11. n < Len(items)
    OBVIOUS
  <1> HIDE DEF items, files, l, some, more
  <1>5. n <= l /\ n + 1 \in DOMAIN items /\ \A j \in 1..n : j \in DOMAIN items /\ ~Gone(items[j], d)
    <2>1. n <= l
      <3>1. PICK k : k = Len(items)
        OBVIOUS
      <3>2. k \in Nat /\ (l = k \/ l = k - 1) /\ n < k
        BY <1>1, <1>11, <3>1
      <3>3. n \in Nat
        OBVIOUS
      <3> QED BY <1>4, <3>2, <3>3
    <2>2. n + 1 \in DOMAIN items
      BY <1>1, <1>11
    <2>3. \A j \in 1..n : j \in DOMAIN items /\ j <= l
      BY <1>1, <1>11, <2>1
    <2>4. \A j \in 1..n : ~Gone(items[j], d)
      <3> TAKE j \in 1..n
      <3>1. ~(j > l)
        BY <1>4, <2>3
      <3> QED BY <1>1, <2>3, <3>1
    <2> QED BY <2>1, <2>2, <2>3, <2>4
  <1>6. {j \in 1..n : ~Gone(items[j], d)} = 1..n
    BY <1>5
  <1>7. some = [i \in 1..n |-> Copied(items[i], d)]
    BY <1>3, <1>6
  <1>8. ToSet(some) \subseteq ToSet(files)
    <2> SUFFICES ASSUME NEW i \in 1..n PROVE some[i] \in ToSet(files)
      BY <1>7 DEF ToSet
    <2>1. i \in DOMAIN files /\ files[i] = some[i]
      BY <1>2, <1>5, <1>7
    <2> QED BY <2>1 DEF ToSet
  <1>9. ASSUME Gone(item, d) PROVE more = some
    <2>1. {j \in 1..(n + 1) : ~Gone(items[j], d)} = 1..n
      <3>1. 1..(n + 1) = (1..n) \cup {n + 1}
        OBVIOUS
      <3> QED BY <1>5, <1>9, <3>1
    <2> QED BY <1>3, <1>7, <2>1
  <1>10. ASSUME ~Gone(item, d)
         PROVE  /\ more = Append(some, Copied(item, d))
                /\ ToSet(more) \subseteq ToSet(some) \cup {Copied(item, d)}
                /\ Copied(item, d) \in ToSet(files)
    <2>1. 1..(n + 1) = (1..n) \cup {n + 1} /\ n + 1 \notin 1..n
      OBVIOUS
    <2>2. {j \in 1..(n + 1) : ~Gone(items[j], d)} = 1..(n + 1)
      BY <1>5, <1>10, <2>1
    <2>3. more = [i \in 1..(n + 1) |-> Copied(items[i], d)]
      BY <1>3, <2>2
    <2>4. n + 1 \in DOMAIN files /\ files[n + 1] = Copied(item, d)
      BY <1>2, <1>5, <1>10
    <2>5. some \in Seq(ToSet(some)) /\ Len(some) = n
      <3>1. some \in [1..n -> ToSet(some)]
        BY <1>7 DEF ToSet
      <3>2. \E k \in Nat : some \in [1..k -> ToSet(some)]
        BY <3>1
      <3>3. some \in Seq(ToSet(some))
        BY <3>2, SeqDef
      <3> QED BY <3>1, <3>3
    <2>6. Append(some, Copied(item, d)) =
             [i \in 1..(n + 1) |-> IF i = n + 1 THEN Copied(item, d) ELSE some[i]]
      BY <2>5
    <2>7. \A i \in 1..(n + 1) : more[i] = IF i = n + 1 THEN Copied(item, d) ELSE some[i]
      BY <1>7, <2>1, <2>3
    <2>8. more = Append(some, Copied(item, d))
      BY <2>3, <2>6, <2>7
    <2>9. ToSet(more) \subseteq ToSet(some) \cup {Copied(item, d)}
      BY <1>7, <2>1, <2>3, <2>7 DEF ToSet
    <2> QED BY <2>4, <2>8, <2>9 DEF ToSet
  <1> QED BY <1>8, <1>9, <1>10 DEF items, files, some, more

(* The evidence resolved again from the files of a bundle is the evidence    *)
(* they were copied from.                                                    *)
LEMMA ResolvedAgain ==
    ASSUME NEW t \in Traces, NEW d \in Directories, ResolutionErrors(t, d, Mode) = {}, AgreesOnIds(d)
    PROVE  LET s == Staged(EvidenceFiles(t, d))
               sel == Selection(t, d)
               hs == SelectedIds(sel, "handoffs")
               cs == ContractIds(t, d, sel)
           IN  /\ Selection(t, s) = sel /\ ContractIds(t, s, sel) = cs
               /\ Ids(HandoffsNear(s), "handoff") = ToSet(hs)
               /\ Ids(ContractsNear(s), "contract") = ToSet(cs)
               /\ FrameIds(s) = IF Selects(sel, "frame") THEN {sel.frame} ELSE {}
               /\ \A id : \A i, j \in Matching(s.files, "frame", id) : i = j
               /\ \A x \in ToSet(hs) : ResolvedHandoff(s, x).body = ResolvedHandoff(d, x).body
               /\ \A x \in ToSet(cs) : ResolvedContract(s, x).body = ResolvedContract(d, x).body
               /\ Selects(sel, "frame") => FrameBody(s, sel.frame) = FrameBody(d, sel.frame)
  <1> DEFINE files == EvidenceFiles(t, d)
             s == Staged(files)
             sel == Selection(t, d)
             hs == SelectedIds(sel, "handoffs")
             cs == ContractIds(t, d, sel)
  <1>1. /\ IsSequence(files)
        /\ \A i, j \in DOMAIN files : files[i].kind = "frame" /\ files[j].kind = "frame" => i = j
    BY FilesAre
  <1>2. /\ Ids(files, "handoff") = ToSet(hs) /\ Ids(files, "contract") = ToSet(cs)
        /\ Ids(files, "frame") = IF Selects(sel, "frame") THEN {sel.frame} ELSE {}
        /\ Ids(files, "policy") = IF sel = NoSelection THEN {} ELSE {PolicyId}
        /\ \A f \in ToSet(files) :
              /\ f.kind = "handoff" => f.body = ResolvedHandoff(d, f.id).body
              /\ f.kind = "contract" => f.body = ResolvedContract(d, f.id).body
              /\ f.kind = "frame" => f.body = FrameBody(d, sel.frame)
              /\ f.kind = "policy" => f.body = sel
    BY FilesByKind
  <1>3. /\ sel = IF t.selection # NoSelection THEN t.selection ELSE d.policy
        /\ ContractIds(t, d, sel) = IF Selects(sel, "contracts") THEN sel.contracts ELSE NamedIds(t, d)
        /\ ContractIds(t, s, sel) = IF Selects(sel, "contracts") THEN sel.contracts ELSE NamedIds(t, s)
    BY DEF Selection, ContractIds, NamedIds
  <1> HIDE DEF files, sel, hs
  <1>4. /\ s.files = files /\ s.nested = <<>> /\ s.toolUse = <<>>
        /\ s.policy = IF PolicyId \in Ids(files, "policy") THEN FirstWith(files, "policy", PolicyId).body
                      ELSE NoSelection
    BY DEF Staged
  <1> HIDE DEF s
  <1>5. files \o <<>> = files
    BY <1>1, ConcatEmptySeq DEF IsSequence
  <1>6. HandoffsNear(s) = files /\ ContractsNear(s) = files /\ FrameIds(s) = Ids(files, "frame")
    BY <1>4, <1>5 DEF HandoffsNear, ContractsNear, FrameIds
  <1>7. Selection(t, s) = sel
    <2>1. CASE t.selection # NoSelection
      BY <1>3, <2>1 DEF Selection
    <2>2. CASE t.selection = NoSelection /\ sel = NoSelection
      BY <1>2, <1>4, <2>2 DEF Selection
    <2>3. CASE t.selection = NoSelection /\ sel # NoSelection
      <3>1. PolicyId \in Ids(files, "policy")
        BY <1>2, <2>3
      <3>2. FirstWith(files, "policy", PolicyId).body = sel
        BY <1>1, <1>2, <3>1, FoundWith
      <3> QED BY <1>4, <2>3, <3>1, <3>2 DEF Selection
    <2> QED BY <2>1, <2>2, <2>3
  <1>8. ContractIds(t, s, sel) = cs
    <2>1. CASE Selects(sel, "contracts")
      BY <1>3, <2>1
    <2>2. CASE ~Selects(sel, "contracts")
      <3>1. cs = NamedIds(t, d)
        BY <1>3, <2>2
      <3>2. ToSet(cs) = {IdOrder[i] : i \in NamedPlaces(t, d)}
        BY <3>1, NamedIdsListed
      <3> HIDE DEF cs
      <3>3. NamedPlaces(t, s) = {i \in DOMAIN IdOrder : IdOrder[i] \in ToSet(cs) \cap ReferencedIds(t)}
        BY <1>2, <1>6 DEF NamedPlaces
      <3>4. NamedPlaces(t, d) \subseteq NamedPlaces(t, s)
        BY <3>2, <3>3 DEF NamedPlaces
      <3>5. NamedPlaces(t, s) \subseteq NamedPlaces(t, d)
        BY <3>2, <3>3 DEF NamedPlaces
      <3>6. NamedPlaces(t, s) = NamedPlaces(t, d)
        BY <3>4, <3>5
      <3> QED BY <1>3, <2>2, <3>1, <3>6 DEF NamedIds
    <2> QED BY <2>1, <2>2
  <1> HIDE DEF cs
  <1>9. ASSUME NEW x \in ToSet(hs) PROVE ResolvedHandoff(s, x).body = ResolvedHandoff(d, x).body
    <2>1. ResolvedHandoff(s, x).body = FirstWith(files, "handoff", x).body
      BY <1>6 DEF ResolvedHandoff
    <2>2. x \in Ids(files, "handoff")
      BY <1>2, <1>9
    <2> QED BY <1>1, <1>2, <2>1, <2>2, FoundWith
  <1>10. ASSUME NEW x \in ToSet(cs) PROVE ResolvedContract(s, x).body = ResolvedContract(d, x).body
    <2>1. ResolvedContract(s, x).body = LastWith(files, "contract", x).body
      BY <1>6 DEF ResolvedContract, LoadedContract
    <2>2. x \in Ids(files, "contract")
      BY <1>2, <1>10
    <2> QED BY <1>1, <1>2, <2>1, <2>2, FoundWith
  <1>11. ASSUME Selects(sel, "frame") PROVE FrameBody(s, sel.frame) = FrameBody(d, sel.frame)
    <2>1. FrameBody(s, sel.frame) = FirstWith(files, "frame", sel.frame).body
      BY <1>4 DEF FrameBody
    <2>2. sel.frame \in Ids(files, "frame")
      BY <1>2, <1>11
    <2> QED BY <1>1, <1>2, <2>1, <2>2, FoundWith
  <1>12. \A id : \A i, j \in Matching(s.files, "frame", id) : i = j
    BY <1>1, <1>4 DEF Matching
  <1> QED BY <1>2, <1>6, <1>7, <1>8, <1>9, <1>10, <1>11, <1>12 DEF s, files, sel, hs, cs

LEMMA NoErrorsAgain ==
    ASSUME NEW t \in Traces, NEW d \in Directories, ResolutionErrors(t, d, Mode) = {}, AgreesOnIds(d)
    PROVE  ResolutionErrors(t, Staged(EvidenceFiles(t, d)), Mode) = {}
  <1> DEFINE s == Staged(EvidenceFiles(t, d))
             sel == Selection(t, d)
             hs == SelectedIds(sel, "handoffs")
             cs == ContractIds(t, d, sel)
  <1>1. /\ Selection(t, s) = sel /\ ContractIds(t, s, sel) = cs
        /\ Ids(HandoffsNear(s), "handoff") = ToSet(hs)
        /\ Ids(ContractsNear(s), "contract") = ToSet(cs)
        /\ FrameIds(s) = IF Selects(sel, "frame") THEN {sel.frame} ELSE {}
        /\ \A id : \A i, j \in Matching(s.files, "frame", id) : i = j
        /\ Selects(sel, "frame") => FrameBody(s, sel.frame) = FrameBody(d, sel.frame)
    BY ResolvedAgain
  <1>2. /\ SelectionErrors(sel) = {} /\ HandoffErrors(d, sel, Mode) = {}
        /\ ContractErrors(t, d, sel, Mode) = {} /\ FrameErrors(t, d, sel, Mode) = {}
    BY DEF ResolutionErrors
  <1>3. Selects(sel, "contracts") => cs = sel.contracts
    BY DEF ContractIds
  <1>4. ResolutionErrors(t, s, Mode) =
           SelectionErrors(Selection(t, s)) \cup HandoffErrors(s, Selection(t, s), Mode)
           \cup ContractErrors(t, s, Selection(t, s), Mode) \cup FrameErrors(t, s, Selection(t, s), Mode)
    BY DEF ResolutionErrors
  <1> HIDE DEF s, sel
  <1>5. HandoffErrors(s, sel, Mode) = {}
    <2>1. "HandoffSelectionRequired" \notin HandoffErrors(d, sel, Mode)
      BY <1>2
    <2>2. ~(Mode = HandoffMode /\ ~Selects(sel, "handoffs"))
      BY <2>1 DEF HandoffErrors
    <2> QED BY <1>1, <2>2 DEF HandoffErrors
  <1>6. ContractErrors(t, s, sel, Mode) = {}
    <2> HIDE DEF hs, cs
    <2>1. ToSet(SelectedIds(sel, "contracts")) \subseteq ToSet(cs)
      BY <1>3 DEF SelectedIds, ToSet
    <2>2. /\ "ContractSelectionRequired" \notin ContractErrors(t, d, sel, Mode)
          /\ "NoContract" \notin ContractErrors(t, d, sel, Mode)
          /\ "RefsUnresolved" \notin ContractErrors(t, d, sel, Mode)
      BY <1>2
    <2>3. /\ ~(Mode = ContractMode /\ ~Selects(sel, "contracts"))
          /\ ~(Mode = ContractMode /\ cs = <<>>)
          /\ ~(Mode = ContractMode /\ ~(ReferencedIds(t) \subseteq ToSet(cs)))
      BY <2>2 DEF ContractErrors, cs
    <2> QED BY <1>1, <2>1, <2>3 DEF ContractErrors
  <1>7. FrameErrors(t, s, sel, Mode) = {}
    <2> DEFINE E == FrameErrors(t, d, sel, Mode)
               body == FrameBody(d, sel.frame)
    <2>1. /\ "FrameRequired" \notin E /\ "FrameNotFound" \notin E
          /\ "FrameScope" \notin E /\ "OutsideFrame" \notin E
      BY <1>2
    <2>2. Selects(sel, "frame") => sel.frame \in FrameIds(d)
      BY <2>1 DEF FrameErrors
    <2>3. /\ ~(Mode = FrameMode /\ ~Selects(sel, "frame"))
          /\ Selects(sel, "frame") => body.global
          /\ ~(Mode = FrameMode /\ Selects(sel, "frame") /\ ~ActionsInFrame(t, body))
      BY <2>1, <2>2 DEF FrameErrors
    <2> HIDE DEF body, hs, cs
    <2>4. Selects(sel, "frame") => sel.frame \in FrameIds(s) /\ FrameBody(s, sel.frame) = body
      BY <1>1 DEF body
    <2> QED BY <1>1, <2>3, <2>4 DEF FrameErrors
  <1> QED BY <1>1, <1>2, <1>4, <1>5, <1>6, <1>7 DEF s

(* The projection made again from the files of a bundle is the one it was    *)
(* made of first.                                                            *)
LEMMA ProjectedAgain ==
    ASSUME NEW t \in Traces, NEW d \in Directories, EvidenceErrors(t, d, Mode) = {}, AgreesOnIds(d)
    PROVE  /\ EvidenceErrors(t, Staged(EvidenceFiles(t, d)), Mode) = {}
           /\ ProjectionOf(t, Staged(EvidenceFiles(t, d)), Mode) = ProjectionOf(t, d, Mode)
  <1> DEFINE s == Staged(EvidenceFiles(t, d))
             sel == Selection(t, d)
             hs == SelectedIds(sel, "handoffs")
             cs == ContractIds(t, d, sel)
             old == Resolved(t, d)
             new == Resolved(t, s)
  <1>1. ResolutionErrors(t, d, Mode) = {} /\ ProjectionErrors(old) = {}
    BY DEF EvidenceErrors
  <1>2. ResolutionErrors(t, s, Mode) = {}
    BY <1>1, NoErrorsAgain
  <1>3. /\ Selection(t, s) = sel /\ ContractIds(t, s, sel) = cs
        /\ \A x \in ToSet(hs) : ResolvedHandoff(s, x).body = ResolvedHandoff(d, x).body
        /\ \A x \in ToSet(cs) : ResolvedContract(s, x).body = ResolvedContract(d, x).body
        /\ Selects(sel, "frame") => FrameBody(s, sel.frame) = FrameBody(d, sel.frame)
    BY <1>1, ResolvedAgain
  <1>4. /\ old.handoffs = [i \in DOMAIN hs |-> ResolvedHandoff(d, hs[i])]
        /\ old.contracts = [i \in DOMAIN cs |-> ResolvedContract(d, cs[i])]
        /\ old.frame = IF Selects(sel, "frame") THEN ResolvedFrame(d, sel.frame) ELSE NoFrame
    BY ResolvedParts
  <1> HIDE DEF s, sel
  <1>5. /\ new.handoffs = [i \in DOMAIN hs |-> ResolvedHandoff(s, hs[i])]
        /\ new.contracts = [i \in DOMAIN cs |-> ResolvedContract(s, cs[i])]
        /\ new.frame = IF Selects(sel, "frame") THEN ResolvedFrame(s, sel.frame) ELSE NoFrame
    <2>1. LET again == Selection(t, s)
              hsA == SelectedIds(again, "handoffs")
              csA == ContractIds(t, s, again)
          IN  /\ new.handoffs = [i \in DOMAIN hsA |-> ResolvedHandoff(s, hsA[i])]
              /\ new.contracts = [i \in DOMAIN csA |-> ResolvedContract(s, csA[i])]
              /\ new.frame = IF Selects(again, "frame") THEN ResolvedFrame(s, again.frame) ELSE NoFrame
      BY ResolvedParts
    <2> HIDE DEF new, cs
    <2> QED BY <1>3, <2>1
  <1>6. EvidenceErrors(t, s, Mode) = ProjectionErrors(new)
    BY <1>2 DEF EvidenceErrors
  <1> DEFINE shown(r) == [i \in DOMAIN r.handoffs |-> Shown(r.handoffs[i])]
             asked(r) == [i \in DOMAIN r.contracts |->
                            [id |-> r.contracts[i].id, body |-> r.contracts[i].body,
                             events |-> ReferencingEvents(EventsOf(t), r.contracts[i].id)]]
             framed(r) == IF r.frame = NoFrame THEN NoFrame ELSE Shown(r.frame)
             events == [i \in DOMAIN EventsOf(t) |-> ProjectedEvent(EventsOf(t)[i])]
  <1>7. /\ ProjectionOf(t, d, Mode) = [mode |-> Mode, events |-> events, handoffs |-> shown(old),
                                       contracts |-> asked(old), frame |-> framed(old)]
        /\ ProjectionOf(t, s, Mode) = [mode |-> Mode, events |-> events, handoffs |-> shown(new),
                                       contracts |-> asked(new), frame |-> framed(new)]
    BY DEF ProjectionOf, Project, Mapped
  <1> HIDE DEF old, new, hs, cs
  <1>8. /\ DOMAIN new.handoffs = DOMAIN hs /\ DOMAIN old.handoffs = DOMAIN hs
        /\ \A i \in DOMAIN hs : new.handoffs[i].id = old.handoffs[i].id
                                /\ new.handoffs[i].body = old.handoffs[i].body
    <2>1. \A x : ResolvedHandoff(s, x).id = x /\ ResolvedHandoff(d, x).id = x
      BY DEF ResolvedHandoff
    <2>2. \A i \in DOMAIN hs : hs[i] \in ToSet(hs)
      BY DEF ToSet
    <2> QED BY <1>3, <1>4, <1>5, <2>1, <2>2
  <1>9. /\ DOMAIN new.contracts = DOMAIN cs /\ DOMAIN old.contracts = DOMAIN cs
        /\ \A i \in DOMAIN cs : new.contracts[i].id = old.contracts[i].id
                                /\ new.contracts[i].body = old.contracts[i].body
    <2>1. \A x : ResolvedContract(s, x).id = x /\ ResolvedContract(d, x).id = x
      BY DEF ResolvedContract
    <2>2. \A i \in DOMAIN cs : cs[i] \in ToSet(cs)
      BY DEF ToSet
    <2> QED BY <1>3, <1>4, <1>5, <2>1, <2>2
  <1>10. ProjectionErrors(new) = {}
    <2>1. "EmptyDelegation" \notin ProjectionErrors(old)
          /\ "DelegationNotInCatalog" \notin ProjectionErrors(old)
      BY <1>1
    <2>2. \A i \in DOMAIN hs : /\ old.handoffs[i].body.caps # <<>>
                               /\ \A c \in ToSet(old.handoffs[i].body.caps) : InCatalog(c)
      BY <1>8, <2>1 DEF ProjectionErrors
    <2> QED BY <1>8, <2>2 DEF ProjectionErrors
  <1>11. shown(new) = shown(old)
    <2>1. \A i \in DOMAIN hs : Shown(new.handoffs[i]) = Shown(old.handoffs[i])
      BY <1>8 DEF Shown
    <2> QED BY <1>8, <2>1
  <1>12. asked(new) = asked(old)
    BY <1>9
  <1>13. framed(new) = framed(old)
    <2>1. CASE ~Selects(sel, "frame")
      BY <1>4, <1>5, <2>1
    <2>2. CASE Selects(sel, "frame")
      <3>1. old.frame # NoFrame /\ new.frame # NoFrame
        BY <1>1, <1>3, <2>2, FrameIsThere DEF s, sel, old, new
      <3>2. /\ old.frame.id = sel.frame /\ old.frame.body = FrameBody(d, sel.frame)
            /\ new.frame.id = sel.frame /\ new.frame.body = FrameBody(s, sel.frame)
        BY <1>4, <1>5, <2>2 DEF ResolvedFrame
      <3> QED BY <1>3, <2>2, <3>1, <3>2 DEF Shown
    <2> QED BY <2>1, <2>2
  <1> HIDE DEF shown, asked, framed, events
  <1> QED BY <1>6, <1>7, <1>10, <1>11, <1>12, <1>13 DEF s

-----------------------------------------------------------------------------
(* A bundler nobody disturbs: what it has copied so far is what the settled  *)
(* workspace holds, and so is what it remembers.                             *)
Copies == {"trace", "certificate", "result", "proof", "projection", "theorems", "listing", "kernel",
           "manifest"}
Stage == [trace |-> 1, certificate |-> 2, result |-> 3, proof |-> 4, projection |-> 5,
          theorems |-> 6, evidence |-> 7, listing |-> 8, kernel |-> 9, manifest |-> 10, finish |-> 11]
Done(place) == Stage[place] < Stage[bundler.pc]

Drafted(t, d, k) ==
    LET p == ProjectionOf(t, d, Mode)
    IN  [trace |-> t.hash, class |-> "LeanKernelChecked", proofHash |-> p, proof |-> p,
         result |-> KernelChecked(t, d, k), projection |-> p, theorems |-> p,
         listing |-> EvidenceFiles(t, d), kernel |-> NoFile]

Whole(t, d, k) ==
    LET p == ProjectionOf(t, d, Mode)
    IN  [trace |-> t, certificate |-> KernelChecked(t, d, k), result |-> KernelChecked(t, d, k),
         proof |-> p, projection |-> p, theorems |-> p, listing |-> EvidenceFiles(t, d),
         kernel |-> k, manifest |-> Manifest(Drafted(t, d, k), k)]

MemoryInv ==
    /\ bundler.trace = trace /\ bundler.certificate = KernelChecked(trace, dir, kernel)
    /\ Done("listing") => bundler.kernel = kernel
    /\ \A f \in {"trace", "class", "proofHash"} :
          bundler.draft[f] = Drafted(trace, dir, kernel)[f]
    /\ \A f \in {"result", "proof", "projection", "theorems"} :
          Done(f) => bundler.draft[f] = Drafted(trace, dir, kernel)[f]

CopiesInv == \A f \in Copies : Done(f) => bundle[f] = Whole(trace, dir, kernel)[f]

(* The evidence item by item, and the kernel in two parts.                   *)
EvidenceInv ==
    /\ bundler.copied \subseteq {kernel}
    /\ ~Done("evidence") => bundler.taken = 0
    /\ bundler.pc = "listing" =>
          /\ bundler.items = Items(trace, dir) /\ bundler.taken \in 0..Len(bundler.items)
          /\ bundler.draft.listing = Taken(trace, dir, bundler.taken)
          /\ ToSet(bundler.draft.listing) \subseteq bundle.evidence
    /\ Done("listing") =>
          /\ bundler.draft.listing = EvidenceFiles(trace, dir)
          /\ ToSet(EvidenceFiles(trace, dir)) \subseteq bundle.evidence

(* A finished bundle, of whatever the workspace was then.                    *)
Genuine(t, d, k) ==
    /\ AgreesOnIds(d) /\ EvidenceErrors(t, d, Mode) = {}
    /\ KernelChecked(t, d, k) \in LeanCertificates /\ ClaimOf(KernelChecked(t, d, k)) \in issued
    /\ \A f \in Copies : bundle[f] = Whole(t, d, k)[f]
    /\ ToSet(EvidenceFiles(t, d)) \subseteq bundle.evidence
    /\ bundle.kernelManifest = k

HonestInv ==
    /\ quiet /\ bundler = Idle => \E t \in Traces, d \in Directories, k \in Kernels : Genuine(t, d, k)
    /\ quiet /\ bundler # Idle => Settled /\ MemoryInv /\ CopiesInv /\ EvidenceInv

(* What a settled workspace holds.                                           *)
LEMMA SettledFiles ==
    ASSUME BaseInv, Settled, out.certificate # NoFile
    PROVE  LET c == KernelChecked(trace, dir, kernel)
               p == ProjectionOf(trace, dir, Mode)
           IN  /\ c \in LeanCertificates /\ ClaimOf(c) \in issued /\ c # NoFile
               /\ c.proof = p /\ c.projection = p /\ c.trace = trace.hash /\ c.class = "LeanKernelChecked"
               /\ p \in Projections /\ p # NoFile
               /\ out.certificate = c /\ out.result = c /\ out.projection = p /\ out.theorems = p
               /\ proofs[trace.hash] = p
               /\ ResolutionErrors(trace, dir, Mode) = {} /\ EvidenceFiles(trace, dir) \in Listings
  <1> DEFINE c == KernelChecked(trace, dir, kernel)
             p == ProjectionOf(trace, dir, Mode)
  <1>1. c.proof = p /\ c.projection = p /\ c.trace = trace.hash /\ c.class = "LeanKernelChecked"
    BY DEF KernelChecked
  <1> HIDE DEF c, p
  <1>2. out.certificate = c /\ out.result = c /\ out.projection = p /\ out.theorems = p
        /\ proofs[trace.hash] = p
    BY <1>1 DEF Settled, c
  <1>3. c \in Known(issued)
    BY <1>2 DEF BaseInv, WorkspaceInv
  <1>4. c \in LeanCertificates /\ ClaimOf(c) \in issued /\ c # NoFile
    BY <1>1, <1>3, KnownCertificates DEF Unread
  <1>5. p \in Projections /\ p # NoFile
    BY <1>1, <1>4, LeanCertificateShape, NothingUnread DEF Unread
  <1>6. ResolutionErrors(trace, dir, Mode) = {}
    BY DEF Settled, EvidenceErrors
  <1>7. EvidenceFiles(trace, dir) \in Listings
    BY <1>6, FilesListed DEF Settled, BaseInv, WorkspaceInv
  <1> QED BY <1>1, <1>2, <1>4, <1>5, <1>6, <1>7 DEF c, p

LEMMA Undisturbed ==
    ASSUME BaseInv, HonestInv, quiet, bundler # Idle
    PROVE  /\ Settled /\ MemoryInv /\ CopiesInv /\ EvidenceInv /\ out.certificate # NoFile
           /\ bundler.pc \in Places \ {"idle"} /\ bundler.draft \in ManifestOf({NoFile})
  <1>1. Settled /\ MemoryInv /\ CopiesInv /\ EvidenceInv
    BY DEF HonestInv
  <1>2. /\ bundler.certificate \in Known(issued)
        /\ bundler.pc \in Places \ {"idle"} /\ bundler.draft \in ManifestOf({NoFile})
    BY DEF BaseInv, BundlerInv
  <1>3. out.certificate = bundler.certificate
    BY <1>1 DEF Settled, MemoryInv
  <1>4. out.certificate # NoFile
    BY <1>2, <1>3, KnownCertificates DEF Unread
  <1> QED BY <1>1, <1>2, <1>4

LEMMA StillSettled ==
    ASSUME Settled, BundlerOnly
    PROVE  /\ Settled'
           /\ UNCHANGED <<trace, dir, kernel>>
  BY DEF Settled, AgreesOnIds, BundlerOnly, workspace, inputs

(* The places in their order.                                                *)
Following == [trace |-> "certificate", certificate |-> "result", result |-> "proof",
              proof |-> "projection", projection |-> "theorems", theorems |-> "evidence",
              evidence |-> "listing", listing |-> "kernel", kernel |-> "manifest",
              manifest |-> "finish"]

LEMMA OneFurther ==
    ASSUME NEW place \in DOMAIN Following, bundler.pc = place, bundler'.pc = Following[place]
    PROVE  \A f \in DOMAIN Stage : Done(f)' <=> (Done(f) \/ f = place)
  BY DEF Following, Stage, Done

LEMMA EvidenceMove ==
    ASSUME BaseInv, HonestInv, quiet, bundler # Idle, BundlerOnly,
           NEW place \in DOMAIN Following \ {"evidence", "listing"},
           bundler.pc = place, bundler'.pc = Following[place],
           bundler'.copied = bundler.copied, bundler'.taken = bundler.taken,
           bundler'.draft.listing = bundler.draft.listing, bundle'.evidence = bundle.evidence
    PROVE  EvidenceInv'
  <1>1. Settled /\ EvidenceInv
    BY Undisturbed
  <1>2. UNCHANGED <<trace, dir, kernel>>
    BY <1>1, StillSettled
  <1>3. \A f \in DOMAIN Stage : Done(f)' <=> (Done(f) \/ f = place)
    BY OneFurther
  <1>4. /\ Done("evidence")' <=> Done("evidence")
        /\ Done("listing")' <=> Done("listing")
        /\ bundler'.pc # "listing"
    BY <1>3 DEF Following, Stage
  <1>5. EvidenceFiles(trace, dir)' = EvidenceFiles(trace, dir)
    BY <1>2
  <1> QED BY <1>1, <1>2, <1>4, <1>5 DEF EvidenceInv

LEMMA HonestMove ==
    ASSUME BaseInv, HonestInv, quiet, bundler # Idle, BundlerOnly,
           NEW place \in DOMAIN Following, bundler.pc = place, bundler'.pc = Following[place],
           bundler' # Idle,
           bundler'.trace = bundler.trace, bundler'.certificate = bundler.certificate,
           bundler'.kernel = IF place = "listing" THEN kernel ELSE bundler.kernel,
           \A f \in {"trace", "class", "proofHash"} : bundler'.draft[f] = bundler.draft[f],
           \A f \in {"result", "proof", "projection", "theorems"} :
              bundler'.draft[f] = IF f = place THEN Drafted(trace, dir, kernel)[f] ELSE bundler.draft[f],
           \A f \in Copies :
              bundle'[f] = IF f = place THEN Whole(trace, dir, kernel)[f] ELSE bundle[f],
           EvidenceInv'
    PROVE  HonestInv'
  <1>1. Settled /\ MemoryInv /\ CopiesInv
    BY Undisturbed
  <1>2. Settled' /\ UNCHANGED <<trace, dir, kernel>>
    BY <1>1, StillSettled
  <1>3. \A f \in DOMAIN Stage : Done(f)' <=> (Done(f) \/ f = place)
    BY OneFurther
  <1>4. /\ Drafted(trace, dir, kernel)' = Drafted(trace, dir, kernel)
        /\ Whole(trace, dir, kernel)' = Whole(trace, dir, kernel)
        /\ KernelChecked(trace, dir, kernel)' = KernelChecked(trace, dir, kernel)
    BY <1>2
  <1> DEFINE D == Drafted(trace, dir, kernel)
             W == Whole(trace, dir, kernel)
             K == KernelChecked(trace, dir, kernel)
  <1> HIDE DEF D, W, K
  <1>5. MemoryInv'
    <2>1. bundler'.trace = trace' /\ bundler'.certificate = K'
      BY <1>1, <1>2, <1>4 DEF MemoryInv, K
    <2>2. Done("listing")' => bundler'.kernel = kernel'
      <3>1. CASE place = "listing"
        BY <1>2, <3>1
      <3>2. CASE place # "listing"
        BY <1>1, <1>2, <1>3, <3>2 DEF MemoryInv, Stage
      <3> QED BY <3>1, <3>2
    <2>3. \A f \in {"trace", "class", "proofHash"} : bundler'.draft[f] = D'[f]
      BY <1>1, <1>4 DEF MemoryInv, D
    <2>4. ASSUME NEW f \in {"result", "proof", "projection", "theorems"}, Done(f)'
          PROVE  bundler'.draft[f] = D'[f]
      <3>1. CASE f = place
        BY <1>4, <3>1 DEF D
      <3>2. CASE f # place
        <4>1. Done(f)
          BY <1>3, <2>4, <3>2 DEF Stage
        <4>2. bundler.draft[f] = D[f]
          BY <1>1, <4>1 DEF MemoryInv, D
        <4> QED BY <1>4, <3>2, <4>2 DEF D
      <3> QED BY <3>1, <3>2
    <2> QED BY <2>1, <2>2, <2>3, <2>4 DEF MemoryInv, D, K
  <1>6. CopiesInv'
    <2>1. ASSUME NEW f \in Copies, Done(f)'
          PROVE  bundle'[f] = W'[f]
      <3>1. CASE f = place
        BY <1>4, <3>1 DEF W
      <3>2. CASE f # place
        <4>1. Done(f)
          BY <1>3, <2>1, <3>2 DEF Stage, Copies
        <4>2. bundle[f] = W[f]
          BY <1>1, <4>1 DEF CopiesInv, W
        <4> QED BY <1>4, <3>2, <4>2 DEF W
      <3> QED BY <3>1, <3>2
    <2> QED BY <2>1 DEF CopiesInv, W
  <1> QED BY <1>2, <1>5, <1>6 DEF HonestInv

(* A step that stays where it is, at the evidence or at the kernel.          *)
LEMMA HonestStay ==
    ASSUME BaseInv, HonestInv, quiet, bundler # Idle, BundlerOnly,
           bundler'.pc = bundler.pc, bundler' # Idle,
           bundler'.trace = bundler.trace, bundler'.certificate = bundler.certificate,
           bundler'.kernel = bundler.kernel,
           \A f \in {"trace", "class", "proofHash", "result", "proof", "projection", "theorems"} :
              bundler'.draft[f] = bundler.draft[f],
           \A f \in Copies : f # bundler.pc => bundle'[f] = bundle[f],
           EvidenceInv'
    PROVE  HonestInv'
  <1>1. Settled /\ MemoryInv /\ CopiesInv
    BY Undisturbed
  <1>2. Settled' /\ UNCHANGED <<trace, dir, kernel>>
    BY <1>1, StillSettled
  <1>3. \A f \in DOMAIN Stage : (Done(f)' <=> Done(f)) /\ (f = bundler.pc => ~Done(f))
    BY DEF Done, Stage
  <1>4. /\ Drafted(trace, dir, kernel)' = Drafted(trace, dir, kernel)
        /\ Whole(trace, dir, kernel)' = Whole(trace, dir, kernel)
        /\ KernelChecked(trace, dir, kernel)' = KernelChecked(trace, dir, kernel)
    BY <1>2
  <1> DEFINE D == Drafted(trace, dir, kernel)
             W == Whole(trace, dir, kernel)
             K == KernelChecked(trace, dir, kernel)
  <1>5. Copies \subseteq DOMAIN Stage /\ "listing" \in DOMAIN Stage
        /\ {"result", "proof", "projection", "theorems"} \subseteq DOMAIN Stage
    BY DEF Copies, Stage
  <1> HIDE DEF D, W, K
  <1>6. MemoryInv'
    <2>1. /\ bundler'.trace = trace' /\ bundler'.certificate = K'
          /\ Done("listing")' => bundler'.kernel = kernel'
      BY <1>1, <1>2, <1>3, <1>4, <1>5 DEF MemoryInv, K
    <2>2. \A f \in {"trace", "class", "proofHash"} : bundler'.draft[f] = D'[f]
      BY <1>1, <1>4 DEF MemoryInv, D
    <2>3. \A f \in {"result", "proof", "projection", "theorems"} :
             Done(f)' => bundler'.draft[f] = D'[f]
      <3>1. \A f \in {"result", "proof", "projection", "theorems"} :
               Done(f) => bundler.draft[f] = D[f]
        BY <1>1 DEF MemoryInv, D
      <3> QED BY <1>3, <1>4, <1>5, <3>1 DEF D
    <2> QED BY <2>1, <2>2, <2>3 DEF MemoryInv, D, K
  <1>7. CopiesInv'
    <2>1. ASSUME NEW f \in Copies, Done(f)' PROVE bundle'[f] = W'[f]
      <3>1. Done(f) /\ f # bundler.pc
        BY <1>3, <1>5, <2>1
      <3>2. bundle[f] = W[f]
        BY <1>1, <3>1 DEF CopiesInv, W
      <3> QED BY <1>4, <3>1, <3>2 DEF W
    <2> QED BY <2>1 DEF CopiesInv, W
  <1> QED BY <1>2, <1>6, <1>7 DEF HonestInv

(* A step that writes one file, and nothing into the manifest.               *)
LEMMA HonestWrite ==
    ASSUME BaseInv, HonestInv, quiet, bundler # Idle, BundlerOnly,
           NEW place \in {"trace", "certificate", "kernel", "manifest"}, bundler.pc = place,
           Then(Following[place]), NEW source, source = Whole(trace, dir, kernel)[place],
           bundle' = [bundle EXCEPT ![place] = source]
    PROVE  HonestInv'
  <1>1. /\ bundler \in [pc: Places \ {"idle"}, trace: Traces, certificate: Known(issued),
                        kernel: Kernels \cup {NoFile}, items: ItemLists, taken: Nat,
                        copied: SUBSET Kernels, draft: ManifestOf({NoFile})]
        /\ DOMAIN bundle = DOMAIN NoBundle
    BY DEF BaseInv, BundlerInv, BundleInv
  <1>2. bundler' = [bundler EXCEPT !.pc = Following[place]] /\ Following[place] # "idle"
    BY DEF Then, Following
  <1>3. /\ bundler'.pc = Following[place] /\ bundler' # Idle /\ bundler'.trace = bundler.trace
        /\ bundler'.certificate = bundler.certificate /\ bundler'.kernel = bundler.kernel
        /\ bundler'.draft = bundler.draft /\ bundler'.taken = bundler.taken
        /\ bundler'.copied = bundler.copied
    BY <1>1, <1>2 DEF Idle
  <1>4. \A f \in Copies : bundle'[f] = IF f = place THEN Whole(trace, dir, kernel)[f] ELSE bundle[f]
    <2> DEFINE W == Whole(trace, dir, kernel)
    <2> HIDE DEF W
    <2>1. source = W[place]
      BY DEF W
    <2>2. \A f \in Copies : bundle'[f] = IF f = place THEN W[f] ELSE bundle[f]
      BY <1>1, <2>1 DEF Copies, NoBundle
    <2> QED BY <2>2 DEF W
  <1>5. bundle'.evidence = bundle.evidence
    BY <1>1 DEF NoBundle
  <1>6. place \in DOMAIN Following /\ place \in DOMAIN Following \ {"evidence", "listing"}
    BY DEF Following
  <1>7. EvidenceInv'
    BY <1>3, <1>5, <1>6, EvidenceMove
  <1> QED BY <1>3, <1>4, <1>6, <1>7, HonestMove

(* A step that copies one file and notes its hash.                           *)
LEMMA HonestCopyHashed ==
    ASSUME BaseInv, HonestInv, quiet, bundler # Idle,
           NEW place \in {"result", "proof", "projection", "theorems"}, NEW source, source # NoFile,
           source = Whole(trace, dir, kernel)[place], source = Drafted(trace, dir, kernel)[place],
           CopyHashed(place, Following[place], source)
    PROVE  HonestInv'
  <1>1. /\ bundler \in [pc: Places \ {"idle"}, trace: Traces, certificate: Known(issued),
                        kernel: Kernels \cup {NoFile}, items: ItemLists, taken: Nat,
                        copied: SUBSET Kernels, draft: ManifestOf({NoFile})]
        /\ DOMAIN bundle = DOMAIN NoBundle
    BY DEF BaseInv, BundlerInv, BundleInv
  <1> DEFINE d == [bundler.draft EXCEPT ![place] = source]
             next == Following[place]
  <1>2. /\ bundle' = [bundle EXCEPT ![place] = source] /\ bundler.pc = place /\ BundlerOnly
        /\ bundler' = [bundler EXCEPT !.pc = next, !.draft = d]
    BY <1>1 DEF CopyHashed, At
  <1>3. /\ next # "idle" /\ place \in DOMAIN Following
        /\ place \in DOMAIN Following \ {"evidence", "listing"}
    BY DEF Following
  <1>4. /\ \A f \in {"trace", "class", "proofHash", "listing"} : d[f] = bundler.draft[f]
        /\ \A f \in {"result", "proof", "projection", "theorems"} :
              d[f] = IF f = place THEN source ELSE bundler.draft[f]
    <2>1. bundler.draft \in ManifestOf({NoFile})
      BY <1>1
    <2> QED BY <2>1 DEF ManifestOf
  <1> HIDE DEF d, next
  <1>5. /\ bundler'.pc = next /\ bundler' # Idle /\ bundler'.trace = bundler.trace
        /\ bundler'.certificate = bundler.certificate /\ bundler'.kernel = bundler.kernel
        /\ bundler'.draft = d /\ bundler'.taken = bundler.taken /\ bundler'.copied = bundler.copied
    BY <1>1, <1>2, <1>3 DEF Idle
  <1> DEFINE W == Whole(trace, dir, kernel)
             D == Drafted(trace, dir, kernel)
  <1>6. source = W[place] /\ source = D[place]
    OBVIOUS
  <1> HIDE DEF W, D
  <1>7. \A f \in Copies : bundle'[f] = IF f = place THEN W[f] ELSE bundle[f]
    BY <1>1, <1>2, <1>6 DEF Copies, NoBundle
  <1>8. bundle'.evidence = bundle.evidence
    BY <1>1, <1>2 DEF NoBundle
  <1>9. /\ \A f \in {"trace", "class", "proofHash"} : bundler'.draft[f] = bundler.draft[f]
        /\ \A f \in {"result", "proof", "projection", "theorems"} :
              bundler'.draft[f] = IF f = place THEN D[f] ELSE bundler.draft[f]
        /\ bundler'.draft.listing = bundler.draft.listing
    BY <1>4, <1>5, <1>6
  <1>10. EvidenceInv'
    <2>1. bundler'.pc = Following[place]
      BY <1>5 DEF next
    <2> QED BY <1>2, <1>3, <1>5, <1>8, <1>9, <2>1, EvidenceMove
  <1> QED BY <1>2, <1>3, <1>5, <1>7, <1>9, <1>10, HonestMove DEF W, D, next

LEMMA HonestCopies ==
    ASSUME BaseInv, HonestInv, quiet, quiet', bundler # Idle,
           CopyResult \/ CopyProof \/ CopyProjection \/ CopyTheorems
    PROVE  HonestInv'
  <1> DEFINE c == KernelChecked(trace, dir, kernel)
             p == ProjectionOf(trace, dir, Mode)
  <1>1. /\ Settled /\ MemoryInv /\ CopiesInv /\ out.certificate # NoFile
        /\ bundler.draft \in ManifestOf({NoFile})
    BY Undisturbed
  <1>2. /\ c # NoFile /\ c.proof = p /\ c.trace = trace.hash /\ p # NoFile
        /\ out.result = c /\ out.projection = p /\ out.theorems = p /\ proofs[trace.hash] = p
    BY <1>1, SettledFiles
  <1>3. bundler.certificate = c
    BY <1>1 DEF MemoryInv
  <1>4. /\ c = Whole(trace, dir, kernel)["result"] /\ c = Drafted(trace, dir, kernel)["result"]
        /\ \A f \in {"proof", "projection", "theorems"} :
              p = Whole(trace, dir, kernel)[f] /\ p = Drafted(trace, dir, kernel)[f]
    BY DEF Whole, Drafted
  <1>5. /\ Following["result"] = "proof" /\ Following["proof"] = "projection"
        /\ Following["projection"] = "theorems" /\ Following["theorems"] = "evidence"
    BY DEF Following
  <1> HIDE DEF c, p
  <1>6. CASE CopyResult
    <2>1. CopyHashed("result", Following["result"], c)
      BY <1>2, <1>5, <1>6 DEF CopyResult
    <2> QED BY <1>2, <1>4, <2>1, HonestCopyHashed
  <1>7. CASE CopyProof
    <2>1. CopyHashed("proof", Following["proof"], p)
      <3>1. CopyHashed("proof", "projection", p)
        BY <1>2, <1>3, <1>7 DEF CopyProof
      <3> QED BY <1>5, <3>1
    <2> QED BY <1>2, <1>4, <2>1, HonestCopyHashed
  <1>8. Companion(p) = p
    BY <1>2 DEF Companion
  <1>9. CASE CopyProjection
    <2>1. CopyHashed("projection", Following["projection"], p)
      BY <1>2, <1>5, <1>8, <1>9 DEF CopyProjection
    <2> QED BY <1>2, <1>4, <2>1, HonestCopyHashed
  <1>10. CASE CopyTheorems
    <2>1. CopyHashed("theorems", Following["theorems"], p)
      BY <1>2, <1>5, <1>8, <1>10 DEF CopyTheorems
    <2> QED BY <1>2, <1>4, <2>1, HonestCopyHashed
  <1> QED BY <1>6, <1>7, <1>9, <1>10

LEMMA HonestResolveEvidence ==
    ASSUME BaseInv, HonestInv, quiet, bundler # Idle, ResolveEvidence
    PROVE  HonestInv'
  <1> DEFINE items == Items(trace, dir)
             d == [bundler.draft EXCEPT !["listing"] = <<>>]
  <1>1. /\ Settled /\ MemoryInv /\ CopiesInv /\ EvidenceInv /\ out.certificate # NoFile
        /\ bundler \in [pc: Places \ {"idle"}, trace: Traces, certificate: Known(issued),
                        kernel: Kernels \cup {NoFile}, items: ItemLists, taken: Nat,
                        copied: SUBSET Kernels, draft: ManifestOf({NoFile})]
        /\ trace \in Traces /\ dir \in Directories
    BY Undisturbed DEF BaseInv, BundlerInv, WorkspaceInv
  <1>2. ResolutionErrors(bundler.trace, dir, Mode) = {} /\ bundler.trace = trace
    BY <1>1, SettledFiles DEF MemoryInv
  <1>3. /\ bundle' = bundle /\ bundler.pc = "evidence" /\ BundlerOnly
        /\ bundler' = [bundler EXCEPT !.pc = "listing", !.draft.listing = <<>>, !.items = items]
    BY <1>2 DEF ResolveEvidence, At
  <1>4. IsSequence(items) /\ Len(items) \in Nat
    BY <1>1, <1>2, ItemsAre
  <1> HIDE DEF items
  <1>5. bundler' = [bundler EXCEPT !.pc = "listing", !.draft = d, !.items = items]
    BY <1>1, <1>3
  <1>6. /\ \A f \in {"trace", "class", "proofHash", "result", "proof", "projection", "theorems"} :
              d[f] = bundler.draft[f]
        /\ d.listing = <<>>
    <2>1. bundler.draft \in ManifestOf({NoFile})
      BY <1>1
    <2> QED BY <2>1 DEF ManifestOf
  <1> HIDE DEF d
  <1>7. /\ bundler'.pc = "listing" /\ bundler' # Idle /\ bundler'.trace = bundler.trace
        /\ bundler'.certificate = bundler.certificate /\ bundler'.kernel = bundler.kernel
        /\ bundler'.draft = d /\ bundler'.items = items
        /\ bundler'.taken = bundler.taken /\ bundler'.copied = bundler.copied
    BY <1>1, <1>5 DEF Idle
  <1>8. Following["evidence"] = "listing" /\ "evidence" \in DOMAIN Following /\ "evidence" \notin Copies
    BY DEF Following, Copies
  <1>9. UNCHANGED <<trace, dir, kernel>>
    BY <1>1, <1>3, StillSettled
  <1>10. bundler.taken = 0
    BY <1>1, <1>3 DEF EvidenceInv, Done, Stage
  <1>11. EvidenceInv'
    <2>1. ~Done("listing")' /\ Done("evidence")'
      BY <1>7 DEF Done, Stage
    <2>2. /\ bundler'.items = Items(trace, dir)' /\ bundler'.taken = 0 /\ 0 \in 0..Len(bundler'.items)
      BY <1>4, <1>7, <1>9, <1>10 DEF items
    <2>3. bundler'.draft.listing = <<>> /\ Taken(trace, dir, 0)' = <<>> /\ ToSet(<<>>) = {}
      BY <1>6, <1>7, NothingTaken, OneFile
    <2>4. bundler'.draft.listing = Taken(trace, dir, bundler.taken)'
      BY <2>2, <2>3
    <2> QED BY <1>1, <1>7, <1>9, <2>1, <2>2, <2>3, <2>4 DEF EvidenceInv
  <1> DEFINE place == "evidence"
  <1>12. /\ place \in DOMAIN Following /\ bundler.pc = place /\ bundler'.pc = Following[place]
         /\ bundler'.kernel = IF place = "listing" THEN kernel ELSE bundler.kernel
         /\ \A f \in {"trace", "class", "proofHash"} : bundler'.draft[f] = bundler.draft[f]
         /\ \A f \in {"result", "proof", "projection", "theorems"} :
               bundler'.draft[f] = IF f = place THEN Drafted(trace, dir, kernel)[f] ELSE bundler.draft[f]
         /\ \A f \in Copies :
               bundle'[f] = IF f = place THEN Whole(trace, dir, kernel)[f] ELSE bundle[f]
    BY <1>3, <1>6, <1>7, <1>8
  <1> HIDE DEF place
  <1> QED BY <1>3, <1>7, <1>11, <1>12, HonestMove

LEMMA HonestCopyEvidence ==
    ASSUME BaseInv, HonestInv, quiet, bundler # Idle, CopyEvidence
    PROVE  HonestInv'
  <1> DEFINE items == Items(trace, dir)
             files == EvidenceFiles(trace, dir)
             n == bundler.taken
             item == items[n + 1]
             new == Copied(item, dir)
             some == Taken(trace, dir, n)
             more == Taken(trace, dir, n + 1)
             d == [bundler.draft EXCEPT !["listing"] = more]
  <1>1. /\ Settled /\ MemoryInv /\ CopiesInv /\ EvidenceInv /\ out.certificate # NoFile
        /\ bundler \in [pc: Places \ {"idle"}, trace: Traces, certificate: Known(issued),
                        kernel: Kernels \cup {NoFile}, items: ItemLists, taken: Nat,
                        copied: SUBSET Kernels, draft: ManifestOf({NoFile})]
        /\ trace \in Traces /\ dir \in Directories /\ DOMAIN bundle = DOMAIN NoBundle
    BY Undisturbed DEF BaseInv, BundlerInv, BundleInv, WorkspaceInv
  <1>2. ResolutionErrors(trace, dir, Mode) = {} /\ AgreesOnIds(dir)
    BY <1>1, SettledFiles DEF Settled
  <1>3. /\ bundler.pc = "listing" /\ BundlerOnly /\ bundler.items = items /\ n < Len(items)
        /\ bundler.draft.listing = some /\ ToSet(some) \subseteq bundle.evidence
    BY <1>1 DEF CopyEvidence, At, EvidenceInv
  <1>4. n \in Nat /\ Len(items) \in Nat
    BY <1>1, <1>2, ItemsAre
  <1>5. /\ Gone(item, dir) => more = some
        /\ ~Gone(item, dir) => /\ more = Append(some, new)
                               /\ ToSet(more) \subseteq ToSet(some) \cup {new}
                               /\ new \in ToSet(files)
        /\ ToSet(some) \subseteq ToSet(files)
    BY <1>1, <1>2, <1>3, <1>4, OneMoreTaken
  <1>6. \A f, g \in ToSet(files) : f.name = g.name => f = g
    BY <1>1, <1>2, OneByName
  <1>7. /\ Gone(item, dir) => bundler' = [bundler EXCEPT !.taken = n + 1] /\ bundle' = bundle
        /\ ~Gone(item, dir) =>
              /\ bundle' = [bundle EXCEPT !.evidence = Overlaid(@, new)]
              /\ bundler' = [bundler EXCEPT !.taken = n + 1, !.draft.listing = Append(@, new)]
    BY <1>1, <1>3 DEF CopyEvidence
  <1>8. Taken(trace, dir, bundler.taken + 1) = more
    OBVIOUS
  <1> HIDE DEF items, files, item, new, some, more
  <1>9. bundler' = [bundler EXCEPT !.taken = n + 1, !.draft = d]
    <2>1. CASE Gone(item, dir)
      <3>1. d = bundler.draft
        <4>1. bundler.draft \in ManifestOf({NoFile})
          BY <1>1
        <4>2. DOMAIN d = DOMAIN bundler.draft /\ \A f \in DOMAIN d : d[f] = bundler.draft[f]
          BY <1>3, <1>5, <2>1, <4>1 DEF ManifestOf
        <4> QED BY <4>1, <4>2 DEF ManifestOf
      <3>2. bundler' = [bundler EXCEPT !.taken = n + 1, !.draft = bundler.draft]
        BY <1>1, <1>7, <2>1
      <3> QED BY <3>1, <3>2
    <2>2. CASE ~Gone(item, dir)
      <3>1. bundler' = [bundler EXCEPT !.taken = n + 1, !.draft.listing = more]
        BY <1>1, <1>3, <1>5, <1>7, <2>2
      <3> QED BY <1>1, <3>1
    <2> QED BY <2>1, <2>2
  <1>10. /\ \A f \in {"trace", "class", "proofHash", "result", "proof", "projection", "theorems"} :
               d[f] = bundler.draft[f]
         /\ d.listing = more
    <2>1. bundler.draft \in ManifestOf({NoFile})
      BY <1>1
    <2> QED BY <2>1 DEF ManifestOf
  <1> DEFINE m == n + 1
  <1>11. m \in Nat /\ m <= Len(items)
    BY <1>3, <1>4
  <1>12. /\ bundler'.pc = bundler.pc /\ bundler' # Idle /\ bundler'.trace = bundler.trace
         /\ bundler'.certificate = bundler.certificate /\ bundler'.kernel = bundler.kernel
         /\ bundler'.draft = d /\ bundler'.items = bundler.items
         /\ bundler'.taken = m /\ bundler'.copied = bundler.copied
    <2> HIDE DEF m, d
    <2>1. bundler' = [bundler EXCEPT !.taken = m, !.draft = d]
      BY <1>9 DEF m
    <2> QED BY <1>1, <1>3, <2>1 DEF Idle
  <1> HIDE DEF d
  <1>13. ToSet(more) \subseteq bundle'.evidence /\ \A f \in Copies : bundle'[f] = bundle[f]
    <2>1. CASE Gone(item, dir)
      BY <1>3, <1>5, <1>7, <2>1
    <2>2. CASE ~Gone(item, dir)
      <3>1. /\ bundle'.evidence = {f \in bundle.evidence : f.name # new.name} \cup {new}
            /\ \A f \in Copies : bundle'[f] = bundle[f]
        BY <1>1, <1>7, <2>2 DEF Overlaid, Copies, NoBundle
      <3>2. ToSet(some) \subseteq bundle'.evidence
        BY <1>3, <1>5, <1>6, <2>2, <3>1
      <3> QED BY <1>5, <2>2, <3>1, <3>2
    <2> QED BY <2>1, <2>2
  <1>14. UNCHANGED <<trace, dir, kernel>>
    BY <1>1, <1>3, StillSettled
  <1>15. EvidenceInv'
    <2>1. ~Done("listing")' /\ Done("evidence")'
      BY <1>3, <1>12 DEF Done, Stage
    <2>2. bundler'.items = Items(trace, dir)' /\ bundler'.taken \in 0..Len(bundler'.items)
      BY <1>3, <1>11, <1>12, <1>14 DEF items
    <2>3. bundler'.draft.listing = more
      BY <1>10, <1>12
    <2>4. Taken(trace, dir, bundler.taken)' = more
      BY <1>8, <1>12, <1>14
    <2> QED BY <1>1, <1>12, <1>13, <1>14, <2>1, <2>2, <2>3, <2>4 DEF EvidenceInv
  <1>16. /\ \A f \in {"trace", "class", "proofHash", "result", "proof", "projection", "theorems"} :
               bundler'.draft[f] = bundler.draft[f]
    BY <1>10, <1>12
  <1> QED BY <1>3, <1>12, <1>13, <1>15, <1>16, HonestStay

LEMMA HonestWriteListing ==
    ASSUME BaseInv, HonestInv, quiet, bundler # Idle, WriteListing
    PROVE  HonestInv'
  <1>1. /\ Settled /\ MemoryInv /\ CopiesInv /\ EvidenceInv /\ out.certificate # NoFile
        /\ bundler \in [pc: Places \ {"idle"}, trace: Traces, certificate: Known(issued),
                        kernel: Kernels \cup {NoFile}, items: ItemLists, taken: Nat,
                        copied: SUBSET Kernels, draft: ManifestOf({NoFile})]
        /\ trace \in Traces /\ dir \in Directories /\ DOMAIN bundle = DOMAIN NoBundle
    BY Undisturbed DEF BaseInv, BundlerInv, BundleInv, WorkspaceInv
  <1>2. /\ bundler.pc = "listing" /\ BundlerOnly
        /\ bundler' = [bundler EXCEPT !.pc = "kernel", !.kernel = kernel]
        /\ bundle' = [bundle EXCEPT !.listing = bundler.draft.listing]
    BY DEF WriteListing, At
  <1>3. /\ bundler.draft.listing = EvidenceFiles(trace, dir)
        /\ ToSet(EvidenceFiles(trace, dir)) \subseteq bundle.evidence
    <2>1. /\ bundler.draft.listing = Taken(trace, dir, bundler.taken)
          /\ ToSet(bundler.draft.listing) \subseteq bundle.evidence
          /\ bundler.taken = Len(Items(trace, dir))
      BY <1>1, <1>2 DEF EvidenceInv, WriteListing
    <2>2. ResolutionErrors(trace, dir, Mode) = {}
      BY <1>1, SettledFiles
    <2> QED BY <1>1, <2>1, <2>2, AllTaken
  <1>4. /\ bundler'.pc = "kernel" /\ bundler' # Idle /\ bundler'.trace = bundler.trace
        /\ bundler'.certificate = bundler.certificate /\ bundler'.kernel = kernel
        /\ bundler'.draft = bundler.draft /\ bundler'.copied = bundler.copied
    BY <1>1, <1>2 DEF Idle
  <1>5. Whole(trace, dir, kernel)["listing"] = EvidenceFiles(trace, dir)
    BY DEF Whole
  <1> DEFINE W == Whole(trace, dir, kernel)
             files == EvidenceFiles(trace, dir)
  <1>6. W["listing"] = files /\ bundle' = [bundle EXCEPT !.listing = files]
    BY <1>2, <1>3, <1>5
  <1> HIDE DEF W, files
  <1> DEFINE place == "listing"
  <1>7. /\ \A f \in Copies : bundle'[f] = IF f = place THEN W[f] ELSE bundle[f]
        /\ bundle'.evidence = bundle.evidence
    BY <1>1, <1>6 DEF Copies, NoBundle
  <1>8. Following["listing"] = "kernel" /\ "listing" \in DOMAIN Following
    BY DEF Following
  <1>9. EvidenceInv'
    <2>1. UNCHANGED <<trace, dir, kernel>>
      BY <1>1, <1>2, StillSettled
    <2>2. Done("evidence")'
      BY <1>4 DEF Done, Stage
    <2>3. files' = files
      BY <2>1 DEF files
    <2>4. bundler'.draft.listing = files' /\ ToSet(files') \subseteq bundle'.evidence
      BY <1>3, <1>4, <1>7, <2>3 DEF files
    <2> QED BY <1>1, <1>4, <2>1, <2>2, <2>4 DEF EvidenceInv, files
  <1>10. /\ place \in DOMAIN Following /\ bundler.pc = place /\ bundler'.pc = Following[place]
         /\ bundler'.kernel = IF place = "listing" THEN kernel ELSE bundler.kernel
         /\ \A f \in {"trace", "class", "proofHash"} : bundler'.draft[f] = bundler.draft[f]
         /\ \A f \in {"result", "proof", "projection", "theorems"} :
               bundler'.draft[f] = IF f = place THEN Drafted(trace, dir, kernel)[f] ELSE bundler.draft[f]
         /\ \A f \in Copies :
               bundle'[f] = IF f = place THEN Whole(trace, dir, kernel)[f] ELSE bundle[f]
    BY <1>2, <1>4, <1>7, <1>8 DEF W
  <1> HIDE DEF place
  <1> QED BY <1>2, <1>4, <1>9, <1>10, HonestMove

LEMMA HonestCopySomeOfKernel ==
    ASSUME BaseInv, HonestInv, quiet, bundler # Idle, CopySomeOfKernel
    PROVE  HonestInv'
  <1>1. /\ Settled /\ MemoryInv /\ CopiesInv /\ EvidenceInv
        /\ bundler \in [pc: Places \ {"idle"}, trace: Traces, certificate: Known(issued),
                        kernel: Kernels \cup {NoFile}, items: ItemLists, taken: Nat,
                        copied: SUBSET Kernels, draft: ManifestOf({NoFile})]
        /\ DOMAIN bundle = DOMAIN NoBundle
    BY Undisturbed DEF BaseInv, BundlerInv, BundleInv
  <1>2. PICK torn : torn = IF bundle.kernel = kernel THEN kernel ELSE Mixed
    OBVIOUS
  <1>3. /\ bundler.pc = "kernel" /\ BundlerOnly
        /\ bundler' = [bundler EXCEPT !.copied = bundler.copied \cup {kernel}]
        /\ bundle' = [bundle EXCEPT !.kernel = torn]
    BY <1>2 DEF CopySomeOfKernel, At
  <1>4. /\ bundler'.pc = bundler.pc /\ bundler' # Idle /\ bundler'.trace = bundler.trace
        /\ bundler'.certificate = bundler.certificate /\ bundler'.kernel = bundler.kernel
        /\ bundler'.draft = bundler.draft /\ bundler'.copied = bundler.copied \cup {kernel}
    BY <1>1, <1>3 DEF Idle
  <1>5. bundle'.evidence = bundle.evidence /\ \A f \in Copies : f # "kernel" => bundle'[f] = bundle[f]
    BY <1>1, <1>3 DEF NoBundle, Copies
  <1>6. UNCHANGED <<trace, dir, kernel>>
    BY <1>1, <1>3, StillSettled
  <1>7. EvidenceInv'
    <2>1. Done("evidence") /\ Done("listing") /\ Done("evidence")' /\ Done("listing")'
      BY <1>3, <1>4 DEF Done, Stage
    <2>2. EvidenceFiles(trace, dir)' = EvidenceFiles(trace, dir)
      BY <1>6
    <2> QED BY <1>1, <1>3, <1>4, <1>5, <1>6, <2>1, <2>2 DEF EvidenceInv
  <1> QED BY <1>3, <1>4, <1>5, <1>7, HonestStay

(* The manifest of an undisturbed bundling is the whole one.                 *)
LEMMA HonestManifest ==
    ASSUME BaseInv, HonestInv, quiet, bundler # Idle, bundler.pc = "manifest"
    PROVE  Manifest(bundler.draft, bundle.kernel) = Whole(trace, dir, kernel)["manifest"]
  <1>1. /\ MemoryInv /\ CopiesInv /\ EvidenceInv /\ bundler.draft \in ManifestOf({NoFile})
    BY Undisturbed
  <1> DEFINE D == Drafted(trace, dir, kernel)
  <1>2. \A f \in {"result", "proof", "projection", "theorems", "evidence", "listing", "kernel"} : Done(f)
    BY DEF Done, Stage
  <1>3. bundle.kernel = kernel
    <2>1. "kernel" \in Copies /\ Whole(trace, dir, kernel)["kernel"] = kernel
      BY DEF Copies, Whole
    <2>2. bundle["kernel"] = Whole(trace, dir, kernel)["kernel"]
      BY <1>1, <1>2, <2>1 DEF CopiesInv
    <2> QED BY <2>1, <2>2
  <1>4. D.listing = EvidenceFiles(trace, dir) /\ D.kernel = NoFile
        /\ D = [f \in {"trace", "class", "proofHash", "proof", "result", "projection", "theorems",
                       "listing", "kernel"} |-> D[f]]
    BY DEF Drafted
  <1> HIDE DEF D
  <1>5. /\ \A f \in {"trace", "class", "proofHash"} : bundler.draft[f] = D[f]
        /\ \A f \in {"result", "proof", "projection", "theorems"} : bundler.draft[f] = D[f]
        /\ bundler.draft.listing = D.listing
    BY <1>1, <1>2, <1>4 DEF MemoryInv, EvidenceInv, D
  <1>6. bundler.draft = [f \in {"trace", "class", "proofHash", "proof", "result", "projection",
                                "theorems", "listing", "kernel"} |-> bundler.draft[f]]
        /\ bundler.draft.kernel = NoFile
    BY <1>1 DEF ManifestOf
  <1>7. bundler.draft = D
    BY <1>4, <1>5, <1>6
  <1> QED BY <1>3, <1>7 DEF Whole, D

LEMMA HonestBundling ==
    ASSUME BaseInv, HonestInv, quiet, quiet', bundler # Idle, BundlerStep
    PROVE  HonestInv'
  <1>1. Settled /\ MemoryInv /\ CopiesInv /\ EvidenceInv
    BY Undisturbed
  <1>2. /\ Following["trace"] = "certificate" /\ Following["certificate"] = "result"
        /\ Following["kernel"] = "manifest" /\ Following["manifest"] = "finish"
    BY DEF Following
  <1>3. CASE CopyTrace
    <2>1. trace = Whole(trace, dir, kernel)["trace"]
      BY DEF Whole
    <2>2. /\ bundler.pc = "trace" /\ Then(Following["trace"]) /\ BundlerOnly
          /\ bundle' = [bundle EXCEPT !["trace"] = trace]
      BY <1>2, <1>3 DEF CopyTrace, At
    <2> QED BY <2>1, <2>2, HonestWrite
  <1>4. CASE CopyCertificate
    <2>1. out.certificate = Whole(trace, dir, kernel)["certificate"]
      BY <1>1 DEF Whole, Settled
    <2>2. /\ bundler.pc = "certificate" /\ Then(Following["certificate"]) /\ BundlerOnly
          /\ bundle' = [bundle EXCEPT !["certificate"] = out.certificate]
      BY <1>2, <1>4 DEF CopyCertificate, At
    <2> QED BY <2>1, <2>2, HonestWrite
  <1>5. CASE CopyRestOfKernel
    <2>1. kernel = Whole(trace, dir, kernel)["kernel"]
      BY DEF Whole
    <2>2. bundler.copied \subseteq {kernel}
      BY <1>1 DEF EvidenceInv
    <2>3. /\ bundler.pc = "kernel" /\ Then(Following["kernel"]) /\ BundlerOnly
          /\ bundle' = [bundle EXCEPT !["kernel"] = kernel]
      BY <1>2, <1>5, <2>2 DEF CopyRestOfKernel, At
    <2> QED BY <2>1, <2>3, HonestWrite
  <1>6. CASE WriteManifest
    <2>1. ~Abort
      BY DEF Abort
    <2>2. /\ bundler.pc = "manifest" /\ Then(Following["manifest"]) /\ BundlerOnly
          /\ bundle' = [bundle EXCEPT !["manifest"] = Manifest(bundler.draft, bundle.kernel)]
      BY <1>2, <1>6, <2>1 DEF WriteManifest, At
    <2>3. Manifest(bundler.draft, bundle.kernel) = Whole(trace, dir, kernel)["manifest"]
      BY <2>2, HonestManifest
    <2> QED BY <2>2, <2>3, HonestWrite
  <1>7. CASE WriteKernelManifest
    <2>1. /\ bundler.pc = "finish" /\ bundler' = Idle /\ BundlerOnly
          /\ bundle' = [bundle EXCEPT !.kernelManifest = bundler.kernel]
      BY <1>7 DEF WriteKernelManifest, At
    <2>2. (\A f \in Copies : Done(f)) /\ Done("listing")
      BY <2>1 DEF Done, Stage, Copies
    <2>3. bundler.kernel = kernel /\ (\A f \in Copies : bundle[f] = Whole(trace, dir, kernel)[f])
          /\ ToSet(EvidenceFiles(trace, dir)) \subseteq bundle.evidence
      BY <1>1, <2>2 DEF MemoryInv, CopiesInv, EvidenceInv, Copies
    <2>4. DOMAIN bundle = DOMAIN NoBundle /\ trace \in Traces /\ dir \in Directories /\ kernel \in Kernels
      BY DEF BaseInv, BundleInv, WorkspaceInv
    <2>5. /\ bundle'.kernelManifest = kernel /\ bundle'.evidence = bundle.evidence
          /\ \A f \in Copies : bundle'[f] = bundle[f]
      BY <2>1, <2>3, <2>4 DEF NoBundle, Copies
    <2>6. /\ KernelChecked(trace, dir, kernel) \in LeanCertificates
          /\ ClaimOf(KernelChecked(trace, dir, kernel)) \in issued
          /\ AgreesOnIds(dir) /\ EvidenceErrors(trace, dir, Mode) = {}
      BY Undisturbed, SettledFiles DEF Settled
    <2>7. issued' = issued
      BY <2>1 DEF BundlerOnly
    <2>8. Genuine(trace, dir, kernel)'
      <3>1. UNCHANGED <<trace, dir, kernel>>
        BY <1>1, <2>1, StillSettled
      <3> QED BY <2>3, <2>5, <2>6, <2>7, <3>1 DEF Genuine
    <2>9. \E t \in Traces, d \in Directories, k \in Kernels : Genuine(t, d, k)'
      <3>1. UNCHANGED <<trace, dir, kernel>>
        BY <1>1, <2>1, StillSettled
      <3> QED BY <2>4, <2>8, <3>1 DEF Genuine
    <2> QED BY <2>1, <2>9 DEF HonestInv
  <1> QED BY <1>3, <1>4, <1>5, <1>6, <1>7, HonestCopies, HonestResolveEvidence, HonestCopyEvidence,
             HonestWriteListing, HonestCopySomeOfKernel DEF BundlerStep

(* A bundle that is there stays what it was while others work.               *)
LEMMA GenuineKept ==
    ASSUME HonestInv, quiet, bundler = Idle, bundler' = Idle, issued \subseteq issued',
           \A f \in Copies \cup {"evidence", "kernelManifest"} : bundle'[f] = bundle[f]
    PROVE  HonestInv'
  <1>1. PICK t \in Traces, d \in Directories, k \in Kernels : Genuine(t, d, k)
    BY DEF HonestInv
  <1>2. Genuine(t, d, k)'
    BY <1>1 DEF Genuine
  <1>3. \E u \in Traces, e \in Directories, l \in Kernels : Genuine(u, e, l)'
    BY <1>2
  <1> QED BY <1>3 DEF HonestInv

LEMMA HonestKept ==
    ASSUME BaseInv, HonestInv, [Next]_vars
    PROVE  HonestInv'
  <1>1. CASE ~quiet'
    BY <1>1 DEF HonestInv
  <1>2. CASE quiet' /\ Load
    <2>1. Settled /\ bundler' # Idle /\ bundler'.pc = "trace" /\ bundler'.trace = trace
          /\ bundler'.certificate = out.certificate
          /\ bundler'.draft.trace = out.certificate.trace /\ bundler'.draft.class = out.certificate.class
          /\ bundler'.draft.proofHash = out.certificate.proof
          /\ bundler'.taken = 0 /\ bundler'.copied = {}
      BY <1>2 DEF Load, Idle
    <2>2. out.certificate # NoFile
      BY <1>2 DEF Load, Unreadable
    <2>3. Settled' /\ UNCHANGED <<trace, dir, kernel>>
      BY <1>2, <2>1 DEF Load, Settled, AgreesOnIds, workspace, inputs
    <2>4. \A f \in DOMAIN Stage : ~Done(f)'
      BY <2>1 DEF Done, Stage
    <2> DEFINE c == KernelChecked(trace, dir, kernel)
               D == Drafted(trace, dir, kernel)
    <2>5. out.certificate = c /\ c.trace = D.trace /\ c.class = D.class /\ c.proof = D.proofHash
          /\ D' = D /\ c' = c
      BY <2>1, <2>3 DEF Settled, KernelChecked, Drafted
    <2> HIDE DEF c, D
    <2>6. MemoryInv'
      <3>1. \A f \in {"trace", "class", "proofHash"} : bundler'.draft[f] = D'[f]
        BY <2>1, <2>5
      <3> QED BY <2>1, <2>3, <2>4, <2>5, <3>1 DEF MemoryInv, Stage, c, D
    <2>7. CopiesInv'
      BY <2>4 DEF CopiesInv, Stage, Copies
    <2>8. EvidenceInv'
      BY <2>1, <2>4 DEF EvidenceInv, Stage
    <2> QED BY <2>1, <2>3, <2>6, <2>7, <2>8 DEF HonestInv
  <1>3. CASE quiet' /\ UNCHANGED vars
    <2>1. UNCHANGED <<quiet, bundler, bundle, lean, trace, dir, kernel, proofs, out, issued>>
      BY <1>3 DEF vars, workspace, inputs, ghosts
    <2>2. CASE bundler = Idle
      BY <1>3, <2>1, <2>2, GenuineKept
    <2>3. CASE bundler # Idle
      <3>1. Settled /\ MemoryInv /\ CopiesInv /\ EvidenceInv
        BY <1>3, <2>1, <2>3 DEF HonestInv
      <3>2. Settled' /\ MemoryInv' /\ CopiesInv' /\ EvidenceInv'
        BY <2>1, <3>1 DEF Settled, AgreesOnIds, MemoryInv, CopiesInv, EvidenceInv, Done
      <3> QED BY <2>1, <2>3, <3>2 DEF HonestInv
    <2> QED BY <2>2, <2>3
  <1>4. CASE quiet' /\ (EditInputs \/ CheckWithLean \/ CheckAtRuntime \/ Save)
    <2>1. quiet /\ bundler = Idle
      BY <1>4 DEF EditInputs, CheckWithLean, CheckAtRuntime, Save, WorkspaceChanges
    <2>2. bundler' = bundler /\ bundle' = bundle /\ issued \subseteq issued'
      BY <1>4 DEF EditInputs, CheckWithLean, CheckAtRuntime, Save
    <2> QED BY <2>1, <2>2, GenuineKept
  <1>5. CASE quiet' /\ LeanFailsOrDies
    <2>1. quiet /\ bundler' = bundler /\ bundle' = bundle /\ issued' = issued
      BY <1>5 DEF LeanFailsOrDies, ghosts
    <2>2. bundler = Idle
      BY <1>5, <2>1, Undisturbed DEF Settled, LeanFailsOrDies
    <2> QED BY <2>1, <2>2, GenuineKept
  <1>6. CASE quiet' /\ bundler # Idle /\ BundlerStep
    <2>1. quiet
      BY <1>6 DEF BundlerStep, CopyTrace, CopyCertificate, CopyResult, CopyProof, CopyProjection,
                  CopyTheorems, CopyHashed, ResolveEvidence, CopyEvidence, WriteListing,
                  CopySomeOfKernel, CopyRestOfKernel,
                  WriteManifest, WriteKernelManifest, Abort
    <2> QED BY <1>6, <2>1, HonestBundling
  <1>7. BundlerDies \/ LoseEvidence \/ (\E f \in Damageable : Damage(f)) => ~quiet'
    BY DEF BundlerDies, Abort, LoseEvidence, Damage
  <1>8. CASE quiet' /\ Verify
    <2>1. quiet /\ bundler = Idle /\ bundler' = bundler /\ bundle' = bundle /\ issued' = issued
      BY <1>8 DEF Verify
    <2> QED BY <2>1, GenuineKept
  <1>9. CASE quiet' /\ \E env \in Environments, live, absence \in BOOLEAN :
                          \E answer \in AnswersOf(env, Refs) : Attest(env, live, absence, answer)
    <2>1. PICK env \in Environments, live \in BOOLEAN, absence \in BOOLEAN :
             \E answer \in AnswersOf(env, Refs) : Attest(env, live, absence, answer)
      BY <1>9
    <2>2. PICK answer \in AnswersOf(env, Refs) : Attest(env, live, absence, answer)
      BY <2>1
    <2>3. \A f \in DOMAIN NoBundle \ {"attestation", "notice"} : bundle'[f] = bundle[f]
      BY <2>2, AttestedFiles DEF BaseInv, BundleInv
    <2>4. \A f \in Copies \cup {"evidence", "kernelManifest"} : bundle'[f] = bundle[f]
      BY <2>3 DEF Copies, NoBundle
    <2>5. quiet /\ bundler = Idle /\ bundler' = bundler /\ issued' = issued
      BY <1>9, <2>2 DEF Attest
    <2> QED BY <2>4, <2>5, GenuineKept
  <1> QED BY <1>1, <1>2, <1>3, <1>4, <1>5, <1>6, <1>7, <1>8, <1>9 DEF Next

LEMMA HonestHolds == Spec => [](BaseInv /\ AttestationInv /\ HonestInv)
  <1>1. Init => HonestInv
    BY DEF Init, HonestInv
  <1> QED BY <1>1, AttestationHolds, HonestKept, PTL DEF Spec

-----------------------------------------------------------------------------
(* What verify-bundle finds in a bundle that is what it says.                *)
LEMMA GenuineVerifies ==
    ASSUME BaseInv, NEW t \in Traces, NEW d \in Directories, NEW k \in Kernels, Genuine(t, d, k)
    PROVE  LET m == bundle.manifest
           IN  /\ ~Unreadable(m) /\ ~Unreadable(bundle.trace) /\ bundle.trace = t
               /\ TraceErrors(bundle, m) = {} /\ CertificateErrors(bundle, m) = {}
               /\ HashErrors(bundle, m) = {} /\ EvidenceFileErrors(bundle, m) = {}
               /\ KernelErrors(bundle, m) = {} /\ ManifestErrors(bundle) = {}
               /\ ReplayErrors(bundle) = {} /\ TheoremErrors(bundle) = {} /\ CompileErrors(bundle) = {}
  <1> DEFINE c == KernelChecked(t, d, k)
             p == ProjectionOf(t, d, Mode)
             files == EvidenceFiles(t, d)
             D == Drafted(t, d, k)
             m == bundle.manifest
  <1>1. /\ bundle.trace = t /\ bundle.certificate = c /\ bundle.result = c /\ bundle.proof = p
        /\ bundle.projection = p /\ bundle.theorems = p /\ bundle.listing = files /\ bundle.kernel = k
        /\ m = Manifest(D, k) /\ bundle.kernelManifest = k
        /\ ToSet(files) \subseteq bundle.evidence
    <2>1. \A f \in Copies : bundle[f] = Whole(t, d, k)[f]
      BY DEF Genuine
    <2>2. bundle.kernelManifest = k /\ ToSet(files) \subseteq bundle.evidence
      BY DEF Genuine
    <2>3. /\ bundle["trace"] = Whole(t, d, k)["trace"]
          /\ bundle["certificate"] = Whole(t, d, k)["certificate"]
          /\ bundle["result"] = Whole(t, d, k)["result"] /\ bundle["proof"] = Whole(t, d, k)["proof"]
          /\ bundle["projection"] = Whole(t, d, k)["projection"]
          /\ bundle["theorems"] = Whole(t, d, k)["theorems"]
          /\ bundle["listing"] = Whole(t, d, k)["listing"]
          /\ bundle["kernel"] = Whole(t, d, k)["kernel"]
          /\ bundle["manifest"] = Whole(t, d, k)["manifest"]
      BY <2>1 DEF Copies
    <2> HIDE DEF files, m
    <2> QED BY <2>2, <2>3 DEF Whole, files, m
  <1>2. /\ m.trace = t.hash /\ m.class = "LeanKernelChecked" /\ m.proofHash = p /\ m.proof = p
        /\ m.result = c /\ m.projection = p /\ m.theorems = p /\ m.listing = files /\ m.kernel = k
    <2>1. D = [trace |-> t.hash, class |-> "LeanKernelChecked", proofHash |-> p, proof |-> p,
               result |-> c, projection |-> p, theorems |-> p, listing |-> files, kernel |-> NoFile]
      BY DEF Drafted
    <2> HIDE DEF D, c, p, files
    <2>2. m = [D EXCEPT !.kernel = k]
      BY <1>1 DEF Manifest
    <2> HIDE DEF m
    <2> QED BY <2>1, <2>2
  <1>3. c \in LeanCertificates /\ ClaimOf(c) \in issued /\ AgreesOnIds(d)
        /\ EvidenceErrors(t, d, Mode) = {}
    BY DEF Genuine
  <1>4. /\ c.trace = t.hash /\ c.proof = p /\ c.projection = p /\ c.theorems = p /\ c.kernel = k
        /\ ClaimOf(c) = [projection |-> p, kernel |-> k]
    BY DEF KernelChecked, ClaimOf
  <1>5. EvidenceErrors(t, Staged(files), Mode) = {} /\ ProjectionOf(t, Staged(files), Mode) = p
    BY <1>3, ProjectedAgain
  <1> HIDE DEF c, p, files, D
  <1>6. c \notin Unread /\ p \notin Unread /\ t \notin Unread /\ k \notin Unread
    <2>1. c \in Certificates /\ p \in Projections
      BY <1>3, <1>4, LeanCertificateShape DEF Certificates
    <2> QED BY <2>1, NothingUnread, SentinelAssumption DEF Unread
  <1>7. files \notin Unread
    <2>1. files \in Listings
      BY <1>3, FilesListed DEF EvidenceErrors, files
    <2> QED BY <2>1, NothingUnread
  <1>8. m \notin Unread
    <2>1. m \in ManifestOf(Kernels)
      <3>1. c \in Certificates /\ p \in Projections /\ t.hash \in Hashes
        BY <1>3, <1>4, LeanCertificateShape, BundleReleaseAssumption DEF Certificates
      <3>2. files \in Listings
        BY <1>3, FilesListed DEF EvidenceErrors, files
      <3>3. D = [trace |-> t.hash, class |-> "LeanKernelChecked", proofHash |-> p, proof |-> p,
                 result |-> c, projection |-> p, theorems |-> p, listing |-> files, kernel |-> NoFile]
        BY DEF Drafted, D, p, c, files
      <3>4. m = [D EXCEPT !.kernel = k]
        BY <1>1 DEF Manifest
      <3> HIDE DEF m
      <3> QED BY <3>1, <3>2, <3>3, <3>4 DEF ManifestOf
    <2> QED BY <2>1, NothingUnread
  <1>9. ~Unreadable(m) /\ ~Unreadable(bundle.trace) /\ ~Unreadable(bundle.certificate)
        /\ ~Unreadable(bundle.listing) /\ ~Unreadable(bundle.kernelManifest)
        /\ p # NoFile /\ files # NoFile
    BY <1>1, <1>6, <1>7, <1>8 DEF Unreadable, Unread
  <1> HIDE DEF m
  <1>10. TraceErrors(bundle, m) = {} /\ CertificateErrors(bundle, m) = {}
         /\ EvidenceFileErrors(bundle, m) = {} /\ KernelErrors(bundle, m) = {}
    BY <1>1, <1>2, <1>4, <1>9 DEF TraceErrors, CertificateErrors, EvidenceFileErrors, KernelErrors, m
  <1>11. HashErrors(bundle, m) = {}
    BY <1>1, <1>2, <1>9 DEF HashErrors, Differs
  <1>12. ManifestErrors(bundle) = {} /\ TheoremErrors(bundle) = {}
    BY <1>1, <1>2, <1>4 DEF ManifestErrors, TheoremErrors, m
  <1>13. ReplayErrors(bundle) = {}
    BY <1>1, <1>2, <1>5, <1>9 DEF ReplayErrors, m
  <1>14. CompileErrors(bundle) = {}
    BY <1>1, <1>3, <1>4 DEF CompileErrors
  <1> QED BY <1>1, <1>9, <1>10, <1>11, <1>12, <1>13, <1>14 DEF m

(* A bundle of a settled workspace that nobody disturbed verifies, unless an *)
(* attestation or a notice was left there for another bundle or trace.       *)
THEOREM HonestBundlesVerify == Spec => []HonestBundleVerifies
  <1>1. ASSUME BaseInv, AttestationInv, HonestInv PROVE HonestBundleVerifies
    <2> SUFFICES ASSUME quiet, bundler = Idle, ~OlderSidecar, bundle.attestation # Garbled
                 PROVE  VerifyErrors(bundle, "preview") \cup CompileErrors(bundle) = {}
      BY DEF HonestBundleVerifies
    <2>1. PICK t \in Traces, d \in Directories, k \in Kernels : Genuine(t, d, k)
      BY <1>1 DEF HonestInv
    <2> DEFINE m == bundle.manifest
               att == bundle.attestation
    <2>2. /\ ~Unreadable(m) /\ ~Unreadable(bundle.trace) /\ bundle.trace = t
          /\ TraceErrors(bundle, m) = {} /\ CertificateErrors(bundle, m) = {}
          /\ HashErrors(bundle, m) = {} /\ EvidenceFileErrors(bundle, m) = {}
          /\ KernelErrors(bundle, m) = {} /\ ManifestErrors(bundle) = {}
          /\ ReplayErrors(bundle) = {} /\ TheoremErrors(bundle) = {} /\ CompileErrors(bundle) = {}
      BY <1>1, <2>1, GenuineVerifies
    <2> HIDE DEF m, att
    <2>3. AttestationSidecarErrors(bundle, "preview") = {}
      <3>1. ~LiveRequired("preview")
        BY DEF LiveRequired
      <3>5. LiveRequired("preview") = FALSE
        BY DEF LiveRequired
      <3>2. CASE att = NoFile /\ bundle.notice = NoFile
        BY <3>1, <3>2 DEF AttestationSidecarErrors, att
      <3>3. CASE att # NoFile
        <4>1. att.bundle = m /\ att.trace = bundle.trace.hash /\ att # Garbled
          BY <3>3 DEF OlderSidecar, Unreadable, m, att
        <4>2. Vouched(att)
          BY <1>1, <3>3, <4>1 DEF AttestationInv, Unread, att
        <4>3. BoundErrors(att, m, bundle.trace) = {}
          BY <4>1 DEF BoundErrors
        <4>4. AttestationErrors(att, m, bundle.trace, FALSE, Site) = {}
          BY <4>1, <4>2, <4>3 DEF AttestationErrors, Vouched
        <4>5. SidecarErrors(att, bundle.notice, m, bundle.trace, LiveRequired("preview"),
                            ~LiveRequired("preview"), Site) = {}
          BY <3>5, <3>3, <4>4 DEF SidecarErrors
        <4> QED BY <4>5 DEF AttestationSidecarErrors, att, m
      <3>4. CASE att = NoFile /\ bundle.notice # NoFile
        <4>1. bundle.notice = m /\ ~Missing(bundle.notice)
          BY <2>2, <3>4 DEF OlderSidecar, Missing, Unreadable, m
        <4>2. SidecarErrors(att, bundle.notice, m, bundle.trace, LiveRequired("preview"),
                            ~LiveRequired("preview"), Site) = {}
          BY <3>1, <3>4, <4>1 DEF SidecarErrors
        <4> QED BY <4>2 DEF AttestationSidecarErrors, att, m
      <3> QED BY <3>2, <3>3, <3>4
    <2>4. StructuralErrors(bundle, "preview") = {}
      BY <2>2, <2>3 DEF StructuralErrors, PresentSidecarErrors, m
    <2> QED BY <2>2, <2>3, <2>4 DEF VerifyErrors
  <1> QED BY <1>1, HonestHolds, PTL
=============================================================================
