------------------------- MODULE ReleaseGatesProofs -------------------------
(***************************************************************************)
(* Machine-checked properties of the release gates, for any files, keys,   *)
(* signers, pins and clocks, any number of signatures made and edits.      *)
(***************************************************************************)
EXTENDS ReleaseGates, FiniteSetTheorems, TLAPS

Seeds == {h[1] : h \in Holders}
Ids == {h[2] : h \in Holders}

(* What an envelope can have been through: its signature is one that was    *)
(* made, with the digest it was made over; only the target it names and the *)
(* malformation may have come later.                                        *)
EnvelopeInv(env) ==
    \E m \in made :
        /\ env.sig.seed = m.seed /\ env.sig.id = m.id /\ env.sig.at = m.at
        /\ env.digest = [type |-> EnvelopeType, body |-> m.target, versioned |-> TRUE]
        /\ env.sig.message = Message(EnvelopeType, env.digest)

RegistryInv == registry = NoRegistry \/ (registry \in Seq(Keys) /\ registry # <<>> /\ Len(registry) <= MaxKeys)

FilesInv == root \in [Files -> Artifacts \cup {NoEnvelope, Garbled}]

SidesInv ==
    /\ side \in [Places -> Envelopes \cup {NoEnvelope, Garbled}]
    /\ \A p \in Places : Readable(side[p]) => EnvelopeInv(side[p])

MadeInv == made \subseteq SignatureRecords /\ IsFiniteSet(made) /\ Cardinality(made) <= MaxMade

(* The provision file describes the bytes that were graded. *)
ProvisionInv ==
    provision # NoProvision =>
        /\ provision.grade \in Grades
        /\ provision.grade = "pinned" /\ provision.identity # NoPin
              /\ provision.identity \in Pins
              /\ provision.identity.strategy = "signed_binary"
           => provision.digest = provision.identity.binary

IInv ==
    /\ now \in Times /\ edits \in 0..MaxEdits /\ pin \in Pins
    /\ provenance \in [status : {NoStatus, "pending", "signed", "gated"}, notice : BOOLEAN]
    /\ RegistryInv /\ FilesInv /\ SidesInv /\ MadeInv /\ ProvisionInv

-----------------------------------------------------------------------------
(* Operators of the model. *)

LEMMA AppendFacts ==
    ASSUME NEW S, NEW s \in Seq(S), NEW x \in S
    PROVE  /\ Append(s, x) \in Seq(S) /\ Append(s, x) # <<>>
           /\ Len(Append(s, x)) = Len(s) + 1
           /\ DOMAIN Append(s, x) = 1..(Len(s) + 1) /\ DOMAIN s = 1..Len(s)
           /\ \A i \in 1..Len(s) : Append(s, x)[i] = s[i]
           /\ Append(s, x)[Len(s) + 1] = x
  OBVIOUS

LEMMA KeyShape ==
    ASSUME NEW k \in Keys
    PROVE  /\ k = [id |-> k.id, public |-> k.public, from |-> k.from, until |-> k.until,
                   revoked |-> k.revoked, purposes |-> k.purposes]
           /\ k.from \in Nat /\ k.until \in Nat \cup {NoTime}
           /\ k.revoked \in RevokeTimes \cup {NoTime}
           /\ \A t \in RevokeTimes : [k EXCEPT !.revoked = t] \in Keys
  <1>1. PICK o \in KeyOffers, u \in RevokeTimes \cup {NoTime} : k = [o EXCEPT !.revoked = u]
    BY DEF Keys
  <1>2. /\ o = [id |-> o.id, public |-> o.public, from |-> o.from, until |-> o.until,
                revoked |-> NoTime, purposes |-> o.purposes]
        /\ o.from \in Nat /\ o.until \in Nat \cup {NoTime}
    BY KeyAssumption
  <1>3. k = [id |-> o.id, public |-> o.public, from |-> o.from, until |-> o.until,
             revoked |-> u, purposes |-> o.purposes]
    BY <1>1, <1>2
  <1>4. ASSUME NEW t \in RevokeTimes PROVE [k EXCEPT !.revoked = t] \in Keys
    <2>1. [k EXCEPT !.revoked = t] = [o EXCEPT !.revoked = t]
      BY <1>2, <1>3
    <2> QED BY <2>1 DEF Keys
  <1> QED BY <1>2, <1>3, <1>4

LEMMA OfferIsKey == ASSUME NEW k \in KeyOffers PROVE k \in Keys
  <1>1. k = [k EXCEPT !.revoked = NoTime]
    BY KeyAssumption
  <1> QED BY <1>1 DEF Keys

LEMMA ArtifactShape ==
    ASSUME NEW f \in Files, NEW b \in Bodies
    PROVE  /\ Artifact(f, b) \in Artifacts /\ Readable(Artifact(f, b))
           /\ Artifact(f, b).type = TypeOf[f]
  BY SentinelAssumption DEF Artifacts, Artifact, Readable

(* The envelope of a file is the one beside it if that can be read, and      *)
(* otherwise one of those that can, or none.                                 *)
LEMMA DiscoveredIsFirst ==
    ASSUME NEW f \in Files, NEW S
    PROVE  /\ Readable(S[f]) => Discovered(S, PlacesOf[f]) = S[f]
           /\ \/ Discovered(S, PlacesOf[f]) = NoEnvelope
              \/ \E p \in Places : Discovered(S, PlacesOf[f]) = S[p] /\ Readable(S[p])
  <1> DEFINE places == <<f, Shared, Stem[f], Named>>
             found == {i \in DOMAIN places : Readable(S[places[i]])}
             first == CHOOSE i \in found : \A j \in found : i <= j
  <1>1. PlacesOf[f] = places
    BY DEF PlacesOf
  <1>2. /\ DOMAIN places = 1..4 /\ places[1] = f
        /\ \A i \in 1..4 : places[i] \in Places
    BY DEF Places
  <1>3. Discovered(S, places) = IF found = {} THEN NoEnvelope ELSE S[places[first]]
    BY DEF Discovered
  <1>4. found # {} => first \in found /\ \A j \in found : first <= j
    <2>1. SUFFICES ASSUME found # {} PROVE \E i \in found : \A j \in found : i <= j
      OBVIOUS
    <2>2. found \subseteq 1..4
      BY <1>2
    <2> HIDE DEF found
    <2>3. CASE 1 \in found
      BY <2>2, <2>3
    <2>4. CASE 1 \notin found /\ 2 \in found
      BY <2>2, <2>4
    <2>5. CASE 1 \notin found /\ 2 \notin found /\ 3 \in found
      BY <2>2, <2>5
    <2>6. CASE 1 \notin found /\ 2 \notin found /\ 3 \notin found
      <3>1. \A j \in found : j = 4
        <4> TAKE j \in found
        <4>1. j \in 1..4 /\ j # 1 /\ j # 2 /\ j # 3
          BY <2>2, <2>6
        <4> QED BY <4>1
      <3>2. 4 \in found
        BY <2>1, <3>1, SMTT(30)
      <3> QED BY <3>1, <3>2
    <2> QED BY <2>3, <2>4, <2>5, <2>6
  <1>5. ASSUME Readable(S[f]) PROVE Discovered(S, places) = S[f]
    <2>1. 1 \in found
      BY <1>2, <1>5
    <2>2. first \in 1..4 /\ first <= 1
      BY <1>2, <1>4, <2>1
    <2>3. first = 1
      BY <2>2
    <2> QED BY <1>2, <1>3, <2>1, <2>3
  <1>6. CASE found = {}
    BY <1>1, <1>3, <1>5, <1>6
  <1>7. CASE found # {}
    <2>1. first \in 1..4 /\ Readable(S[places[first]])
      BY <1>2, <1>4, <1>7
    <2> HIDE DEF found, first
    <2>2. places[first] \in Places
      BY <1>2, <2>1
    <2> QED BY <1>1, <1>3, <1>5, <1>7, <2>1, <2>2
  <1> QED BY <1>6, <1>7

LEMMA InitIInv == Init => IInv
  <1> SUFFICES ASSUME Init PROVE IInv
    OBVIOUS
  <1> USE DEF Init
  <1>1. now \in Times /\ edits \in 0..MaxEdits /\ pin \in Pins
    BY ReleaseGatesAssumption DEF Times
  <1>2. provenance \in [status : {NoStatus, "pending", "signed", "gated"}, notice : BOOLEAN]
    OBVIOUS
  <1>3. RegistryInv /\ ProvisionInv
    BY DEF RegistryInv, ProvisionInv
  <1>4. FilesInv
    BY DEF FilesInv
  <1>5. SidesInv
    BY DEF SidesInv, Readable
  <1>6. MadeInv
    BY FS_EmptySet, ReleaseGatesAssumption DEF MadeInv
  <1> QED BY <1>1, <1>2, <1>3, <1>4, <1>5, <1>6 DEF IInv

-----------------------------------------------------------------------------
(* One lemma per action. *)

LEMMA PublishIInv == ASSUME IInv, NEW k \in KeyOffers, Publish(k) PROVE IInv'
  <1> USE DEF Publish, IInv, orgVars
  <1>1. k \in Keys
    BY OfferIsKey
  <1>2. RegistryInv'
    <2>1. CASE registry = NoRegistry
      <3>1. registry' = <<k>> /\ <<k>> \in Seq(Keys) /\ <<k>> # <<>>
        BY <1>1, <2>1
      <3> QED BY <3>1 DEF RegistryInv
    <2>2. CASE registry # NoRegistry
      <3>1. registry \in Seq(Keys)
        BY <2>2 DEF RegistryInv
      <3>2. registry' = Append(registry, k) /\ registry' \in Seq(Keys) /\ registry' # <<>>
        BY <1>1, <2>2, <3>1, AppendFacts
      <3> QED BY <3>2 DEF RegistryInv
    <2> QED BY <2>1, <2>2
  <1>3. FilesInv' /\ SidesInv' /\ MadeInv' /\ ProvisionInv'
    BY DEF FilesInv, SidesInv, EnvelopeInv, MadeInv, ProvisionInv
  <1> QED BY <1>2, <1>3

LEMMA RevokedShape ==
    ASSUME NEW R \in Seq(Keys), NEW id, NEW t \in RevokeTimes
    PROVE  /\ Revoked(R, id, t) \in Seq(Keys) /\ Len(Revoked(R, id, t)) = Len(R)
           /\ DOMAIN Revoked(R, id, t) = DOMAIN R
           /\ \A i \in DOMAIN R :
                 LET k == Revoked(R, id, t)[i]
                 IN  /\ k.id = R[i].id /\ k.public = R[i].public /\ k.from = R[i].from
                     /\ k.until = R[i].until /\ k.purposes = R[i].purposes
                     /\ k.revoked = IF R[i].id = id THEN t ELSE R[i].revoked
  <1> DEFINE Q == Revoked(R, id, t)
  <1>1. Len(R) \in Nat /\ DOMAIN R = 1..Len(R) /\ \A i \in DOMAIN R : R[i] \in Keys
    OBVIOUS
  <1>2. \A i \in DOMAIN R : Q[i] = IF R[i].id = id THEN [R[i] EXCEPT !.revoked = t] ELSE R[i]
    BY DEF Revoked
  <1>3. DOMAIN Q = 1..Len(R) /\ Q = [i \in 1..Len(R) |-> Q[i]]
    BY <1>1 DEF Revoked
  <1>4. ASSUME NEW i \in DOMAIN R
        PROVE  /\ Q[i] \in Keys
               /\ Q[i].id = R[i].id /\ Q[i].public = R[i].public /\ Q[i].from = R[i].from
               /\ Q[i].until = R[i].until /\ Q[i].purposes = R[i].purposes
               /\ Q[i].revoked = IF R[i].id = id THEN t ELSE R[i].revoked
    <2> DEFINE r == R[i]
    <2>1. r \in Keys
      BY <1>1
    <2>2. /\ r = [id |-> r.id, public |-> r.public, from |-> r.from, until |-> r.until,
                  revoked |-> r.revoked, purposes |-> r.purposes]
          /\ [r EXCEPT !.revoked = t] \in Keys
      BY <2>1, KeyShape
    <2> HIDE DEF r
    <2>3. [r EXCEPT !.revoked = t] = [id |-> r.id, public |-> r.public, from |-> r.from,
              until |-> r.until, revoked |-> t, purposes |-> r.purposes]
      BY <2>2
    <2>4. Q[i] = IF r.id = id THEN [r EXCEPT !.revoked = t] ELSE r
      BY <1>2 DEF r
    <2>5. Q[i] \in Keys
      BY <2>1, <2>2, <2>4
    <2> HIDE DEF Q
    <2>6. /\ Q[i].id = r.id /\ Q[i].public = r.public /\ Q[i].from = r.from
          /\ Q[i].until = r.until /\ Q[i].purposes = r.purposes
          /\ Q[i].revoked = IF r.id = id THEN t ELSE r.revoked
      BY <2>3, <2>4
    <2> QED BY <2>5, <2>6 DEF r
  <1> HIDE DEF Q
  <1>5. Q \in Seq(Keys) /\ Len(Q) = Len(R)
    BY <1>1, <1>3, <1>4
  <1> QED BY <1>1, <1>3, <1>4, <1>5 DEF Q

LEMMA RevokeIInv == ASSUME IInv, NEW id, NEW t \in RevokeTimes, Revoke(id, t) PROVE IInv'
  <1> USE DEF Revoke, IInv, orgVars
  <1>1. registry \in Seq(Keys) /\ registry # <<>> /\ Len(registry) <= MaxKeys
    BY DEF RegistryInv
  <1>2. registry' \in Seq(Keys) /\ Len(registry') = Len(registry)
    BY <1>1, RevokedShape
  <1>3. registry' # <<>>
    BY <1>1, <1>2
  <1>4. FilesInv' /\ SidesInv' /\ MadeInv' /\ ProvisionInv'
    BY DEF FilesInv, SidesInv, EnvelopeInv, MadeInv, ProvisionInv
  <1> QED BY <1>1, <1>2, <1>3, <1>4 DEF RegistryInv

LEMMA TickIInv == ASSUME IInv, Tick PROVE IInv'
  <1> USE DEF Tick, IInv, orgVars
  <1>1. now' \in Times
    BY ReleaseGatesAssumption DEF Times
  <1>2. RegistryInv' /\ FilesInv' /\ SidesInv' /\ MadeInv' /\ ProvisionInv'
    BY DEF RegistryInv, FilesInv, SidesInv, EnvelopeInv, MadeInv, ProvisionInv
  <1> QED BY <1>1, <1>2

LEMMA WriteArtifactIInv ==
    ASSUME IInv, NEW f \in Files, NEW b \in Bodies, WriteArtifact(f, b) PROVE IInv'
  <1> USE DEF WriteArtifact, IInv, orgVars
  <1>1. Artifact(f, b) \in Artifacts
    BY ArtifactShape
  <1>2. FilesInv'
    BY <1>1 DEF FilesInv
  <1>3. edits' \in 0..MaxEdits
    BY ReleaseGatesAssumption
  <1>4. RegistryInv' /\ SidesInv' /\ MadeInv' /\ ProvisionInv'
    BY DEF RegistryInv, SidesInv, EnvelopeInv, MadeInv, ProvisionInv
  <1> QED BY <1>2, <1>3, <1>4

LEMMA GarbleArtifactIInv == ASSUME IInv, NEW f \in Files, GarbleArtifact(f) PROVE IInv'
  <1> USE DEF GarbleArtifact, IInv, orgVars
  <1>1. FilesInv'
    BY DEF FilesInv
  <1>2. edits' \in 0..MaxEdits
    BY ReleaseGatesAssumption
  <1>3. RegistryInv' /\ SidesInv' /\ MadeInv' /\ ProvisionInv'
    BY DEF RegistryInv, SidesInv, EnvelopeInv, MadeInv, ProvisionInv
  <1> QED BY <1>1, <1>2, <1>3

(* The envelope build_integrity_sidecar makes. *)
LEMMA SidecarShape ==
    ASSUME NEW a \in Artifacts, NEW seed \in Seeds, NEW id \in Ids,
           NEW t \in Nat, NEW env, env = Sidecar(a, seed, id, t)
    PROVE  /\ env \in Envelopes /\ Readable(env) /\ env.flaw = "none" /\ env.type = EnvelopeType
           /\ env.target = ReleaseDigest(a) /\ env.digest = EnvelopeDigest(env)
           /\ env.digest = [type |-> EnvelopeType, body |-> ReleaseDigest(a), versioned |-> TRUE]
           /\ env.sig.seed = seed /\ env.sig.id = id /\ env.sig.at = t
           /\ env.sig.message = Message(EnvelopeType, env.digest)
  <1> DEFINE digest == [type |-> EnvelopeType, body |-> ReleaseDigest(a), versioned |-> TRUE]
  <1>1. env = [type |-> EnvelopeType, target |-> ReleaseDigest(a), digest |-> digest, flaw |-> "none",
               sig |-> [seed |-> seed, id |-> id, at |-> t,
                        message |-> Message(EnvelopeType, digest)]]
    BY DEF Sidecar, SignArtifact
  <1>2. env \in Envelopes
    <2>1. digest \in {[type |-> EnvelopeType, body |-> ReleaseDigest(x), versioned |-> TRUE] : x \in Artifacts}
      OBVIOUS
    <2> HIDE DEF digest
    <2> QED BY <1>1, <2>1 DEF Envelopes, Flaws, Seeds, Ids
  <1>3. Readable(env)
    BY <1>2, SentinelAssumption DEF Readable
  <1> QED BY <1>1, <1>2, <1>3 DEF EnvelopeDigest

LEMMA SignIInv ==
    ASSUME IInv, NEW f \in Files, NEW h \in Holders, NEW p \in {f, Shared, Stem[f], Named}, NEW a \in Ahead,
           Sign(f, h, p, now + a)
    PROVE  IInv'
  <1> USE DEF Sign, IInv, orgVars
  <1> DEFINE env == Sidecar(root[f], h[1], h[2], now + a)
             m == [seed |-> h[1], id |-> h[2], at |-> now + a, target |-> ReleaseDigest(root[f])]
  <1>1. root[f] \in Artifacts
    BY DEF FilesInv, Readable
  <1>2. now + a \in Nat /\ now \in Times
    BY ReleaseGatesAssumption DEF Times
  <1>3. /\ env \in Envelopes /\ env.sig.seed = h[1] /\ env.sig.id = h[2] /\ env.sig.at = now + a
        /\ env.digest = [type |-> EnvelopeType, body |-> ReleaseDigest(root[f]), versioned |-> TRUE]
        /\ env.sig.message = Message(EnvelopeType, env.digest)
    <2>1. h[1] \in Seeds /\ h[2] \in Ids
      BY DEF Seeds, Ids
    <2> QED BY <1>1, <1>2, <2>1, SidecarShape
  <1>4. /\ side' = [side EXCEPT ![p] = env] /\ made' = made \cup {m}
        /\ Cardinality(made) < MaxMade /\ p \in Places
    BY DEF Places
  <1>5. m \in SignatureRecords
    BY <1>1, <1>2 DEF SignatureRecords
  <1>6. MadeInv'
    <2> HIDE DEF m
    <2>1. /\ IsFiniteSet(made')
          /\ Cardinality(made') = Cardinality(made) \/ Cardinality(made') = Cardinality(made) + 1
      <3>1. IsFiniteSet(made)
        BY DEF MadeInv
      <3>2. /\ IsFiniteSet(made \cup {m})
            /\ Cardinality(made \cup {m}) = IF m \in made THEN Cardinality(made) ELSE Cardinality(made) + 1
        BY <3>1, FS_AddElement
      <3> QED BY <1>4, <3>2
    <2>2. Cardinality(made) \in Nat /\ Cardinality(made') \in Nat
      BY <2>1, FS_CardinalityType DEF MadeInv
    <2> QED BY <1>4, <1>5, <2>1, <2>2, ReleaseGatesAssumption DEF MadeInv
  <1>7. SidesInv'
    <2> HIDE DEF env, m
    <2>1. m.seed = h[1] /\ m.id = h[2] /\ m.at = now + a /\ m.target = ReleaseDigest(root[f])
      BY DEF m
    <2>2. side' \in [Places -> Envelopes \cup {NoEnvelope, Garbled}]
      BY <1>3, <1>4 DEF SidesInv
    <2>3. ASSUME NEW q \in Places, Readable(side'[q]) PROVE EnvelopeInv(side[q])'
      <3>1. CASE q = p
        <4>1. side'[q] = env
          BY <1>4, <3>1 DEF SidesInv
        <4>2. m \in made'
          BY <1>4
        <4> QED BY <1>3, <2>1, <4>1, <4>2 DEF EnvelopeInv
      <3>2. CASE q # p
        <4>1. side'[q] = side[q]
          BY <1>4, <3>2 DEF SidesInv
        <4> QED BY <1>4, <2>3, <4>1, SMTT(30) DEF SidesInv, EnvelopeInv
      <3> QED BY <3>1, <3>2
    <2> QED BY <2>2, <2>3 DEF SidesInv
  <1>8. RegistryInv' /\ FilesInv' /\ ProvisionInv'
    BY DEF RegistryInv, FilesInv, ProvisionInv
  <1> QED BY <1>6, <1>7, <1>8

(* Damage leaves the signature of an envelope and the digest it is over. *)
LEMMA DamageShape ==
    ASSUME IInv, NEW p \in Places, NEW env \in Damaged(p)
    PROVE  /\ env \in Envelopes \cup {NoEnvelope, Garbled}
           /\ Readable(env) => Readable(side[p]) /\ env.digest = side[p].digest /\ env.sig = side[p].sig
  <1> DEFINE e == side[p]
  <1>1. CASE env \in {NoEnvelope, Garbled}
    BY <1>1 DEF Readable
  <1>2. CASE env \notin {NoEnvelope, Garbled}
    <2>1. Readable(e) /\ e \in Envelopes
      BY <1>2 DEF Damaged, IInv, SidesInv, Readable
    <2>2. \/ \E w \in SeenFlaws : env = [e EXCEPT !.flaw = w]
          \/ \E f \in Files : Readable(root[f]) /\ env = [e EXCEPT !.target = ReleaseDigest(root[f])]
      BY <1>2, <2>1 DEF Damaged, Retargeted
    <2> HIDE DEF e
    <2>3. ASSUME NEW w \in SeenFlaws, env = [e EXCEPT !.flaw = w]
          PROVE  env \in Envelopes /\ env.digest = e.digest /\ env.sig = e.sig
      BY <2>1, <2>3, ReleaseGatesAssumption DEF Envelopes
    <2>4. ASSUME NEW f \in Files, Readable(root[f]), env = [e EXCEPT !.target = ReleaseDigest(root[f])]
          PROVE  env \in Envelopes /\ env.digest = e.digest /\ env.sig = e.sig
      <3>1. root[f] \in Artifacts
        BY <2>4 DEF IInv, FilesInv, Readable
      <3> QED BY <2>1, <2>4, <3>1 DEF Envelopes
    <2> QED BY <2>1, <2>2, <2>3, <2>4 DEF e
  <1> QED BY <1>1, <1>2

LEMMA DisturbIInv ==
    ASSUME IInv, NEW p \in Places, NEW env \in Damaged(p), Disturb(p, env) PROVE IInv'
  <1> USE DEF Disturb, IInv, orgVars
  <1>1. SidesInv'
    <2>1. side' \in [Places -> Envelopes \cup {NoEnvelope, Garbled}]
      BY DamageShape DEF SidesInv
    <2>2. ASSUME NEW q \in Places, Readable(side'[q]) PROVE EnvelopeInv(side[q])'
      <3>1. CASE q = p
        <4>1. side'[q] = env /\ Readable(side[p]) /\ env.digest = side[p].digest /\ env.sig = side[p].sig
          BY <2>2, <3>1, DamageShape DEF SidesInv
        <4>2. EnvelopeInv(side[p])
          BY <4>1 DEF SidesInv
        <4> QED BY <4>1, <4>2 DEF EnvelopeInv
      <3>2. CASE q # p
        <4>1. side'[q] = side[q]
          BY <3>2 DEF SidesInv
        <4> QED BY <2>2, <4>1 DEF SidesInv, EnvelopeInv
      <3> QED BY <3>1, <3>2
    <2> QED BY <2>1, <2>2 DEF SidesInv
  <1>2. edits' \in 0..MaxEdits
    BY ReleaseGatesAssumption
  <1>3. RegistryInv' /\ FilesInv' /\ MadeInv' /\ ProvisionInv'
    BY DEF RegistryInv, FilesInv, MadeInv, ProvisionInv
  <1> QED BY <1>1, <1>2, <1>3

(* What is written when a checker is installed says what was graded. *)
LEMMA InstallIInv ==
    ASSUME IInv, NEW mode, NEW bytes, Install(mode, bytes) PROVE IInv'
  <1> USE DEF Install, IInv, integrityVars
  <1> DEFINE new == InstalledProvision(pin, bytes)
  <1>1. new.grade \in Grades /\ new.identity = pin /\ new.digest = bytes
    BY DEF InstalledProvision, Grades
  <1>2. pin # NoPin
    BY DEF Installable, PinAcceptable
  <1>3. pin.strategy = "signed_binary" => bytes = pin.binary
    BY DEF FetchAccepted
  <1>4. ProvisionInv'
    <2> HIDE DEF new
    <2>1. provision' = new
      BY DEF new
    <2> QED BY <1>1, <1>3, <2>1 DEF ProvisionInv
  <1>5. RegistryInv' /\ FilesInv' /\ SidesInv' /\ MadeInv'
    BY DEF RegistryInv, FilesInv, SidesInv, EnvelopeInv, MadeInv
  <1> QED BY <1>4, <1>5

LEMMA InstallFromPythonIInv ==
    ASSUME IInv, NEW bytes, InstallFromPython(bytes) PROVE IInv'
  <1> USE DEF InstallFromPython, IInv, integrityVars
  <1> DEFINE new == BuiltProvision(pin, bytes)
  <1>1. new.grade \in Grades /\ new.identity = pin /\ new.digest = bytes
    BY DEF BuiltProvision, Grades
  <1>2. pin \in Pins \ {NoPin}
    OBVIOUS
  <1>3. new.grade = "pinned" /\ pin.strategy = "signed_binary" => bytes = pin.binary
    <2> SUFFICES ASSUME new.grade = "pinned", pin.strategy = "signed_binary" PROVE bytes = pin.binary
      OBVIOUS
    <2>1. \/ ProductionReady(pin) /\ ExpectedBinary(pin) \in {NoFile, bytes}
          \/ ExpectedBinary(pin) # NoFile /\ bytes = ExpectedBinary(pin)
      BY DEF BuiltProvision
    <2>2. ProductionReady(pin) => pin.complete
      BY DEF ProductionReady, PinErrors, ProductionStrategies
    <2>3. pin.complete
      BY <2>1, <2>2 DEF ExpectedBinary
    <2>4. ExpectedBinary(pin) = pin.binary /\ pin.binary # NoFile
      BY <1>2, <2>3, PinAssumption DEF ExpectedBinary
    <2> QED BY <2>1, <2>4
  <1>4. ProvisionInv'
    <2> HIDE DEF new
    <2>1. provision' = new
      BY DEF new
    <2> QED BY <1>1, <1>3, <2>1 DEF ProvisionInv
  <1>5. RegistryInv' /\ FilesInv' /\ SidesInv' /\ MadeInv'
    BY DEF RegistryInv, FilesInv, SidesInv, EnvelopeInv, MadeInv
  <1> QED BY <1>4, <1>5

LEMMA OrganisationIInv ==
    ASSUME IInv,
           \/ \E q \in Pins : Repin(q)
           \/ BuildProvenance \/ FinalizeNotice
           \/ \E status \in {"signed", "gated"} : FinalizeBinding(status)
    PROVE  IInv'
  <1> USE DEF IInv, integrityVars
  <1>1. /\ UNCHANGED <<integrityVars, provision>> /\ pin' \in Pins
        /\ provenance' \in [status : {NoStatus, "pending", "signed", "gated"}, notice : BOOLEAN]
    BY DEF Repin, BuildProvenance, FinalizeNotice, FinalizeBinding
  <1>2. RegistryInv' /\ FilesInv' /\ SidesInv' /\ MadeInv' /\ ProvisionInv'
    BY <1>1 DEF RegistryInv, FilesInv, SidesInv, EnvelopeInv, MadeInv, ProvisionInv
  <1> QED BY <1>1, <1>2

LEMMA InvariantKept == IInv /\ [Next]_vars => IInv'
  <1> SUFFICES ASSUME IInv, [Next]_vars PROVE IInv'
    OBVIOUS
  <1>1. CASE UNCHANGED vars
    BY <1>1 DEF vars, integrityVars, orgVars, IInv, RegistryInv, FilesInv, SidesInv, EnvelopeInv,
                MadeInv, ProvisionInv
  <1>2. ASSUME NEW k \in KeyOffers, Publish(k) PROVE IInv'
    BY <1>2, PublishIInv
  <1>3. ASSUME NEW id, NEW t \in RevokeTimes, Revoke(id, t) PROVE IInv'
    BY <1>3, RevokeIInv
  <1>4. CASE Tick
    BY <1>4, TickIInv
  <1>5. ASSUME NEW f \in Files, NEW b \in Bodies, WriteArtifact(f, b) PROVE IInv'
    BY <1>5, WriteArtifactIInv
  <1>6. ASSUME NEW f \in Files, GarbleArtifact(f) PROVE IInv'
    BY <1>6, GarbleArtifactIInv
  <1>7. ASSUME NEW f \in Files, NEW h \in Holders, NEW p \in {f, Shared, Stem[f], Named}, NEW a \in Ahead,
               Sign(f, h, p, now + a)
        PROVE  IInv'
    BY <1>7, SignIInv
  <1>8. ASSUME NEW p \in Places, NEW env \in Damaged(p), Disturb(p, env) PROVE IInv'
    BY <1>8, DisturbIInv
  <1>9. ASSUME NEW bytes, NEW m, Install(m, bytes) \/ InstallFromPython(bytes) PROVE IInv'
    BY <1>9, InstallIInv, InstallFromPythonIInv
  <1>10. CASE \/ \E q \in Pins : Repin(q)
              \/ BuildProvenance \/ FinalizeNotice
              \/ \E status \in {"signed", "gated"} : FinalizeBinding(status)
    BY <1>10, OrganisationIInv
  <1> QED BY <1>1, <1>2, <1>3, <1>4, <1>5, <1>6, <1>7, <1>8, <1>9, <1>10 DEF Next

LEMMA Inductive == Spec => []IInv
  BY InitIInv, InvariantKept, PTL DEF Spec

-----------------------------------------------------------------------------
(* TypeOK holds in every reachable state: the registry keeps its length and  *)
(* its revocation times, every readable file is one a producer writes, every *)
(* signature recorded was made at a time a signer's clock could show, and    *)
(* provision files carry one of the three grades.                            *)
THEOREM TypeCorrect == Spec => []TypeOK
  <1>1. IInv => TypeOK
    <2> SUFFICES ASSUME IInv PROVE TypeOK
      OBVIOUS
    <2> USE DEF IInv
    <2>1. registry = NoRegistry \/ (Len(registry) \in 1..MaxKeys
             /\ \A i \in DOMAIN registry : registry[i].revoked \in RevokeTimes \cup {NoTime})
      <3>1. CASE registry # NoRegistry
        <4>1. registry \in Seq(Keys) /\ registry # <<>> /\ Len(registry) <= MaxKeys
          BY <3>1 DEF RegistryInv
        <4>2. Len(registry) \in 1..MaxKeys
          BY <4>1, ReleaseGatesAssumption
        <4>3. \A i \in DOMAIN registry : registry[i] \in Keys
          BY <4>1
        <4> QED BY <4>2, <4>3, KeyShape
      <3> QED BY <3>1
    <2>2. \A f \in Files : Readable(root[f]) => root[f] \in Artifacts
      BY DEF FilesInv, Readable
    <2>3. \A p \in Places : Readable(side[p]) => side[p].type = EnvelopeType /\ side[p].flaw \in Flaws
      BY DEF SidesInv, Readable, Envelopes
    <2> QED BY <2>1, <2>2, <2>3 DEF TypeOK, MadeInv, ProvisionInv
  <1> QED BY <1>1, Inductive, PTL

(* A stable release with a signed binary pinned goes out with that binary,   *)
(* whichever of the two installers wrote the provision file.                 *)
THEOREM CheckerIsPinned == Spec => []AcceptedCheckerIsPinned
  <1>1. IInv => AcceptedCheckerIsPinned
    <2> SUFFICES ASSUME IInv, Passes("release"), provision # NoProvision, provision.identity = pin,
                        pin.strategy = "signed_binary"
                 PROVE  provision.digest = pin.binary
      BY DEF AcceptedCheckerIsPinned
    <2>1. ~PinGateFails("release") /\ ~TrustGateFails("release")
      BY DEF Passes, HardFailures
    <2>2. pin # NoPin /\ provision.grade = "pinned"
      BY <2>1 DEF PinGateFails, TrustGateFails
    <2> QED BY <2>2 DEF IInv, ProvisionInv
  <1> QED BY <1>1, Inductive, PTL

LEMMA PassesReleaseMeans ==
    Passes("release") =>
        /\ pin # NoPin /\ ProductionReady(pin) /\ ~TrustGateFails("release")
        /\ registry # NoRegistry /\ Loadable(registry) /\ HasReleaseKey
        /\ RootErrors(root, side, PlacesOf, registry, now) = {}
        /\ provenance.status = "signed" /\ ~ModePolicyGateFails
  BY ReleaseGatesAssumption
     DEF Passes, HardFailures, PinGateFails, RegistryGateFails, SignatureGateFails, ProvenanceGateFails

(* No gate is weaker for a release than for a preview: true in every state,  *)
(* reachable or not (evaluate_release_gates).                                *)
THEOREM StableIsPreview == Spec => []StableImpliesPreview
  <1>1. StableImpliesPreview
    <2> SUFFICES ASSUME Passes("release") PROVE Passes("preview")
      BY DEF StableImpliesPreview
    <2>2. ~ProvenanceGateFails("preview", TRUE, FALSE)
      BY PassesReleaseMeans, ReleaseGatesAssumption DEF ProvenanceGateFails
    <2>3. ~SignatureGateFails("preview", TRUE)
      BY PassesReleaseMeans DEF SignatureGateFails
    <2>4. ~PinGateFails("preview") /\ ~TrustGateFails("preview") /\ ~RegistryGateFails("preview")
             /\ ~OciGateFails("preview", FALSE, FALSE) /\ ~ModePolicyGateFails
      BY PassesReleaseMeans DEF PinGateFails, TrustGateFails, RegistryGateFails, OciGateFails
    <2> QED BY <2>2, <2>3, <2>4 DEF Passes, HardFailures
  <1> QED BY <1>1, PTL

-----------------------------------------------------------------------------
(* What it takes to accept an envelope (verify_artifact_signature): a        *)
(* well-formed envelope over the digest asked for, and every listed key of   *)
(* its id serves the purpose, made the signature, and was in force.          *)
LEMMA AcceptedMeans ==
    ASSUME NEW env, env.flaw \in Flaws, NEW R, NEW t, NEW purpose, NEW expected
    PROVE  SignatureErrors(env, R, t, purpose, expected) = {} <=>
              /\ env.flaw = "none" /\ DigestErrors(env, expected) = {}
              /\ KeysWithId(R, env.sig.id) # {}
              /\ \A k \in KeysWithId(R, env.sig.id) :
                    /\ ServesPurpose(k, purpose) /\ TimestampErrors(env.sig.at, k, t) = {}
                    /\ SignatureHolds(env.sig, k.public, Message(env.type, env.digest))
  <1> DEFINE keys == KeysWithId(R, env.sig.id)
             good(k) == /\ ServesPurpose(k, purpose) /\ TimestampErrors(env.sig.at, k, t) = {}
                        /\ SignatureHolds(env.sig, k.public, Message(env.type, env.digest))
  <1>1. ASSUME NEW k PROVE KeyErrors(env, k, t, purpose) = {} <=> env.flaw # "bad time" /\ good(k)
    BY DEF KeyErrors
  <1> HIDE DEF good, keys
  <1>2. CASE env.flaw = "no digest"
    BY <1>2 DEF SignatureErrors
  <1>3. CASE env.flaw \in {"no signature", "algorithm", "incomplete"}
    BY <1>3 DEF SignatureErrors
  <1>4. CASE env.flaw = "legacy field"
    BY <1>4 DEF SignatureErrors
  <1>5. CASE env.flaw \in {"none", "bad time"}
    <2>1. SignatureErrors(env, R, t, purpose, expected) =
             DigestErrors(env, expected) \cup IF keys = {} THEN {"UnknownKeyId"}
                                              ELSE UNION {KeyErrors(env, k, t, purpose) : k \in keys}
      BY <1>5 DEF SignatureErrors, keys
    <2>2. UNION {KeyErrors(env, k, t, purpose) : k \in keys} = {}
             <=> \A k \in keys : KeyErrors(env, k, t, purpose) = {}
      OBVIOUS
    <2>3. SignatureErrors(env, R, t, purpose, expected) = {} <=>
             /\ DigestErrors(env, expected) = {} /\ keys # {}
             /\ \A k \in keys : env.flaw # "bad time" /\ good(k)
      BY <1>1, <2>1, <2>2
    <2>4. (keys # {} /\ \A k \in keys : env.flaw # "bad time" /\ good(k))
             <=> (env.flaw = "none" /\ keys # {} /\ \A k \in keys : good(k))
      BY <1>5
    <2> QED BY <2>3, <2>4 DEF good, keys
  <1> QED BY <1>2, <1>3, <1>4, <1>5 DEF Flaws

LEMMA TimestampMeans ==
    ASSUME NEW at, NEW k, NEW t
    PROVE  TimestampErrors(at, k, t) = {} <=> IsValidAt(k, at) /\ ~(at > t + Skew) /\ ~(at < t - MaxAge)
  BY DEF TimestampErrors, IsValidAt

(* The envelope the search finds for a judged file. *)
LEMMA JudgedShape ==
    ASSUME IInv, NEW f \in Judged(root), NEW env, env = Discovered(side, PlacesOf[f])
    PROVE  /\ f \in Files /\ root[f] \in Artifacts /\ root[f].type \in StableTypes
           /\ env # NoEnvelope => /\ Readable(env) /\ env \in Envelopes /\ EnvelopeInv(env)
                                  /\ env.flaw \in Flaws
  <1>1. f \in Files /\ Readable(root[f]) /\ root[f].type \in StableTypes
    BY DEF Judged, IInv, FilesInv
  <1>2. root[f] \in Artifacts
    BY <1>1 DEF IInv, FilesInv, Readable
  <1>3. ASSUME env # NoEnvelope PROVE Readable(env) /\ env \in Envelopes /\ EnvelopeInv(env)
    <2>1. \E p \in Places : env = side[p] /\ Readable(side[p])
      BY <1>1, <1>3, DiscoveredIsFirst
    <2> QED BY <2>1 DEF IInv, SidesInv, Readable
  <1>4. ASSUME env # NoEnvelope PROVE env.flaw \in Flaws
    BY <1>3, <1>4 DEF Envelopes
  <1> QED BY <1>1, <1>2, <1>3, <1>4

LEMMA RecordShape ==
    ASSUME IInv, NEW m \in made
    PROVE  /\ m.at \in Nat /\ now \in Nat
           /\ m.seed \in Seeds /\ m.id \in Ids
  <1>1. m \in SignatureRecords /\ Times \subseteq Nat /\ now \in Times
    BY ReleaseGatesAssumption DEF IInv, MadeInv, Times
  <1>2. m.seed \in Seeds /\ m.id \in Ids
    BY <1>1 DEF SignatureRecords, Seeds, Ids
  <1>3. PICK t \in Times, a \in Ahead : m.at = t + a
    BY <1>1 DEF SignatureRecords
  <1>4. t \in Nat /\ a \in Nat /\ now \in Nat
    BY <1>1, <1>3, ReleaseGatesAssumption
  <1> QED BY <1>2, <1>3, <1>4

(* The verdict on a file and on a root, for any files, envelopes, registry   *)
(* and time.                                                                 *)
LEMMA FileErrorsMean ==
    ASSUME NEW Root, NEW S, NEW R, NEW t, NEW f, NEW env, env = Discovered(S, PlacesOf[f]),
           env # NoEnvelope => env.flaw \in Flaws
    PROVE  FileErrors(Root, S, PlacesOf, f, R, t) = {} <=>
              /\ env # NoEnvelope /\ env.flaw = "none" /\ DigestErrors(env, ReleaseDigest(Root[f])) = {}
              /\ KeysWithId(R, env.sig.id) # {}
              /\ \A k \in KeysWithId(R, env.sig.id) :
                    /\ ServesPurpose(k, "release_signing") /\ TimestampErrors(env.sig.at, k, t) = {}
                    /\ SignatureHolds(env.sig, k.public, Message(env.type, env.digest))
  <1>1. CASE env = NoEnvelope
    BY <1>1 DEF FileErrors
  <1>2. CASE env # NoEnvelope
    <2>1. env.flaw \in Flaws
      BY <1>2
    <2>2. FileErrors(Root, S, PlacesOf, f, R, t)
             = SignatureErrors(env, R, t, "release_signing", ReleaseDigest(Root[f]))
      BY <1>2 DEF FileErrors
    <2> QED BY <1>2, <2>1, <2>2, AcceptedMeans
  <1> QED BY <1>1, <1>2

LEMMA RootErrorsMean ==
    ASSUME NEW Root, NEW S, NEW R, NEW t
    PROVE  RootErrors(Root, S, PlacesOf, R, t) = {} <=>
              \A f \in Judged(Root) : FileErrors(Root, S, PlacesOf, f, R, t) = {}
  <1> DEFINE errs(f) == FileErrors(Root, S, PlacesOf, f, R, t)
  <1>1. RootErrors(Root, S, PlacesOf, R, t) = UNION {{<<f, e>> : e \in errs(f)} : f \in Judged(Root)}
    BY DEF RootErrors
  <1> HIDE DEF errs
  <1>2. \A f : {<<f, e>> : e \in errs(f)} = {} <=> errs(f) = {}
    OBVIOUS
  <1> QED BY <1>1, <1>2 DEF errs

(* A file whose envelope is accepted is the artifact its signature is about: *)
(* the digest asked for is that of a stable type, and a digest over an       *)
(* envelope is not, so it is the target the envelope names that agrees.      *)
LEMMA AcceptedTarget ==
    ASSUME IInv, NEW f \in Judged(root), NEW env, env = Discovered(side, PlacesOf[f]),
           env # NoEnvelope, DigestErrors(env, ReleaseDigest(root[f])) = {}
    PROVE  \E m \in made : /\ env.sig.seed = m.seed /\ env.sig.id = m.id /\ env.sig.at = m.at
                           /\ m.target = ReleaseDigest(root[f])
  <1> DEFINE want == ReleaseDigest(root[f])
  <1>1. /\ root[f] \in Artifacts /\ root[f].type \in StableTypes
        /\ env \in Envelopes /\ EnvelopeInv(env)
    BY JudgedShape
  <1>2. want # NoTarget /\ want.type \in StableTypes
    BY <1>1, SentinelAssumption DEF ReleaseDigest
  <1> HIDE DEF want
  <1>3. env.digest = EnvelopeDigest(env) /\ want \in {env.digest, EnvelopeDigest(env), env.target}
    BY <1>2 DEF DigestErrors, want
  <1>4. env.type = EnvelopeType /\ EnvelopeType \notin StableTypes
    BY <1>1 DEF Envelopes, EnvelopeType, StableTypes
  <1>5. want # EnvelopeDigest(env)
    BY <1>2, <1>4 DEF EnvelopeDigest
  <1>6. want = env.target
    BY <1>3, <1>5
  <1>7. PICK m \in made : /\ env.sig.seed = m.seed /\ env.sig.id = m.id /\ env.sig.at = m.at
                          /\ env.digest = [type |-> EnvelopeType, body |-> m.target, versioned |-> TRUE]
    BY <1>1 DEF EnvelopeInv
  <1>8. m.target = env.target
    BY <1>3, <1>7 DEF EnvelopeDigest
  <1> QED BY <1>6, <1>7, <1>8 DEF want

(* What a stable release lets out was signed as it is now, by a holder of a  *)
(* listed release key in force then, within the age a signature may have:    *)
(* for any files, keys and signers, whatever was edited, rotated or revoked  *)
(* since (verify_release_root_signatures).                                   *)
THEOREM ReleasedAuthentic == Spec => []ReleasedIsAuthentic
  <1>1. IInv => ReleasedIsAuthentic
    <2> SUFFICES ASSUME IInv, Passes("release"), NEW f \in Judged(root)
                 PROVE  \E m \in made, i \in DOMAIN registry :
                          /\ m.target = ReleaseDigest(root[f])
                          /\ registry[i].id = m.id /\ registry[i].public = m.seed
                          /\ ServesPurpose(registry[i], "release_signing") /\ IsValidAt(registry[i], m.at)
                          /\ now - MaxAge <= m.at /\ m.at <= now + Skew
      BY DEF ReleasedIsAuthentic
    <2> DEFINE env == Discovered(side, PlacesOf[f])
    <2>1. FileErrors(root, side, PlacesOf, f, registry, now) = {}
      BY PassesReleaseMeans, RootErrorsMean
    <2>2. /\ env # NoEnvelope /\ DigestErrors(env, ReleaseDigest(root[f])) = {}
          /\ KeysWithId(registry, env.sig.id) # {}
          /\ \A k \in KeysWithId(registry, env.sig.id) :
                /\ ServesPurpose(k, "release_signing") /\ TimestampErrors(env.sig.at, k, now) = {}
                /\ SignatureHolds(env.sig, k.public, Message(env.type, env.digest))
      BY <2>1, JudgedShape, FileErrorsMean
    <2>3. PICK m \in made : /\ env.sig.seed = m.seed /\ env.sig.id = m.id /\ env.sig.at = m.at
                            /\ m.target = ReleaseDigest(root[f])
      BY <2>2, AcceptedTarget
    <2> HIDE DEF env
    <2>4. PICK i \in DOMAIN registry : registry[i] \in KeysWithId(registry, m.id)
      BY <2>2, <2>3 DEF KeysWithId
    <2>5. registry[i].id = m.id /\ registry[i].public = m.seed
      BY <2>2, <2>3, <2>4 DEF KeysWithId, SignatureHolds
    <2>6. IsValidAt(registry[i], m.at) /\ ~(m.at > now + Skew) /\ ~(m.at < now - MaxAge)
      BY <2>2, <2>3, <2>4, TimestampMeans
    <2>7. m.at \in Nat /\ now \in Nat
      BY RecordShape
    <2>8. now - MaxAge <= m.at /\ m.at <= now + Skew
      BY <2>6, <2>7, ReleaseGatesAssumption
    <2> QED BY <2>2, <2>3, <2>4, <2>5, <2>6, <2>8
  <1> QED BY <1>1, Inductive, PTL

(* A release prepared by the book passes, for any number of files: no gate   *)
(* asks for more than the documented steps leave behind.                     *)
THEOREM HonestPasses == Spec => []HonestReleasePasses
  <1>1. IInv => HonestReleasePasses
    <2> SUFFICES ASSUME IInv, PreparedByTheBook PROVE Passes("release")
      BY DEF HonestReleasePasses
    <2> USE DEF PreparedByTheBook
    <2>1. ASSUME NEW f \in Judged(root)
          PROVE  FileErrors(root, side, PlacesOf, f, registry, now) = {}
      <3>1. f \in Files /\ root[f] \in Artifacts
        BY JudgedShape
      <3>2. PICK m \in made, i \in DOMAIN registry :
                 /\ side[f] = Sidecar(root[f], m.seed, m.id, m.at)
                 /\ registry[i].id = m.id /\ registry[i].public = m.seed
                 /\ ServesPurpose(registry[i], "release_signing") /\ IsValidAt(registry[i], m.at)
                 /\ m.at \in (now - MaxAge)..(now + Skew)
        BY <3>1 DEF SignedByTheBook
      <3> DEFINE env == side[f]
      <3>3. m.at \in Nat /\ now \in Nat
        BY RecordShape
      <3>4. /\ Readable(env) /\ env.target = ReleaseDigest(root[f])
            /\ env.digest = EnvelopeDigest(env) /\ env.flaw = "none" /\ env.type = EnvelopeType
            /\ env.sig.seed = m.seed /\ env.sig.id = m.id /\ env.sig.at = m.at
            /\ env.sig.message = Message(EnvelopeType, env.digest)
        <4>1. Readable(env)
          <5>1. m.seed \in Seeds /\ m.id \in Ids
            BY RecordShape
          <5>2. PICK a \in Artifacts, t \in Nat : a = root[f] /\ t = m.at
            BY <3>1, <3>3
          <5>3. env = Sidecar(a, m.seed, m.id, t)
            BY <3>2, <5>2
          <5> HIDE DEF env
          <5> QED BY <5>1, <5>3, SidecarShape
        <4> QED BY <3>2, <4>1 DEF Sidecar, SignArtifact, EnvelopeDigest
      <3>5. env = Discovered(side, PlacesOf[f])
        BY <3>1, <3>4, DiscoveredIsFirst
      <3> HIDE DEF env
      <3>6. env # NoEnvelope
        BY <3>4 DEF Readable
      <3>7. DigestErrors(env, ReleaseDigest(root[f])) = {}
        BY <3>4 DEF DigestErrors
      <3>8. KeysWithId(registry, env.sig.id) = {registry[i]}
        BY <3>2, <3>4 DEF Loadable, KeysWithId
      <3>9. TimestampErrors(m.at, registry[i], now) = {}
        BY <3>2, <3>3, TimestampMeans, ReleaseGatesAssumption
      <3>10. SignatureHolds(env.sig, registry[i].public, Message(env.type, env.digest))
        BY <3>2, <3>4 DEF SignatureHolds
      <3> QED BY <3>2, <3>4, <3>5, <3>6, <3>7, <3>8, <3>9, <3>10, JudgedShape, FileErrorsMean
    <2>2. HasReleaseKey
      BY ReleaseGatesAssumption DEF SignedByTheBook, HasReleaseKey
    <2>3. ~PinGateFails("release") /\ ~TrustGateFails("release") /\ ~RegistryGateFails("release")
      BY <2>2 DEF PinGateFails, TrustGateFails, RegistryGateFails
    <2>4. ~SignatureGateFails("release", TRUE)
      BY <2>1, RootErrorsMean DEF SignatureGateFails
    <2>5. ~ProvenanceGateFails("release", TRUE, FALSE)
      BY ReleaseGatesAssumption DEF ProvenanceGateFails
    <2>6. ~ModePolicyGateFails /\ ~OciGateFails("release", FALSE, FALSE)
      BY ModeTableAssumption DEF ModePolicyGateFails, OciGateFails
    <2> QED BY <2>3, <2>4, <2>5, <2>6 DEF Passes, HardFailures
  <1> QED BY <1>1, Inductive, PTL

-----------------------------------------------------------------------------
(* How a step changes the registry: a key is appended, or its revocation     *)
(* time replaced, or nothing changes; entries are never taken away.          *)
LEMMA RegistryStep ==
    ASSUME IInv, [Next]_vars, registry # NoRegistry
    PROVE  /\ registry \in Seq(Keys) /\ registry' \in Seq(Keys) /\ registry' # NoRegistry
           /\ DOMAIN registry \subseteq DOMAIN registry'
           /\ \A i \in DOMAIN registry :
                 /\ registry'[i].id = registry[i].id /\ registry'[i].public = registry[i].public
                 /\ registry'[i].from = registry[i].from /\ registry'[i].until = registry[i].until
                 /\ registry'[i].purposes = registry[i].purposes
                 /\ \/ registry'[i].revoked = registry[i].revoked
                    \/ registry'[i].revoked \in RevokeTimes
           /\ now' >= now
  <1>1. registry \in Seq(Keys) /\ now \in Nat
    BY ReleaseGatesAssumption DEF IInv, RegistryInv, Times
  <1>2. ASSUME NEW k \in KeyOffers, Publish(k)
        PROVE  /\ registry' = Append(registry, k) /\ registry' \in Seq(Keys) /\ now' = now
               /\ DOMAIN registry \subseteq DOMAIN registry'
               /\ \A i \in DOMAIN registry : registry'[i] = registry[i]
    <2>1. registry' = Append(registry, k) /\ k \in Keys /\ now' = now
      BY <1>2, OfferIsKey DEF Publish
    <2> QED BY <1>1, <2>1, AppendFacts
  <1>3. ASSUME NEW id, NEW t \in RevokeTimes, Revoke(id, t)
        PROVE  registry' = Revoked(registry, id, t) /\ registry' \in Seq(Keys) /\ now' = now
    BY <1>1, <1>3, RevokedShape DEF Revoke
  <1>4. CASE UNCHANGED registry /\ now' >= now
    BY <1>1, <1>4, SentinelAssumption
  <1>5. \/ \E k \in KeyOffers : Publish(k)
        \/ \E id : \E t \in RevokeTimes : Revoke(id, t)
        \/ UNCHANGED registry /\ now' >= now
    BY <1>1 DEF Next, Tick, WriteArtifact, GarbleArtifact, Sign, Disturb, Repin, Install,
       InstallFromPython, BuildProvenance, FinalizeBinding, FinalizeNotice, integrityVars, vars
  <1>6. ASSUME NEW k \in KeyOffers, Publish(k) PROVE registry' # NoRegistry /\ now' >= now
    BY <1>1, <1>2, <1>6, SentinelAssumption
  <1>7. ASSUME NEW id, NEW t \in RevokeTimes, Revoke(id, t)
        PROVE  /\ registry' # NoRegistry /\ now' >= now /\ DOMAIN registry' = DOMAIN registry
               /\ \A i \in DOMAIN registry :
                    /\ registry'[i].id = registry[i].id /\ registry'[i].public = registry[i].public
                    /\ registry'[i].from = registry[i].from /\ registry'[i].until = registry[i].until
                    /\ registry'[i].purposes = registry[i].purposes
                    /\ registry'[i].revoked \in {registry[i].revoked, t}
    <2>1. registry' = Revoked(registry, id, t) /\ registry' \in Seq(Keys) /\ now' = now
      BY <1>3, <1>7
    <2> QED BY <1>1, <2>1, RevokedShape, SentinelAssumption
  <1>8. CASE \E k \in KeyOffers : Publish(k)
    BY <1>1, <1>2, <1>6, <1>8
  <1>9. CASE \E id : \E t \in RevokeTimes : Revoke(id, t)
    BY <1>1, <1>3, <1>7, <1>9
  <1> QED BY <1>4, <1>5, <1>8, <1>9

(* A release that passes keeps passing while keys are rotated: an accepted   *)
(* signature is judged as of the time it was made, so that neither the end   *)
(* of its key's interval nor a later revocation takes it back.               *)
THEOREM KeptUntilACause == Spec => KeptUntilCause
  <1>1. IInv /\ [Next]_vars => (Passes("release") /\ ~CauseOfLoss => Passes("release")')
    <2> SUFFICES ASSUME IInv, [Next]_vars, Passes("release"), ~CauseOfLoss PROVE Passes("release")'
      OBVIOUS
    <2>1. /\ UNCHANGED <<root, side, pin, provision, provenance>>
          /\ Loadable(registry') /\ HasReleaseKey'
      BY DEF CauseOfLoss, orgVars
    <2>2. registry # NoRegistry /\ Loadable(registry)
      BY PassesReleaseMeans
    <2>3. IInv'
      BY InvariantKept
    <2>4. ASSUME NEW f \in Judged(root)
          PROVE  FileErrors(root', side', PlacesOf, f, registry', now') = {}
      <3> DEFINE env == Discovered(side, PlacesOf[f])
      <3>1. FileErrors(root, side, PlacesOf, f, registry, now) = {}
        BY PassesReleaseMeans, RootErrorsMean
      <3>2. /\ env # NoEnvelope /\ env.flaw = "none" /\ DigestErrors(env, ReleaseDigest(root[f])) = {}
            /\ KeysWithId(registry, env.sig.id) # {}
            /\ \A k \in KeysWithId(registry, env.sig.id) :
                  /\ ServesPurpose(k, "release_signing") /\ TimestampErrors(env.sig.at, k, now) = {}
                  /\ SignatureHolds(env.sig, k.public, Message(env.type, env.digest))
        BY <3>1, JudgedShape, FileErrorsMean
      <3>3. /\ ~(env.sig.at < now' - MaxAge)
            /\ \A k \in KeysWithId(registry', env.sig.id) : ~IsRevokedAt(k, env.sig.at)
        BY DEF CauseOfLoss
      <3>4. env.sig.at \in Nat
        BY <3>2, JudgedShape DEF Envelopes
      <3> HIDE DEF env
      <3>5. PICK i \in DOMAIN registry : registry[i].id = env.sig.id
        BY <3>2 DEF KeysWithId
      <3>6. KeysWithId(registry', env.sig.id) = {registry'[i]}
        BY <2>1, <2>2, <3>5, RegistryStep DEF Loadable, KeysWithId
      <3>7. registry[i] \in KeysWithId(registry, env.sig.id)
        BY <3>5 DEF KeysWithId
      <3>8. /\ ServesPurpose(registry'[i], "release_signing")
            /\ SignatureHolds(env.sig, registry'[i].public, Message(env.type, env.digest))
        BY <2>2, <3>2, <3>7, RegistryStep DEF ServesPurpose
      <3>9. TimestampErrors(env.sig.at, registry'[i], now') = {}
        <4>1. IsValidAt(registry[i], env.sig.at) /\ ~(env.sig.at > now + Skew)
          BY <3>2, <3>7, TimestampMeans
        <4>2. ~IsRevokedAt(registry'[i], env.sig.at)
          BY <3>3, <3>6
        <4>3. IsValidAt(registry'[i], env.sig.at)
          BY <2>2, <4>1, <4>2, RegistryStep DEF IsValidAt
        <4>4. ~(env.sig.at > now' + Skew)
          <5>1. now \in Nat /\ now' \in Nat /\ now' >= now
            BY <2>2, <2>3, RegistryStep, ReleaseGatesAssumption DEF IInv, Times
          <5> QED BY <3>4, <4>1, <5>1, ReleaseGatesAssumption
        <4> QED BY <3>3, <4>3, <4>4, TimestampMeans
      <3>10. env = Discovered(side', PlacesOf[f]) /\ root'[f] = root[f]
        BY <2>1 DEF env
      <3>11. env.flaw \in Flaws
        BY <3>2 DEF Flaws
      <3> QED BY <3>2, <3>6, <3>8, <3>9, <3>10, <3>11, FileErrorsMean
    <2>5. RootErrors(root', side', PlacesOf, registry', now') = {}
      BY <2>1, <2>4, RootErrorsMean
    <2>6. registry' # NoRegistry
      BY <2>2, RegistryStep
    <2>7. ~SignatureGateFails("release", TRUE)'
      BY <2>1, <2>5, <2>6 DEF SignatureGateFails
    <2> QED BY <2>1, <2>5, <2>6, <2>7
            DEF Passes, HardFailures, PinGateFails, TrustGateFails, RegistryGateFails, SignatureGateFails,
                ProvenanceGateFails, ModePolicyGateFails, OciGateFails
  <1> QED BY <1>1, Inductive, PTL DEF Spec, KeptUntilCause

(* A signature refused because its key was revoked stays refused, whatever   *)
(* is published or signed or however time passes, unless a later revocation  *)
(* time is declared for an entry that has one (revoke_key_in_registry).      *)
THEOREM RevocationStays == Spec => RevocationStands
  <1> DEFINE Stays == \A f \in Files :
               RefusedAsRevoked(f) /\ UNCHANGED <<root, side>> /\ ~RevokedLater => RefusedAsRevoked(f)'
  <1>1. IInv /\ [Next]_vars => Stays
    <2> SUFFICES ASSUME IInv, [Next]_vars, NEW f \in Files, RefusedAsRevoked(f),
                        UNCHANGED <<root, side>>, ~RevokedLater
                 PROVE  RefusedAsRevoked(f)'
      OBVIOUS
    <2> DEFINE env == Discovered(side, PlacesOf[f])
    <2>1. /\ registry # NoRegistry /\ f \in Judged(root)
          /\ "KeyRevokedAtSignatureTime" \in FileErrors(root, side, PlacesOf, f, registry, now)
      BY DEF RefusedAsRevoked
    <2>2. env # NoEnvelope /\ env.sig.at \in Nat /\ env.flaw \in Flaws
      BY <2>1, JudgedShape DEF FileErrors, Envelopes
    <2>3. \A R, t : FileErrors(root, side, PlacesOf, f, R, t)
                      = SignatureErrors(env, R, t, "release_signing", ReleaseDigest(root[f]))
      BY <2>2 DEF FileErrors
    <2> HIDE DEF env
    <2>4. \A R, t : "KeyRevokedAtSignatureTime"
                       \in SignatureErrors(env, R, t, "release_signing", ReleaseDigest(root[f]))
             <=> /\ env.flaw \in {"none", "legacy field"}
                 /\ \E k \in KeysWithId(R, env.sig.id) : IsRevokedAt(k, env.sig.at)
      <3> SUFFICES ASSUME NEW R, NEW t
                   PROVE  "KeyRevokedAtSignatureTime"
                            \in SignatureErrors(env, R, t, "release_signing", ReleaseDigest(root[f]))
                          <=> /\ env.flaw \in {"none", "legacy field"}
                              /\ \E k \in KeysWithId(R, env.sig.id) : IsRevokedAt(k, env.sig.at)
        OBVIOUS
      <3>1. ASSUME NEW k
            PROVE  "KeyRevokedAtSignatureTime" \in KeyErrors(env, k, t, "release_signing")
                      <=> env.flaw # "bad time" /\ IsRevokedAt(k, env.sig.at)
        BY DEF KeyErrors, TimestampErrors
      <3>2. "KeyRevokedAtSignatureTime" \notin DigestErrors(env, ReleaseDigest(root[f]))
        BY DEF DigestErrors
      <3>3. CASE env.flaw \in {"no digest", "no signature", "algorithm", "incomplete"}
        BY <3>2, <3>3 DEF SignatureErrors
      <3>4. CASE env.flaw \in {"none", "legacy field", "bad time"}
        BY <3>1, <3>2, <3>4 DEF SignatureErrors
      <3> QED BY <2>2, <3>3, <3>4 DEF Flaws
    <2>5. PICK i \in DOMAIN registry : registry[i].id = env.sig.id /\ IsRevokedAt(registry[i], env.sig.at)
      BY <2>1, <2>3, <2>4 DEF KeysWithId
    <2>6. IsRevokedAt(registry'[i], env.sig.at) /\ registry'[i].id = env.sig.id
      <3>1. registry[i].revoked \in RevokeTimes
        BY <2>1, <2>5, RegistryStep, KeyShape DEF IsRevokedAt
      <3>2. registry'[i].revoked = registry[i].revoked
               \/ (registry'[i].revoked \in RevokeTimes /\ ~(registry'[i].revoked > registry[i].revoked))
        BY <2>1, <2>5, RegistryStep DEF RevokedLater, IsRevokedAt
      <3>3. registry'[i].revoked \in Nat /\ registry[i].revoked \in Nat
        BY <3>1, <3>2, ReleaseGatesAssumption
      <3>4. env.sig.at >= registry'[i].revoked /\ registry'[i].revoked # NoTime
        <4>1. env.sig.at >= registry[i].revoked
          BY <2>5 DEF IsRevokedAt
        <4>2. registry'[i].revoked <= registry[i].revoked
          BY <3>2, <3>3
        <4> QED BY <2>2, <3>3, <4>1, <4>2, ReleaseGatesAssumption
      <3>5. registry'[i].id = registry[i].id
        BY <2>1, <2>5, RegistryStep
      <3> QED BY <2>5, <3>4, <3>5 DEF IsRevokedAt
    <2>7. "KeyRevokedAtSignatureTime" \in FileErrors(root, side, PlacesOf, f, registry', now')
      <3>1. registry'[i] \in KeysWithId(registry', env.sig.id)
        BY <2>1, <2>6, RegistryStep DEF KeysWithId
      <3>2. env.flaw \in {"none", "legacy field"}
        BY <2>1, <2>3, <2>4
      <3> QED BY <2>3, <2>4, <2>6, <3>1, <3>2
    <2>8. registry' # NoRegistry
      BY <2>1, RegistryStep
    <2> QED BY <2>1, <2>7, <2>8 DEF RefusedAsRevoked
  <1> QED BY <1>1, Inductive, PTL DEF Spec, RevocationStands
=============================================================================
