----------------------- MODULE SignatureLibrariesProofs -----------------------
(***************************************************************************)
(* Proofs about SignatureLibraries for any releases, claims, orders of     *)
(* Python's sets, kills and number of runs.                                *)
(***************************************************************************)
EXTENDS SignatureLibraries, ListsProofs, FiniteSetTheorems

USE ErasPartitionLibs, AgeOrdersLibs

(***************************************************************************)
(* The choices the code makes have an answer.                              *)
(***************************************************************************)

(* A vote has a winner, which somebody voted for.                          *)
LEMMA VoteIsCast ==
    ASSUME NEW votes, DOMAIN votes \subseteq Libs, DOMAIN votes # {}
    PROVE  \E t \in DOMAIN votes : votes[t] = Vote(votes)
<1> DEFINE V == Voters(votes)
<1>1. V \in SUBSET Libs /\ V # {} /\ V \subseteq DOMAIN votes
  BY DEF Voters
<1>2. IsFiniteSet(V)
  BY <1>1, FS_Subset
<1> DEFINE f == [t \in V |-> Cardinality(For(votes, votes[t]))]
<1>3. \A t \in V : f[t] \in Nat
  <2> TAKE t \in V
  <2>1. For(votes, votes[t]) \in SUBSET Libs
    BY <1>1 DEF For
  <2> QED BY <2>1, FS_Subset, FS_CardinalityType
<1>4. PICK best \in V : \A u \in V : f[u] <= f[best]
  <2> HIDE DEF f, V
  <2> QED BY <1>1, <1>2, <1>3, GreatestExists
<1> DEFINE T == {t \in V : f[t] = f[best]}
<1>5. PICK won \in T : \A u \in T : Age[u] <= Age[won]
  <2>1. T \in SUBSET Libs /\ T # {}
    BY <1>1, <1>4
  <2>2. IsFiniteSet(T) /\ \A u \in T : Age[u] \in Nat
    BY <2>1, FS_Subset
  <2> HIDE DEF T
  <2> QED BY <2>1, <2>2, GreatestExists
<1> DEFINE spellings == {votes[t] : t \in V}
<1>6. ASSUME NEW m \in spellings \ {votes[won]} PROVE Beats(votes, votes[won], m)
  <2>1. PICK u \in V : m = votes[u]
    OBVIOUS
  <2>2. /\ Cardinality(For(votes, m)) = f[u] /\ Cardinality(For(votes, votes[won])) = f[won]
        /\ f[u] \in Nat /\ f[won] \in Nat /\ f[u] <= f[won]
    BY <1>3, <1>4, <1>5, <2>1
  <2>3. CASE f[u] < f[won]
    <3> HIDE DEF f
    <3> QED BY <2>2, <2>3 DEF Beats
  <2>4. CASE f[u] = f[won]
    <3>1. won \in For(votes, votes[won])
      BY <1>5 DEF For
    <3>2. ASSUME NEW x \in For(votes, m) PROVE Age[won] > Age[x]
      <4>1. x \in V /\ votes[x] = m
        BY DEF For
      <4>2. f[x] = f[u]
        BY <2>1, <4>1
      <4>3. x \in T /\ x # won
        BY <1>5, <1>6, <2>4, <4>1, <4>2
      <4>4. Age[x] <= Age[won] /\ Age[x] # Age[won] /\ Age[x] \in Nat /\ Age[won] \in Nat
        <5>1. x \in Libs /\ won \in Libs
          BY <1>1, <4>1, <1>5
        <5> HIDE DEF T
        <5> QED BY <1>5, <4>3, <5>1
      <4> QED BY <4>4
    <3> HIDE DEF f
    <3> QED BY <2>2, <2>4, <3>1, <3>2 DEF Beats
  <2> QED BY <2>2, <2>3, <2>4
<1>7. votes[won] \in spellings
  BY <1>5
<1>8. Vote(votes) = CHOOSE n \in spellings : \A m \in spellings \ {n} : Beats(votes, n, m)
  BY DEF Vote
<1>9. Vote(votes) \in spellings
  <2> HIDE DEF spellings
  <2> QED BY <1>6, <1>7, <1>8
<1> QED BY <1>1, <1>9

(* The spelling a library's set of names yields last is one of them.       *)
LEMMA LastIsThere ==
    ASSUME NEW S \in SUBSET Names, S # {}, NEW order \in HashOrders
    PROVE  LastOf(S, order) \in S
<1>1. IsFiniteSet(S) /\ \A s \in S : order[s] \in Nat
  BY NamesAreRanked, FS_Subset
<1>2. \E n \in S : \A m \in S : order[m] <= order[n]
  BY <1>1, GreatestExists
<1> QED BY <1>2 DEF LastOf

Directory == [Libs -> SUBSET [guid : Guids, name : Names, typed : BOOLEAN]]

(* Where an assignment comes from: some of the libraries of its era that   *)
(* have its GUID, each voting for a name it has there.                     *)
LEMMA PlanAssigns ==
    ASSUME NEW dir \in Directory, NEW order \in HashOrders, NEW a \in Plan(dir, order)
    PROVE  \E era \in Eras, guid \in Guids : \E votes :
              /\ a \in Decide(dir, era, guid, order)
              /\ a = Assign(dir, era, guid, votes)
              /\ DOMAIN votes # {} /\ DOMAIN votes \subseteq Here(dir, era, guid)
              /\ \A t \in DOMAIN votes : votes[t] \in NamesAt(dir[t], guid)
<1>1. PICK era \in Eras, guid \in Guids : a \in Decide(dir, era, guid, order)
  BY DEF Plan
<1>2. CASE Folded(dir, era, guid)
  <2>1. PICK r \in Routines(dir, era, guid) :
            a = Assign(dir, era, guid, RoutineVotes(dir, era, guid, r, order))
    BY <1>1, <1>2 DEF Decide
  <2> DEFINE votes == RoutineVotes(dir, era, guid, r, order)
  <2>2. DOMAIN votes = {t \in Here(dir, era, guid) : SpellingsIn(dir[t], guid, r) # {}}
    BY DEF RoutineVotes
  <2>3. DOMAIN votes # {}
    <3>1. PICK t \in Here(dir, era, guid) :
              \E n \in NamesAt(dir[t], guid) : r = Normalise[n]
      BY <2>1 DEF Routines
    <3>2. SpellingsIn(dir[t], guid, r) # {}
      BY <3>1 DEF SpellingsIn
    <3> QED BY <2>2, <3>2
  <2>4. ASSUME NEW t \in DOMAIN votes PROVE votes[t] \in NamesAt(dir[t], guid)
    <3>1. /\ SpellingsIn(dir[t], guid, r) # {}
          /\ votes[t] = LastOf(SpellingsIn(dir[t], guid, r), order)
      BY <2>2 DEF RoutineVotes
    <3>2. dir[t] \subseteq [guid : Guids, name : Names, typed : BOOLEAN]
      BY <2>2 DEF Here, Directory
    <3>3. SpellingsIn(dir[t], guid, r) \in SUBSET Names
      BY <3>2 DEF SpellingsIn, NamesAt
    <3>4. votes[t] \in SpellingsIn(dir[t], guid, r)
      BY <3>1, <3>3, LastIsThere
    <3> QED BY <3>4 DEF SpellingsIn
  <2> QED BY <1>1, <2>1, <2>2, <2>3, <2>4
<1>3. CASE ~Folded(dir, era, guid)
  <2> DEFINE votes == SingleVotes(dir, era, guid)
  <2>1. Here(dir, era, guid) # {} /\ a = Assign(dir, era, guid, votes)
    BY <1>1, <1>3 DEF Decide
  <2>2. DOMAIN votes = Here(dir, era, guid)
    BY DEF SingleVotes
  <2>3. ASSUME NEW t \in Here(dir, era, guid) PROVE votes[t] \in NamesAt(dir[t], guid)
    <3>1. NamesAt(dir[t], guid) # {}
      BY DEF Here
    <3> QED BY <3>1 DEF SingleVotes
  <2> QED BY <1>1, <2>1, <2>2, <2>3
<1> QED BY <1>2, <1>3

(***************************************************************************)
(* What a plan is.                                                         *)
(***************************************************************************)

(* Each assignment's destination is loaded with its era; no GUID of an era *)
(* is assigned to two.                                                     *)
PlanOK ==
    /\ EraClaimsOnce
    /\ \A a \in plan : a.era \in Eras /\ a.guid \in Guids /\ a.dest \in LoadedIn(a.era)

(* One era loads a library, so a destination says what era it is of.       *)
LEMMA LoadedInOneEra ==
    ASSUME NEW e1 \in Eras, NEW e2 \in Eras, NEW d \in LoadedIn(e1), d \in LoadedIn(e2)
    PROVE  e1 = e2 /\ d \in Dests
BY DEF LoadedIn, Dests

LEMMA DestIsLoaded ==
    ASSUME NEW dir, NEW era \in Eras, NEW guid, Here(dir, era, guid) # {}
    PROVE  Dest(dir, era, guid) \in LoadedIn(era)
<1>1. (CHOOSE t \in Here(dir, era, guid) : TRUE) \in {x \in Libs : EraOf[x] = era}
  BY DEF Here
<1> HIDE DEF Here
<1> QED BY <1>1 DEF Dest, LoadedIn

LEMMA PlansAreOK ==
    ASSUME NEW dir \in Directory, NEW order \in HashOrders
    PROVE  /\ \A a \in Plan(dir, order) :
                 a.era \in Eras /\ a.guid \in Guids /\ a.dest \in LoadedIn(a.era)
           /\ \A a, b \in Plan(dir, order) :
                 a.era = b.era /\ a.guid = b.guid => a.dest = b.dest
<1>1. ASSUME NEW a \in Plan(dir, order)
      PROVE  /\ a.era \in Eras /\ a.guid \in Guids /\ a.dest \in LoadedIn(a.era)
             /\ a.dest = Dest(dir, a.era, a.guid)
  <2>1. PICK era \in Eras, guid \in Guids : \E votes :
            /\ a = Assign(dir, era, guid, votes)
            /\ DOMAIN votes # {} /\ DOMAIN votes \subseteq Here(dir, era, guid)
    BY PlanAssigns
  <2>2. a.era = era /\ a.guid = guid /\ a.dest = Dest(dir, era, guid)
    BY <2>1 DEF Assign
  <2> QED BY <2>1, <2>2, DestIsLoaded
<1> QED BY <1>1

(* The names an assignment's destination wants on its GUID.                *)
LEMMA SpelledNames ==
    ASSUME NEW S, NEW T, Spelled(S) = Spelled(T), NEW g
    PROVE  NamesAt(S, g) = NamesAt(T, g)
<1>1. ASSUME NEW A, NEW B, Spelled(A) = Spelled(B), NEW n \in NamesAt(A, g)
      PROVE  n \in NamesAt(B, g)
  <2>1. <<g, n>> \in Spelled(A)
    BY DEF Spelled, NamesAt
  <2>2. <<g, n>> \in Spelled(B)
    BY <1>1, <2>1
  <2> QED BY <2>2 DEF Spelled, NamesAt
<1>2. NamesAt(S, g) \subseteq NamesAt(T, g)
  BY <1>1
<1>3. NamesAt(T, g) \subseteq NamesAt(S, g)
  BY <1>1
<1> QED BY <1>2, <1>3

(* An output that holds what a good plan says is only ever found fault     *)
(* with for a library the plan does not name.                              *)
LEMMA OnlyStaleFails ==
    ASSUME PlanOK, HeldToPlan(out, plan), ~Verifies(out, plan)
    PROVE  \E d \in Dests \ PlanDests(plan) : out[d] # {}
<1>1. PICK era \in Eras, g \in Guids : \E d, e \in LoadedIn(era) :
          d # e /\ NamesAt(out[d], g) # {} /\ NamesAt(out[e], g) # {}
  BY DEF Verifies, ClaimedTwice
<1>2. PICK d \in LoadedIn(era), e \in LoadedIn(era) :
          d # e /\ NamesAt(out[d], g) # {} /\ NamesAt(out[e], g) # {}
  BY <1>1
<1>3. d \in Dests /\ e \in Dests /\ out[d] # {} /\ out[e] # {}
  BY <1>2, LoadedInOneEra DEF NamesAt
<1>4. ASSUME NEW x \in LoadedIn(era), x \in PlanDests(plan), NamesAt(out[x], g) # {}
      PROVE  \E a \in plan : a.dest = x /\ a.guid = g /\ a.era = era
  <2>1. NamesAt(out[x], g) = NamesAt(Wanted(plan, x), g)
    BY <1>4, SpelledNames DEF HeldToPlan
  <2>2. PICK a \in plan : a.dest = x /\ a.guid = g
    BY <1>4, <2>1 DEF NamesAt, Wanted
  <2>3. a.era \in Eras /\ x \in LoadedIn(a.era)
    BY <2>2 DEF PlanOK
  <2> QED BY <2>2, <2>3, LoadedInOneEra
<1>5. ~(d \in PlanDests(plan) /\ e \in PlanDests(plan))
  <2> SUFFICES ASSUME d \in PlanDests(plan), e \in PlanDests(plan) PROVE FALSE
    OBVIOUS
  <2>1. PICK a \in plan : a.dest = d /\ a.guid = g /\ a.era = era
    BY <1>2, <1>4
  <2>2. PICK b \in plan : b.dest = e /\ b.guid = g /\ b.era = era
    BY <1>2, <1>4
  <2> QED BY <1>2, <2>1, <2>2 DEF PlanOK, EraClaimsOnce
<1> QED BY <1>3, <1>5

(* What a verified output answers.                                         *)
LEMMA VerifiedAnswers ==
    ASSUME PlanOK, Verifies(out, plan), NEW a \in plan, NEW d \in LoadedIn(a.era)
    PROVE  NamesAt(out[d], a.guid) \in
              {{}, {b.name : b \in {x \in plan : x.era = a.era /\ x.guid = a.guid}}}
<1>1. /\ a.era \in Eras /\ a.guid \in Guids /\ a.dest \in LoadedIn(a.era)
      /\ a.dest \in PlanDests(plan)
  BY DEF PlanOK, PlanDests
<1>2. NamesAt(out[a.dest], a.guid) = NamesAt(Wanted(plan, a.dest), a.guid)
  BY <1>1, SpelledNames DEF Verifies, HeldToPlan
<1>3. \A b \in plan : (b.dest = a.dest /\ b.guid = a.guid)
                        <=> (b.era = a.era /\ b.guid = a.guid)
  <2> SUFFICES ASSUME NEW b \in plan, b.guid = a.guid
               PROVE  b.dest = a.dest <=> b.era = a.era
    OBVIOUS
  <2>1. b.era \in Eras /\ b.dest \in LoadedIn(b.era)
    BY DEF PlanOK
  <2>2. b.dest = a.dest => b.era = a.era
    BY <1>1, <2>1, LoadedInOneEra
  <2> QED BY <2>2 DEF PlanOK, EraClaimsOnce
<1>4. NamesAt(Wanted(plan, a.dest), a.guid)
        = {b.name : b \in {x \in plan : x.era = a.era /\ x.guid = a.guid}}
  BY <1>3 DEF NamesAt, Wanted
<1>5. CASE d = a.dest
  BY <1>2, <1>4, <1>5
<1>6. CASE d # a.dest
  <2>1. a.name \in NamesAt(out[a.dest], a.guid)
    BY <1>2, <1>4
  <2>2. a.guid \notin ClaimedTwice(out, a.era)
    BY <1>1 DEF Verifies
  <2>3. NamesAt(out[d], a.guid) = {}
    BY <1>1, <1>6, <2>1, <2>2 DEF ClaimedTwice
  <2> QED BY <2>3
<1> QED BY <1>5, <1>6
(***************************************************************************)
(* What is read and chosen.                                                *)
(***************************************************************************)

DirsOK == sigdir \in Directory

(* A reading kept is one of a record, under one of the routine's names,    *)
(* and of no published GUID.                                               *)
LEMMA KeptReading ==
    ASSUME NEW shipped, NEW r \in Keep(Readings(Records), shipped)
    PROVE  r.guid \in Guids /\ r.name \in Names /\ r.guid \notin shipped
<1>1. PICK record \in Records : r \in ReadingsOf(record)
  BY DEF Keep, Readings
<1>2. PICK e \in record.entries :
          /\ Cardinality(RttiNames(e)) = 1
          /\ r.name = (CHOOSE n \in RttiNames(e) : TRUE)
          /\ r.guid = e.guid
  BY <1>1 DEF ReadingsOf
<1>3. RttiNames(e) # {}
  BY <1>2, FS_EmptySet
<1>4. r.name \in RttiNames(e)
  BY <1>2, <1>3
<1>5. r.name \in RtlNames
  BY <1>4 DEF RttiNames
<1>6. r.guid \notin shipped
  BY DEF Keep
<1> QED BY <1>2, <1>5, <1>6, RecordsReadNames

(* The readings covered are kept ones, whichever binaries are taken.       *)
LEMMA CoverIsKept ==
    ASSUME NEW keep, NEW limit
    PROVE  Cover(keep, limit) \subseteq keep
<1>1. ASSUME NEW keys, NEW file PROVE FirstOffers(keep, keys, file) \subseteq keep
  <2> SUFFICES ASSUME NEW k \in {Key(r) : r \in Offers(keep, keys, file)}
               PROVE  (CHOOSE r \in Offers(keep, keys, file) : Key(r) = k) \in keep
    BY DEF FirstOffers
  <2>1. \E r \in Offers(keep, keys, file) : Key(r) = k
    OBVIOUS
  <2> QED BY <2>1 DEF Offers
<1>2. ASSUME NEW keys PROVE Round(keep, keys) \subseteq keep
  BY <1>1 DEF Round
<1> QED BY <1>2 DEF Cover

(* What the two tools that read binaries may write.                        *)
Entries == [guid : Guids, name : Names, typed : BOOLEAN]

LEMMA ContributedEntries ==
    /\ \A drifted, shipped :
          \A e \in Tagged(Cover(Keep(Readings(Records), shipped), ViewLimit), drifted) :
              e \in Entries /\ e.guid \notin shipped
    /\ \A shipped : \A e \in Selected(Packages, shipped) : e \in Entries /\ e.guid \notin shipped
<1>1. ASSUME NEW drifted, NEW shipped,
             NEW e \in Tagged(Cover(Keep(Readings(Records), shipped), ViewLimit), drifted)
      PROVE  e \in Entries /\ e.guid \notin shipped
  <2>1. PICK r \in Cover(Keep(Readings(Records), shipped), ViewLimit) :
            e = [guid |-> r.guid, name |-> r.name, typed |-> FALSE]
    BY DEF Tagged
  <2>2. r \in Keep(Readings(Records), shipped)
    BY CoverIsKept
  <2>3. r.guid \in Guids /\ r.name \in Names /\ r.guid \notin shipped
    BY <2>2, KeptReading
  <2> QED BY <2>1, <2>3 DEF Entries
<1>2. ASSUME NEW shipped, NEW e \in Selected(Packages, shipped)
      PROVE  e \in Entries /\ e.guid \notin shipped
  <2>1. PICK r \in Packages : /\ e = [guid |-> r.guid, name |-> r.name, typed |-> r.typed]
                              /\ r.guid \notin shipped
    BY DEF Selected, Usable
  <2> QED BY <2>1, PackagesHoldNames DEF Entries
<1> QED BY <1>1, <1>2

(* A step that writes a per-release library writes one a tool can make.    *)
LEMMA DirsKept ==
    ASSUME DirsOK, [Next]_vars
    PROVE  DirsOK'
<1>1. ASSUME NEW t \in Libs \ Contributed, BuildRelease(t) PROVE DirsOK'
  <2>1. PICK lib \in ReleaseVersions[t] : sigdir' = [sigdir EXCEPT ![t] = lib]
    BY <1>1 DEF BuildRelease
  <2>2. lib \in SUBSET [guid : Guids, name : Names, typed : BOOLEAN]
    BY <2>1, VersionsAreLibraries DEF Library
  <2> QED BY <2>1, <2>2 DEF DirsOK, Directory
<1>2. ASSUME BuildRtti \/ BuildBpl PROVE DirsOK'
  <2>1. PICK tag \in Contributed, lib \in SUBSET Entries : Contribute(tag, lib)
    BY <1>2, ContributedEntries DEF BuildRtti, BuildBpl, Contributed
  <2> QED BY <2>1 DEF Contribute, DirsOK, Directory, Entries
<1>3. CASE UNCHANGED sigdir
  BY <1>3 DEF DirsOK
<1> QED
  BY <1>1, <1>2, <1>3
  DEF Next, vars, BuildPlan, RemoveStaged, Stage, CompressOne, WriteManifest, EndBuild,
      StartCompress, EndCompress, Verify, Crash

(* Each assignment finds the entry it names: of the copies of its sources  *)
(* one is best, typed rather than not and then of the newest release.      *)
LEMMA PickFinds ==
    ASSUME NEW dir \in Directory, NEW order \in HashOrders, NEW a \in Plan(dir, order)
    PROVE  Pick(dir, a).guid = a.guid /\ Pick(dir, a).name = a.name
<1>1. PICK era \in Eras, guid \in Guids : \E votes :
          /\ a = Assign(dir, era, guid, votes)
          /\ DOMAIN votes # {} /\ DOMAIN votes \subseteq Here(dir, era, guid)
          /\ \A t \in DOMAIN votes : votes[t] \in NamesAt(dir[t], guid)
  BY PlanAssigns
<1>2. PICK votes :
          /\ a = Assign(dir, era, guid, votes)
          /\ DOMAIN votes # {} /\ DOMAIN votes \subseteq Here(dir, era, guid)
          /\ \A t \in DOMAIN votes : votes[t] \in NamesAt(dir[t], guid)
  BY <1>1
<1>3. /\ a.guid = guid /\ a.name = Vote(votes)
      /\ a.sources = {t \in DOMAIN votes : votes[t] = Vote(votes)}
  BY <1>2 DEF Assign
<1>4. DOMAIN votes \subseteq Libs
  BY <1>2 DEF Here
<1>5. a.sources \in SUBSET Libs /\ a.sources # {}
  BY <1>2, <1>3, <1>4, VoteIsCast
<1>6. ASSUME NEW t \in a.sources
      PROVE  \E c \in Copies(dir, a) : c.lib = t
  <2>1. a.name \in NamesAt(dir[t], guid)
    BY <1>2, <1>3
  <2>2. PICK e \in dir[t] : e.guid = guid /\ e.name = a.name
    BY <2>1 DEF NamesAt
  <2>3. [lib |-> t, entry |-> e] \in Copies(dir, a)
    BY <1>3, <2>2 DEF Copies
  <2> QED BY <2>3
<1>7. ASSUME NEW c \in Copies(dir, a)
      PROVE  /\ c.lib \in a.sources /\ c.entry.typed \in BOOLEAN
             /\ c = [lib |-> c.lib,
                     entry |-> [guid |-> a.guid, name |-> a.name, typed |-> c.entry.typed]]
  <2>1. PICK t \in a.sources :
            c \in {[lib |-> t, entry |-> e] :
                      e \in {x \in dir[t] : x.guid = a.guid /\ x.name = a.name}}
    BY DEF Copies
  <2>2. PICK e \in dir[t] : e.guid = a.guid /\ e.name = a.name /\ c = [lib |-> t, entry |-> e]
    BY <2>1
  <2>3. e \in [guid : Guids, name : Names, typed : BOOLEAN]
    BY <1>5, <2>2 DEF Directory
  <2>4. e = [guid |-> a.guid, name |-> a.name, typed |-> e.typed] /\ e.typed \in BOOLEAN
    BY <2>2, <2>3
  <2> QED BY <2>2, <2>4
<1> DEFINE Typed == {c \in Copies(dir, a) : c.entry.typed}
<1> DEFINE Pool == IF Typed = {} THEN Copies(dir, a) ELSE Typed
<1> DEFINE Tags == {c.lib : c \in Pool}
<1>8. Tags \in SUBSET Libs /\ Tags # {} /\ Pool \subseteq Copies(dir, a) /\ Pool # {}
  BY <1>5, <1>6, <1>7
<1>9. PICK t \in Tags : \A u \in Tags : Age[u] <= Age[t]
  <2>1. IsFiniteSet(Tags) /\ \A u \in Tags : Age[u] \in Nat
    BY <1>8, FS_Subset
  <2> HIDE DEF Tags
  <2> QED BY <1>8, <2>1, GreatestExists
<1>10. PICK c \in Pool : c.lib = t
  BY <1>9
<1>11. ASSUME NEW d \in Copies(dir, a) \ {c} PROVE Better(c, d)
  <2>1. /\ c.entry.typed \in BOOLEAN /\ d.entry.typed \in BOOLEAN
        /\ c.lib \in Libs /\ d.lib \in Libs
    BY <1>5, <1>7, <1>8
  <2>2. CASE c.entry.typed /\ ~d.entry.typed
    BY <2>2 DEF Better
  <2>3. CASE ~(c.entry.typed /\ ~d.entry.typed)
    <3>1. d \in Pool /\ c.entry.typed = d.entry.typed
      BY <1>10, <2>1, <2>3
    <3>2. c.lib # d.lib
      <4> SUFFICES ASSUME c.lib = d.lib PROVE FALSE
        OBVIOUS
      <4> QED BY <1>7, <1>8, <3>1
    <3>3. Age[d.lib] <= Age[c.lib]
      BY <1>9, <1>10, <3>1
    <3>4. Age[c.lib] > Age[d.lib]
      BY <2>1, <3>2, <3>3
    <3> QED BY <3>1, <3>4 DEF Better
  <2> QED BY <2>2, <2>3
<1>12. PICK best \in Copies(dir, a) : Pick(dir, a) = best.entry
  BY <1>8, <1>11 DEF Pick
<1> QED BY <1>7, <1>12

(* So the selection holds what the plan says, library by library.          *)
LEMMA ChosenAsPlanned ==
    ASSUME NEW dir \in Directory, NEW order \in HashOrders, NEW d \in Dests
    PROVE  LET p == Plan(dir, order)
           IN  /\ Spelled(Chosen(dir, p)[d]) = Spelled(Wanted(p, d))
               /\ Chosen(dir, p)[d] # {} <=> d \in PlanDests(p)
<1> DEFINE p == Plan(dir, order)
<1>1. Chosen(dir, p)[d] = {Pick(dir, a) : a \in Wanted(p, d)}
  BY DEF Chosen
<1>2. \A a \in Wanted(p, d) : Pick(dir, a).guid = a.guid /\ Pick(dir, a).name = a.name
  BY PickFinds DEF Wanted
<1> HIDE DEF p
<1>3. Spelled(Chosen(dir, p)[d]) = {<<Pick(dir, a).guid, Pick(dir, a).name>> : a \in Wanted(p, d)}
  BY <1>1 DEF Spelled
<1>4. Spelled(Wanted(p, d)) = {<<a.guid, a.name>> : a \in Wanted(p, d)}
  BY DEF Spelled
<1>5. Chosen(dir, p)[d] # {} <=> d \in PlanDests(p)
  BY <1>1 DEF Wanted, PlanDests
<1> QED BY <1>2, <1>3, <1>4, <1>5 DEF p
(***************************************************************************)
(* From the plan to what is shipped.                                       *)
(***************************************************************************)

Functions == /\ DOMAIN raw = Dests /\ DOMAIN out = Dests /\ DOMAIN manifest = Dests
             /\ todo \subseteq Dests

(* The run that stages has the plan's entries in memory, and what it is    *)
(* done with lies under raw/; once it came to the end, everything does,    *)
(* and only the next plan disturbs it.                                     *)
Staged ==
    /\ pc = "staging" =>
          /\ progress = "planned"
          /\ \A d \in Dests :
                /\ Spelled(chosen[d]) = Spelled(Wanted(plan, d))
                /\ chosen[d] # {} <=> d \in PlanDests(plan)
          /\ \A d \in PlanDests(plan) \ todo : raw[d] = chosen[d]
    /\ progress \in {"staged", "shipped"} =>
          \A d \in PlanDests(plan) : Spelled(raw[d]) = Spelled(Wanted(plan, d))

Delivered(d) == out[d] = raw[d] /\ manifest[d] = [staged |-> raw[d], plan |-> plan]

(* The run that compresses has delivered what it is done with, and once    *)
(* one that found everything staged came to the end, nothing planned is    *)
(* missing.                                                                *)
Compressed ==
    /\ pc = "compressing" => \A d \in Dests \ todo : raw[d] # {} => Delivered(d)
    /\ progress = "shipped" => \A d \in PlanDests(plan) : Delivered(d)

(* A verdict is about the output and the plan that are there.              *)
Verdicts ==
    /\ verdict = "ok" => Verifies(out, plan)
    /\ verdict = "problems" => ~Verifies(out, plan)
    /\ pc # "idle" => verdict = "none"

PipelineInv == DirsOK /\ PlanOK /\ Functions /\ Staged /\ Compressed /\ Verdicts

LEMMA PlannedAreDests ==
    ASSUME PlanOK
    PROVE  PlanDests(plan) \subseteq Dests
BY LoadedInOneEra DEF PlanOK, PlanDests

LEMMA PlanKeepsPipeline ==
    ASSUME PipelineInv, BuildPlan
    PROVE  (PlanOK /\ Functions /\ Staged /\ Compressed /\ Verdicts)'
<1>1. PICK order \in HashOrders : plan' = Plan(sigdir, order)
  BY DEF BuildPlan
<1>2. sigdir \in Directory
  BY DEF PipelineInv, DirsOK
<1>3. /\ chosen' = Chosen(sigdir, plan') /\ todo' = {d \in Dests : chosen'[d] # {}}
      /\ pc' = "staging" /\ progress' = "planned" /\ verdict' = "none"
      /\ UNCHANGED <<raw, out, manifest>>
  BY DEF BuildPlan
<1>4. PlanOK'
  BY <1>1, <1>2, PlansAreOK DEF PlanOK, EraClaimsOnce
<1>5. \A d \in Dests : /\ Spelled(chosen'[d]) = Spelled(Wanted(plan', d))
                       /\ chosen'[d] # {} <=> d \in PlanDests(plan')
  BY <1>1, <1>2, <1>3, ChosenAsPlanned
<1>6. PlanDests(plan') \subseteq Dests
  BY <1>4, PlannedAreDests, LoadedInOneEra DEF PlanOK, PlanDests
<1>7. Staged'
  BY <1>3, <1>5, <1>6 DEF Staged
<1>8. Functions' /\ Compressed' /\ Verdicts'
  BY <1>3 DEF PipelineInv, Functions, Compressed, Verdicts
<1> QED BY <1>4, <1>7, <1>8

LEMMA StagingKeepsPipeline ==
    ASSUME PipelineInv, NEW d \in Dests, RemoveStaged(d) \/ Stage(d)
    PROVE  (PlanOK /\ Functions /\ Staged /\ Compressed /\ Verdicts)'
<1>1. /\ pc = "staging" /\ pc' = "staging" /\ d \in todo /\ progress = "planned"
      /\ UNCHANGED <<plan, out, manifest, chosen, progress, verdict>>
      /\ DOMAIN raw = Dests /\ todo \subseteq Dests
  BY DEF PipelineInv, Functions, Staged, RemoveStaged, Stage, IsNext
<1>2. PlanOK' /\ Verdicts' /\ Compressed'
  BY <1>1 DEF PipelineInv, PlanOK, EraClaimsOnce, Verdicts, Compressed
<1>3. CASE RemoveStaged(d)
  <2>1. raw' = [raw EXCEPT ![d] = {}] /\ todo' = todo
    BY <1>3 DEF RemoveStaged
  <2>2. \A x \in Dests \ {d} : raw'[x] = raw[x]
    BY <1>1, <2>1
  <2>3. Staged'
    BY <1>1, <2>1, <2>2, PlannedAreDests DEF PipelineInv, Staged
  <2> QED BY <1>1, <1>2, <2>1, <2>3 DEF PipelineInv, Functions
<1>4. CASE Stage(d)
  <2>1. raw' = [raw EXCEPT ![d] = chosen[d]] /\ todo' = todo \ {d}
    BY <1>4 DEF Stage
  <2>2. raw'[d] = chosen[d] /\ \A x \in Dests \ {d} : raw'[x] = raw[x]
    BY <1>1, <2>1
  <2>3. Staged'
    BY <1>1, <2>1, <2>2, PlannedAreDests DEF PipelineInv, Staged
  <2> QED BY <1>1, <1>2, <2>1, <2>3 DEF PipelineInv, Functions
<1> QED BY <1>3, <1>4

LEMMA CompressingKeepsPipeline ==
    ASSUME PipelineInv, NEW d \in Dests, CompressOne(d) \/ WriteManifest(d)
    PROVE  (PlanOK /\ Functions /\ Staged /\ Compressed /\ Verdicts)'
<1>1. /\ pc = "compressing" /\ pc' = pc /\ d \in todo /\ verdict = "none"
      /\ UNCHANGED <<plan, raw, chosen, progress, verdict>>
      /\ DOMAIN out = Dests /\ DOMAIN manifest = Dests
  BY DEF PipelineInv, Functions, Verdicts, CompressOne, WriteManifest, IsNext
<1>2. PlanOK' /\ Verdicts' /\ Staged'
  BY <1>1 DEF PipelineInv, PlanOK, EraClaimsOnce, Verdicts, Staged
<1>3. CASE CompressOne(d)
  <2>1. /\ out' = [out EXCEPT ![d] = raw[d]] /\ UNCHANGED <<todo, manifest>>
        /\ out[d] # raw[d]
    BY <1>3 DEF CompressOne
  <2>2. \A x \in Dests \ {d} : out'[x] = out[x]
    BY <1>1, <2>1
  <2>3. \A x \in Dests : Delivered(x) => Delivered(x)'
    BY <1>1, <2>1, <2>2 DEF Delivered
  <2>4. Compressed'
    BY <1>1, <2>1, <2>3, PlannedAreDests DEF PipelineInv, Compressed
  <2> QED BY <1>1, <1>2, <2>1, <2>4 DEF PipelineInv, Functions
<1>4. CASE WriteManifest(d)
  <2>1. /\ manifest' = [manifest EXCEPT ![d] = [staged |-> raw[d], plan |-> plan]]
        /\ out' = out /\ out[d] = raw[d] /\ todo' = todo \ {d}
    BY <1>4 DEF WriteManifest
  <2>2. Delivered(d)' /\ \A x \in Dests \ {d} : manifest'[x] = manifest[x]
    BY <1>1, <2>1 DEF Delivered
  <2>3. \A x \in Dests : Delivered(x) => Delivered(x)'
    BY <1>1, <2>1, <2>2 DEF Delivered
  <2>4. Compressed'
    BY <1>1, <2>1, <2>2, <2>3, PlannedAreDests DEF PipelineInv, Compressed
  <2> QED BY <1>1, <1>2, <2>1, <2>4 DEF PipelineInv, Functions
<1> QED BY <1>3, <1>4

LEMMA EndingKeepsPipeline ==
    ASSUME PipelineInv, EndBuild \/ StartCompress \/ EndCompress \/ Verify \/ Crash
    PROVE  (PlanOK /\ Functions /\ Staged /\ Compressed /\ Verdicts)'
<1>1. UNCHANGED <<plan, raw, out, manifest>>
  BY DEF EndBuild, StartCompress, EndCompress, Verify, Crash
<1>2. PlanOK'
  BY <1>1 DEF PipelineInv, PlanOK, EraClaimsOnce
<1>3. Functions'
  BY <1>1 DEF PipelineInv, Functions, EndBuild, StartCompress, EndCompress, Verify, Crash
<1>4. Verdicts'
  BY <1>1 DEF PipelineInv, Verdicts, EndBuild, StartCompress, EndCompress, Verify, Crash
<1>5. CASE EndBuild
  <2>1. \A d \in PlanDests(plan) : Spelled(raw[d]) = Spelled(Wanted(plan, d))
    BY <1>5, PlannedAreDests DEF PipelineInv, Staged, EndBuild
  <2>2. Staged' /\ Compressed'
    BY <1>1, <1>5, <2>1 DEF EndBuild, Staged, Compressed
  <2> QED BY <1>2, <1>3, <1>4, <2>2
<1>6. CASE StartCompress
  <2>1. Staged' /\ Compressed'
    BY <1>1, <1>6 DEF PipelineInv, StartCompress, Staged, Compressed, Delivered
  <2> QED BY <1>2, <1>3, <1>4, <2>1
<1>7. CASE EndCompress
  <2>1. ASSUME progress = "staged", NEW d \in PlanDests(plan) PROVE Delivered(d)
    <3>1. d \in Dests /\ Spelled(raw[d]) = Spelled(Wanted(plan, d))
      BY <2>1, PlannedAreDests DEF PipelineInv, Staged
    <3>2. PICK a \in plan : a.dest = d
      BY <2>1 DEF PlanDests
    <3>3. <<a.guid, a.name>> \in Spelled(Wanted(plan, d))
      BY <3>2 DEF Spelled, Wanted
    <3>4. raw[d] # {}
      BY <3>1, <3>3 DEF Spelled
    <3> QED BY <1>7, <3>1, <3>4 DEF PipelineInv, Compressed, EndCompress
  <2>2. progress' = "shipped" => \A d \in PlanDests(plan) : Delivered(d)
    BY <1>7, <2>1 DEF EndCompress, PipelineInv, Compressed
  <2>3. Staged' /\ Compressed'
    BY <1>1, <1>7, <2>2 DEF PipelineInv, EndCompress, Staged, Compressed, Delivered
  <2> QED BY <1>2, <1>3, <1>4, <2>3
<1>8. CASE Verify \/ Crash
  <2>1. Staged' /\ Compressed'
    BY <1>1, <1>8 DEF PipelineInv, Verify, Crash, Staged, Compressed, Delivered
  <2> QED BY <1>2, <1>3, <1>4, <2>1
<1> QED BY <1>5, <1>6, <1>7, <1>8

LEMMA PipelineInvariant == Spec => []PipelineInv
<1>1. Init => PipelineInv
  <2> SUFFICES ASSUME Init PROVE PipelineInv
    OBVIOUS
  <2>1. DirsOK
    BY StartingDirsAreLibraries DEF Init, DirsOK, Directory, Library
  <2>2. PlanOK /\ Functions /\ Verdicts
    BY DEF Init, PlanOK, EraClaimsOnce, Functions, Verdicts, Nowhere
  <2>3. Staged /\ Compressed
    BY DEF Init, Staged, Compressed
  <2> QED BY <2>1, <2>2, <2>3 DEF PipelineInv
<1>2. PipelineInv /\ [Next]_vars => PipelineInv'
  <2> SUFFICES ASSUME PipelineInv, [Next]_vars PROVE PipelineInv'
    OBVIOUS
  <2>1. DirsOK'
    BY DirsKept DEF PipelineInv
  <2>2. CASE BuildPlan
    BY <2>1, <2>2, PlanKeepsPipeline DEF PipelineInv
  <2>3. ASSUME NEW d \in Dests,
               RemoveStaged(d) \/ Stage(d) \/ CompressOne(d) \/ WriteManifest(d)
        PROVE  PipelineInv'
    BY <2>1, <2>3, StagingKeepsPipeline, CompressingKeepsPipeline DEF PipelineInv
  <2>4. CASE EndBuild \/ StartCompress \/ EndCompress \/ Verify \/ Crash
    BY <2>1, <2>4, EndingKeepsPipeline DEF PipelineInv
  <2>5. CASE UNCHANGED coalescing
    BY <2>1, <2>5 DEF PipelineInv, coalescing, PlanOK, EraClaimsOnce, Functions, Staged,
                      Compressed, Delivered, Verdicts
  <2>6. (\E t \in Libs \ Contributed : BuildRelease(t)) \/ BuildRtti \/ BuildBpl
          => UNCHANGED coalescing
    BY DEF BuildRelease, BuildRtti, BuildBpl, Contribute
  <2> QED BY <2>2, <2>3, <2>4, <2>5, <2>6 DEF Next, vars
<1> QED BY <1>1, <1>2, PTL DEF Spec

(* However the releases spell a routine and in whatever order Python       *)
(* yields their names, no plan puts a GUID into two libraries of an era.   *)
THEOREM ErasClaimOnce == Spec => []EraClaimsOnce
<1>1. PipelineInv => EraClaimsOnce
  BY DEF PipelineInv, PlanOK
<1> QED BY <1>1, PipelineInvariant, PTL

(* A plan staged and compressed to the end is delivered in full, however   *)
(* often either run was killed before, and verification then complains     *)
(* only of what an earlier plan left.                                      *)
THEOREM PlansAreShipped == Spec => []ShippedAsPlanned
<1>1. PipelineInv => ShippedAsPlanned
  <2> SUFFICES ASSUME PipelineInv, progress = "shipped"
               PROVE  /\ HeldToPlan(out, plan)
                      /\ \A d \in PlanDests(plan) :
                            manifest[d] = [staged |-> out[d], plan |-> plan]
                      /\ verdict = "problems" => \E d \in Dests \ PlanDests(plan) : out[d] # {}
    BY DEF ShippedAsPlanned
  <2>1. \A d \in PlanDests(plan) :
            /\ out[d] = raw[d] /\ manifest[d] = [staged |-> raw[d], plan |-> plan]
            /\ Spelled(raw[d]) = Spelled(Wanted(plan, d))
    BY DEF PipelineInv, Compressed, Delivered, Staged
  <2>2. HeldToPlan(out, plan)
    BY <2>1 DEF HeldToPlan
  <2> QED BY <2>1, <2>2, OnlyStaleFails DEF PipelineInv, Verdicts
<1> QED BY <1>1, PipelineInvariant, PTL

(* What verification says OK to answers a planned GUID with the plan's     *)
(* names or not at all, whichever library of the era is asked.             *)
THEOREM VerifiedOutputsAgree == Spec => []VerifiedAnswersAgree
<1>1. PipelineInv => VerifiedAnswersAgree
  BY VerifiedAnswers DEF PipelineInv, Verdicts, VerifiedAnswersAgree
<1> QED BY <1>1, PipelineInvariant, PTL
(***************************************************************************)
(* The contributed libraries.                                              *)
(***************************************************************************)

(* One that is not older than a rebuild shares no GUID with any other.     *)
Apart ==
    \A t \in (Contributed \ late) \cap Libs : \A u \in Libs \ {t} :
        \A e \in sigdir[t], f \in sigdir[u] : e.guid # f.guid

AdditiveInv == DirsOK /\ Apart

LEMMA ContributingKeepsApart ==
    ASSUME AdditiveInv, NEW tag \in Contributed, NEW lib, Contribute(tag, lib),
           \A e \in lib : e.guid \notin Shipped(tag)
    PROVE  Apart'
<1>1. late' = late \ {tag} /\ sigdir' = [sigdir EXCEPT ![tag] = lib] /\ DOMAIN sigdir = Libs
  BY DEF Contribute, AdditiveInv, DirsOK, Directory
<1> SUFFICES ASSUME NEW t \in (Contributed \ late') \cap Libs, NEW u \in Libs \ {t},
                    NEW e \in sigdir'[t], NEW f \in sigdir'[u]
             PROVE  e.guid # f.guid
  BY DEF Apart
<1>2. ASSUME NEW x \in Libs \ {tag}, NEW y \in sigdir[x] PROVE y.guid \in Shipped(tag)
  BY DEF Shipped
<1>3. CASE t = tag
  <2>1. e \in lib /\ f \in sigdir[u] /\ u # tag
    BY <1>1, <1>3
  <2> QED BY <1>2, <2>1
<1>4. CASE t # tag /\ u = tag
  <2>1. f \in lib /\ e \in sigdir[t]
    BY <1>1, <1>4
  <2> QED BY <1>2, <1>4, <2>1
<1>5. CASE t # tag /\ u # tag
  <2>1. t \notin late /\ e \in sigdir[t] /\ f \in sigdir[u]
    BY <1>1, <1>5
  <2> QED BY <2>1 DEF AdditiveInv, Apart
<1> QED BY <1>3, <1>4, <1>5

LEMMA AdditiveInvariant == Spec => []AdditiveInv
<1>1. Init => AdditiveInv
  BY StartingDirsAreLibraries DEF Init, AdditiveInv, DirsOK, Directory, Library, Apart
<1>2. AdditiveInv /\ [Next]_vars => AdditiveInv'
  <2> SUFFICES ASSUME AdditiveInv, [Next]_vars PROVE AdditiveInv'
    OBVIOUS
  <2>1. DirsOK'
    BY DirsKept DEF AdditiveInv
  <2>2. ASSUME NEW t \in Libs \ Contributed, BuildRelease(t) PROVE Apart'
    BY <2>2 DEF BuildRelease, Apart
  <2>3. ASSUME BuildRtti \/ BuildBpl PROVE Apart'
    <3>1. PICK tag \in Contributed : \E lib :
              Contribute(tag, lib) /\ \A e \in lib : e.guid \notin Shipped(tag)
      BY <2>3, ContributedEntries DEF BuildRtti, BuildBpl, Contributed
    <3> QED BY <3>1, ContributingKeepsApart
  <2>4. ASSUME UNCHANGED <<sigdir, late>> PROVE Apart'
    BY <2>4 DEF AdditiveInv, Apart
  <2>5. Apart'
    BY <2>2, <2>3, <2>4
    DEF Next, vars, BuildPlan, RemoveStaged, Stage, CompressOne, WriteManifest, EndBuild,
        StartCompress, EndCompress, Verify, Crash
  <2> QED BY <2>1, <2>5 DEF AdditiveInv
<1> QED BY <1>1, <1>2, PTL DEF Spec

(* Where no fresh library has the GUID, leaving them out changes nothing.  *)
LEMMA SameDecision ==
    ASSUME NEW dir \in Directory, NEW other \in Directory, NEW order, NEW era, NEW guid,
           Here(other, era, guid) = Here(dir, era, guid),
           \A t \in Here(dir, era, guid) : other[t] = dir[t]
    PROVE  Decide(other, era, guid, order) = Decide(dir, era, guid, order)
<1> DEFINE H == Here(dir, era, guid)
<1>1. Folded(other, era, guid) <=> Folded(dir, era, guid)
  BY DEF Folded
<1>2. Routines(other, era, guid) = Routines(dir, era, guid)
  <2>1. {NamesAt(other[t], guid) : t \in H} = {NamesAt(dir[t], guid) : t \in H}
    OBVIOUS
  <2> QED BY <2>1 DEF Routines
<1>3. SingleVotes(other, era, guid) = SingleVotes(dir, era, guid)
  BY DEF SingleVotes
<1>4. \A r : RoutineVotes(other, era, guid, r, order) = RoutineVotes(dir, era, guid, r, order)
  <2> TAKE r
  <2>1. {x \in Here(other, era, guid) : SpellingsIn(other[x], guid, r) # {}}
          = {x \in H : SpellingsIn(dir[x], guid, r) # {}}
    OBVIOUS
  <2> DEFINE D == {x \in H : SpellingsIn(dir[x], guid, r) # {}}
  <2>2. [t \in D |-> LastOf(SpellingsIn(other[t], guid, r), order)]
          = [t \in D |-> LastOf(SpellingsIn(dir[t], guid, r), order)]
    OBVIOUS
  <2> QED BY <2>1, <2>2 DEF RoutineVotes
<1>5. \A votes : Assign(other, era, guid, votes) = Assign(dir, era, guid, votes)
  BY DEF Assign, Dest
<1> QED BY <1>1, <1>2, <1>3, <1>4, <1>5 DEF Decide

(* The contributed libraries cost no release a name: without those that    *)
(* are not older than a rebuild, the plan is the same but for their deltas.*)
THEOREM ContributionsAdd == Spec => []ContributedAreAdditive
<1>1. AdditiveInv => ContributedAreAdditive
  <2> DEFINE fresh == Contributed \ late
  <2> DEFINE without == [t \in Libs |-> IF t \in fresh THEN {} ELSE sigdir[t]]
  <2> SUFFICES ASSUME AdditiveInv, NEW order \in HashOrders
               PROVE  Plan(without, order)
                        = {a \in Plan(sigdir, order) : a.dest \notin {"only"} \X fresh}
    BY DEF ContributedAreAdditive
  <2>1. sigdir \in Directory /\ without \in Directory
    BY DEF AdditiveInv, DirsOK, Directory
  <2>2. \A x : x \in {"only"} \X fresh <=> \E t \in fresh : x = <<"only", t>>
    OBVIOUS
  <2> HIDE DEF without, fresh
  <2>3. ASSUME NEW era \in Eras, NEW guid \in Guids
        PROVE  Here(without, era, guid) = Here(sigdir, era, guid) \ fresh
    BY DEF Here, NamesAt, without
  <2>4. ASSUME NEW era \in Eras, NEW guid \in Guids
        PROVE  Decide(without, era, guid, order)
                 = {a \in Decide(sigdir, era, guid, order) : a.dest \notin {"only"} \X fresh}
    <3> DEFINE H == Here(sigdir, era, guid)
    <3>1. \A a \in Decide(sigdir, era, guid, order) : a.dest = Dest(sigdir, era, guid)
      BY DEF Decide, Assign
    <3>2. H = {} => Decide(sigdir, era, guid, order) = {}
      BY DEF Decide, Folded
    <3>3. CASE H \cap fresh = {}
      <4>1. \A t \in H : without[t] = sigdir[t]
        BY <3>3 DEF without, Here
      <4>2. Decide(without, era, guid, order) = Decide(sigdir, era, guid, order)
        BY <2>1, <2>3, <3>3, <4>1, SameDecision
      <4>3. H # {} => Dest(sigdir, era, guid) \notin {"only"} \X fresh
        <5> SUFFICES ASSUME H # {}, NEW t \in fresh, Dest(sigdir, era, guid) = <<"only", t>>
                     PROVE  FALSE
          BY <2>2
        <5>1. (CHOOSE x \in H : TRUE) \in H
          OBVIOUS
        <5>2. t \in H
          <6> HIDE DEF H
          <6> QED BY <5>1 DEF Dest, H
        <5> QED BY <3>3, <5>2
      <4> QED BY <3>1, <3>2, <4>2, <4>3
    <3>4. CASE H \cap fresh # {}
      <4>1. PICK t \in H : t \in fresh
        BY <3>4
      <4>2. t \in Libs /\ NamesAt(sigdir[t], guid) # {}
        BY DEF Here
      <4>3. ASSUME NEW u \in H PROVE u = t
        <5> SUFFICES ASSUME u # t PROVE FALSE
          OBVIOUS
        <5>1. u \in Libs /\ NamesAt(sigdir[u], guid) # {}
          BY DEF Here
        <5>2. PICK e \in sigdir[t], f \in sigdir[u] : e.guid = guid /\ f.guid = guid
          BY <4>2, <5>1 DEF NamesAt
        <5> QED BY <4>1, <4>2, <5>1, <5>2 DEF AdditiveInv, Apart, fresh
      <4>4. H = {t}
        BY <4>3
      <4>5. Dest(sigdir, era, guid) = <<"only", t>>
        <5>1. Cardinality(H) = 1 /\ (CHOOSE x \in {t} : TRUE) = t
          BY <4>4, FS_Singleton
        <5> QED BY <4>4, <5>1 DEF Dest
      <4>6. Here(without, era, guid) = {}
        BY <2>3, <4>1, <4>4
      <4>7. Decide(without, era, guid, order) = {}
        BY <4>6 DEF Decide, Folded
      <4> QED BY <2>2, <3>1, <4>1, <4>5, <4>7
    <3> QED BY <3>3, <3>4
  <2> QED BY <2>4 DEF Plan
<1> QED BY <1>1, AdditiveInvariant, PTL
=============================================================================
