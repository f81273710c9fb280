------------------------- MODULE PackagePublishProofs -------------------------
(***************************************************************************)
(* Proofs about PackagePublish: versions are numbered one by one, what was *)
(* downloaded is what attempts are graded with, and once a version is      *)
(* ready, some version is.                                                 *)
(***************************************************************************)
EXTENDS PackagePublish, FiniteSetTheorems, TLAPS

(* The invariants.                                                         *)

Existing == {p \in Package : Exists(p)}
Unused == {p \in Package : ~Exists(p)}
Publishing == {h \in Http : http[h].pc \in {"begin", "insert"}}

\* Versions are 1, 2, ... without a gap; under the lock of the schedule a request has the
\* next number, and ids are left for all requests.
VersionsInOrder ==
  /\ Versions = 1..Cardinality(Existing)
  /\ \A h \in Http : http[h].pc = "insert" => http[h].version = Cardinality(Existing) + 1
  /\ \A g, h \in Http : http[g].pc = "insert" /\ http[h].pc = "insert" => g = h
  /\ Cardinality(Publishing) <= Cardinality(Unused)

RequestInOrder(h) == http[h].pc = "enqueue" => http[h].job \in Package /\ Exists(http[h].job)

\* The transaction has put the content it is about to publish, and supersedes versions
\* that were complete.
RunInOrder(w) ==
  LET p == run[w].job
  IN /\ run[w].pc = "idle" <=> p = None
     /\ run[w].pc # "idle" => Exists(p)
     /\ run[w].pc \in {"put", "supersede", "lock", "ready"} => run[w].content \in Edition
     /\ run[w].pc \in {"supersede", "lock", "ready"} => objects[p] \in Edition
     /\ run[w].pc \in {"lock", "ready"} =>
          /\ p \notin run[w].older
          /\ \A q \in run[w].older : Exists(q) /\ packages[q].content \in Edition

\* What is complete in the table is in object storage.
ContentHasObject ==
  /\ \A p \in Package : Exists(p) /\ packages[p].content # None => objects[p] \in Edition
  /\ \A d \in Device : fetching[d] # None => objects[fetching[d].package] \in Edition

LocksAreExclusive ==
  \A v, w \in Worker : v # w => LockedBy(v) \cap LockedBy(w) = {}

IndInv ==
  /\ TypeOK
  /\ VersionsInOrder
  /\ \A h \in Http : RequestInOrder(h)
  /\ \A w \in Worker : RunInOrder(w)
  /\ ContentHasObject
  /\ LocksAreExclusive

Building(w) == run[w].pc \in {"compose", "put", "supersede", "lock", "ready"}
Published(p) == HasStatus(p, "ready") \/ HasStatus(p, "superseded")

\* A version that is not built again has one build, which ends before it is published;
\* object, keys, and what was selected and downloaded are of the same edition.
Sealed(p) ==
  /\ \A v, w \in Worker : run[v].job = p /\ run[w].job = p => v = w
  /\ Published(p) => /\ objects[p] = packages[p].content
                     /\ \A w \in Worker : run[w].job = p => ~Building(w)
  /\ \A w \in Worker : run[w].job = p /\ run[w].pc \in {"supersede", "lock", "ready"} =>
       objects[p] = run[w].content
  /\ \A w \in Worker : p \in LockedBy(w) => HasStatus(p, "ready")
  /\ \A d \in Device : fetching[d] # None /\ fetching[d].package = p =>
       Published(p) /\ fetching[d].checksum = packages[p].content
  /\ \A d \in downloads : d.package = p =>
       /\ Published(p)
       /\ d.checksum = packages[p].content /\ d.content = packages[p].content
SealedInv == \A p \in Package \ rebuilt : Sealed(p)

\* Without a lock that expires under a slot that is only slow ("stall"), the slot that
\* builds a version owns its job, and the version is not ready yet.
BuildIsOwned(w) ==
  /\ run[w].pc # "idle" => Queue!Owns(w, run[w].job)
  /\ Building(w) => ~HasStatus(run[w].job, "ready")
-----------------------------------------------------------------------------
(* Numbering.                                                              *)

LEMMA Finiteness ==
  /\ IsFiniteSet(Existing) /\ IsFiniteSet(Unused) /\ IsFiniteSet(Publishing)
  /\ Cardinality(Existing) \in Nat /\ Cardinality(Unused) \in Nat
  /\ Cardinality(Publishing) \in Nat /\ Cardinality(Package) \in Nat
  /\ Cardinality(Existing) + Cardinality(Unused) = Cardinality(Package)
<1>1. Existing \in SUBSET Package /\ Unused \in SUBSET Package /\ Publishing \in SUBSET Http
  BY DEF Existing, Unused, Publishing
<1>2. IsFiniteSet(Existing) /\ IsFiniteSet(Unused) /\ IsFiniteSet(Publishing)
  BY <1>1, FS_Subset, ConstantsAssumption
<1>3. /\ Cardinality(Existing) \in Nat /\ Cardinality(Unused) \in Nat
      /\ Cardinality(Publishing) \in Nat /\ Cardinality(Package) \in Nat
  BY <1>2, FS_CardinalityType, ConstantsAssumption
<1>4. Existing \cup Unused = Package /\ Existing \cap Unused = {}
  BY DEF Existing, Unused
<1>5. Cardinality(Package) = Cardinality(Existing) + Cardinality(Unused) - Cardinality({})
  BY <1>2, <1>4, FS_Union
<1>6. Cardinality({}) = 0
  BY FS_EmptySet
<1>7. QED
  BY <1>2, <1>3, <1>5, <1>6

\* What NextVersion computes.
LEMMA NextNumber ==
  ASSUME VersionsInOrder
  PROVE  Max(Versions \cup {0}) = Cardinality(Existing)
<1> DEFINE n == Cardinality(Existing)
<1>1. n \in Nat /\ Versions \cup {0} = 0..n
  BY Finiteness DEF VersionsInOrder
<1> HIDE DEF n
<1>2. n \in 0..n /\ \A y \in 0..n : n >= y
  BY <1>1
<1>3. \A x \in 0..n : (\A y \in 0..n : x >= y) => x = n
  BY <1>1
<1>4. Max(0..n) = n
  BY <1>2, <1>3 DEF Max
<1>5. QED
  BY <1>1, <1>4 DEF n

\* A request that is under way has an id left.
LEMMA IdForRequest ==
  ASSUME VersionsInOrder, NEW h \in Http, http[h].pc \in {"begin", "insert"}
  PROVE  Cardinality(Existing) + 1 \in 1..Cardinality(Package)
<1>1. h \in Publishing
  BY DEF Publishing
<1>2. Cardinality(Publishing) # 0
  BY <1>1, Finiteness, FS_EmptySet
<1>3. QED
  BY <1>2, Finiteness DEF VersionsInOrder
-----------------------------------------------------------------------------
(* What one step may do to each table and process.                         *)

\* An update of a row that is there.
Rewritten(p, status, content) ==
  /\ Exists(p) /\ packages'[p] # None /\ packages'[p] \in PackageRow
  /\ packages'[p].version = packages[p].version
  /\ packages'[p].status = status /\ packages'[p].content = content

LEMMA PackagesStep ==
  ASSUME IndInv, [Next]_vars, NEW p \in Package
  PROVE  \/ packages'[p] = packages[p]
         \/ \E h \in Http :
              /\ InsertVersion(h) /\ ~Exists(p) /\ http'[h].job = p
              /\ packages'[p] = [version |-> http[h].version, status |-> "building",
                                 content |-> None]
         \/ \E w \in Worker :
              /\ run[w].job = p /\ Building(w) /\ run' = [run EXCEPT ![w] = IdleRun]
              /\ ~LockedFor(w, {p}) /\ ~\E v \in Worker : MarkReady(v)
              /\ Rewritten(p, "failed", packages[p].content)
         \/ \E w \in Worker :
              /\ MarkReady(w) /\ run[w].job = p /\ p \notin run[w].older
              /\ Rewritten(p, "ready", run[w].content)
         \/ \E w \in Worker :
              /\ MarkReady(w) /\ p \in run[w].older /\ run[w].job # p
              /\ Rewritten(p, "superseded", packages[p].content)
<1>0. /\ packages \in [Package -> PackageRow \cup {None}] /\ TypeOK
      /\ \A w \in Worker : run[w].pc \in {"idle", "compose", "put", "supersede", "lock", "ready",
                                          "done"}
      /\ \A w \in Worker : run[w].content \in Edition \cup {None} /\ RunInOrder(w)
      /\ Exists(p) => packages[p] \in PackageRow
  BY DEF IndInv, TypeOK, Exists
<1>1. CASE packages' = packages
  BY <1>1
<1>2. CASE \E h \in Http : InsertVersion(h)
  <2> PICK h \in Http : InsertVersion(h)
    BY <1>2
  <2>1. PICK q \in Package :
          /\ ~Exists(q)
          /\ packages' = [packages EXCEPT ![q] =
               [version |-> http[h].version, status |-> "building", content |-> None]]
          /\ http' = [http EXCEPT ![h].pc = "enqueue", ![h].job = q]
    BY DEF InsertVersion
  <2>2. http'[h].job = q
    BY <1>0, <2>1 DEF TypeOK
  <2>3. CASE p = q
    BY <1>0, <2>1, <2>2, <2>3
  <2>4. CASE p # q
    BY <1>0, <2>1, <2>4
  <2>5. QED
    BY <2>3, <2>4
<1>3. ASSUME NEW w \in Worker, run[w].job = p, Building(w),
             packages' = [packages EXCEPT ![p].status = "failed"]
      PROVE  Rewritten(p, "failed", packages[p].content)
  <2>1. Exists(p)
    BY <1>0, <1>3 DEF RunInOrder, Building
  <2>2. packages'[p] = [packages[p] EXCEPT !.status = "failed"]
    BY <1>0, <1>3
  <2>3. QED
    BY <1>0, <2>1, <2>2, NoneAssumption DEF Rewritten, PackageRow, PackageStatus, Exists
<1>4. CASE \E w \in Worker : ComposeFails(w) \/ BuildThrows(w)
  <2> PICK w \in Worker : ComposeFails(w) \/ BuildThrows(w)
    BY <1>4
  <2>1. /\ Building(w) /\ run' = [run EXCEPT ![w] = IdleRun]
        /\ \/ packages' = packages
           \/ /\ ~LockedFor(w, {run[w].job})
              /\ packages' = [packages EXCEPT ![run[w].job].status = "failed"]
    BY <1>0 DEF ComposeFails, BuildThrows, EndRun, Building
  <2>2. run'[w].pc = "idle" /\ run[w].pc # "idle"
    BY <1>0, <2>1 DEF TypeOK, IdleRun, Building
  <2>3. ~\E v \in Worker : MarkReady(v)
    BY <1>0, <2>2 DEF MarkReady, TypeOK
  <2>4. CASE packages' = packages
    BY <2>4
  <2>5. CASE run[w].job = p /\ packages' = [packages EXCEPT ![run[w].job].status = "failed"]
    BY <1>3, <2>1, <2>3, <2>5
  <2>6. CASE run[w].job # p /\ packages' = [packages EXCEPT ![run[w].job].status = "failed"]
    BY <1>0, <2>6
  <2>7. QED
    BY <2>1, <2>4, <2>5, <2>6
<1>5. CASE \E w \in Worker : MarkReady(w)
  <2> PICK w \in Worker : MarkReady(w)
    BY <1>5
  <2>1. packages'[p] =
          CASE p = run[w].job -> [packages[run[w].job] EXCEPT !.status = "ready",
                                                             !.content = run[w].content]
            [] p \in run[w].older -> [packages[p] EXCEPT !.status = "superseded"]
            [] OTHER -> packages[p]
    BY DEF MarkReady
  <2>2. /\ run[w].job \notin run[w].older /\ Exists(run[w].job)
        /\ \A q \in run[w].older : Exists(q)
    BY <1>0 DEF RunInOrder, MarkReady
  <2>3. CASE run[w].job = p
    <3>1. packages'[p] = [packages[p] EXCEPT !.status = "ready", !.content = run[w].content]
      BY <2>1, <2>2, <2>3
    <3>2. Rewritten(p, "ready", run[w].content)
      BY <1>0, <2>2, <2>3, <3>1, NoneAssumption DEF Rewritten, PackageRow, PackageStatus, Exists
    <3>3. QED
      BY <2>2, <2>3, <3>2
  <2>4. CASE run[w].job # p /\ p \in run[w].older
    <3>1. packages'[p] = [packages[p] EXCEPT !.status = "superseded"]
      BY <2>1, <2>4
    <3>2. Rewritten(p, "superseded", packages[p].content)
      BY <1>0, <2>2, <2>4, <3>1, NoneAssumption DEF Rewritten, PackageRow, PackageStatus, Exists
    <3>3. QED
      BY <2>4, <3>2
  <2>5. CASE run[w].job # p /\ p \notin run[w].older
    BY <2>1, <2>5
  <2>6. QED
    BY <2>3, <2>4, <2>5
<1>6. QED
  BY <1>1, <1>2, <1>4, <1>5
  DEF Next, vars, siteVars, RequestStep, TakeJob, RunStep, CheckNotClosed, NextVersion,
      EnqueueBuild, HttpFails, CloseSchedule, EditBank, SkipReady, StartBuild, Compose, PutPackage,
      SelectOlder, SupersedeOlder, CompleteJob, WorkerCrash, RecoverStalled, SelectPackage,
      FetchObject

LEMMA RunStepOf ==
  ASSUME TypeOK, [Next]_vars, NEW w \in Worker
  PROVE  \/ run'[w] = run[w]
         \/ run'[w] = IdleRun
         \/ \E p \in Package :
              /\ StartBuild(w, p) /\ run[w] = IdleRun
              /\ run'[w] = [IdleRun EXCEPT !.pc = "compose", !.job = p]
         \/ Compose(w) /\ run'[w] = [run[w] EXCEPT !.pc = "put", !.content = bank]
         \/ PutPackage(w) /\ run'[w] = [run[w] EXCEPT !.pc = "supersede"]
         \/ SelectOlder(w) /\ run'[w] = [run[w] EXCEPT !.pc = "lock",
                                                       !.older = Ready \ {run[w].job}]
         \/ SupersedeOlder(w) /\ run'[w] = [run[w] EXCEPT !.pc = "ready",
                                                          !.older = run[w].older \cap Ready]
         \/ MarkReady(w) /\ run'[w] = [run[w] EXCEPT !.pc = "done"]
<1>0. run \in [Worker -> [pc : {"idle", "compose", "put", "supersede", "lock", "ready", "done"},
                          job : Package \cup {None}, content : Edition \cup {None},
                          older : SUBSET Package]]
  BY DEF TypeOK
<1>1. CASE \E v \in Worker : run' = [run EXCEPT ![v] = IdleRun]
  BY <1>0, <1>1
<1>2. CASE \E v \in Worker, p \in Package : StartBuild(v, p)
  <2> PICK v \in Worker, p \in Package : StartBuild(v, p)
    BY <1>2
  <2>1. run[v] = IdleRun /\ run' = [run EXCEPT ![v].pc = "compose", ![v].job = p]
    BY DEF StartBuild
  <2>2. CASE v = w
    <3>1. run'[w] = [run[w] EXCEPT !.pc = "compose", !.job = p]
      BY <1>0, <2>1, <2>2
    <3>2. QED
      BY <2>1, <2>2, <3>1
  <2>3. CASE v # w
    BY <1>0, <2>1, <2>3
  <2>4. QED
    BY <2>2, <2>3
<1>3. CASE \E v \in Worker : Compose(v) \/ PutPackage(v) \/ SelectOlder(v)
  BY <1>0, <1>3 DEF Compose, PutPackage, SelectOlder
<1>4. CASE \E v \in Worker : SupersedeOlder(v) \/ MarkReady(v)
  <2> PICK v \in Worker : SupersedeOlder(v) \/ MarkReady(v)
    BY <1>4
  <2>1. CASE v # w
    BY <1>0, <2>1 DEF SupersedeOlder, MarkReady
  <2>2. CASE SupersedeOlder(w)
    BY <1>0, <2>2 DEF SupersedeOlder
  <2>3. CASE MarkReady(w)
    BY <1>0, <2>3 DEF MarkReady
  <2>4. QED
    BY <2>1, <2>2, <2>3
<1>5. CASE run' = run
  BY <1>5
<1>6. QED
  BY <1>1, <1>2, <1>3, <1>4, <1>5
  DEF Next, vars, siteVars, RequestStep, TakeJob, RunStep, CheckNotClosed, NextVersion,
      InsertVersion, EnqueueBuild, HttpFails, CloseSchedule, EditBank, SkipReady, ComposeFails,
      CompleteJob, BuildThrows, WorkerCrash, EndRun, RecoverStalled, SelectPackage, FetchObject

LEMMA ObjectsStep ==
  ASSUME TypeOK, [Next]_vars, NEW p \in Package
  PROVE  \/ objects'[p] = objects[p]
         \/ \E w \in Worker : PutPackage(w) /\ run[w].job = p /\ objects'[p] = run[w].content
<1>1. objects \in [Package -> Edition \cup {None}]
  BY DEF TypeOK
<1>2. \/ objects' = objects
      \/ \E w \in Worker : /\ PutPackage(w)
                            /\ objects' = [objects EXCEPT ![run[w].job] = run[w].content]
  BY DEF Next, vars, siteVars, RequestStep, TakeJob, RunStep, CheckNotClosed, NextVersion,
         InsertVersion, EnqueueBuild, HttpFails, CloseSchedule, EditBank, SkipReady, StartBuild,
         Compose, ComposeFails, PutPackage, SelectOlder, SupersedeOlder, MarkReady, CompleteJob,
         BuildThrows, WorkerCrash, RecoverStalled, SelectPackage, FetchObject
<1>3. QED
  BY <1>1, <1>2

LEMMA RequestsStep ==
  ASSUME IndInv, [Next]_vars
  PROVE  \/ http' = http /\ \A p \in Package : Exists(p)' <=> Exists(p)
         \/ \E h \in Http : CheckNotClosed(h) \/ NextVersion(h) \/ InsertVersion(h)
         \/ \E h \in Http : /\ http' = [http EXCEPT ![h] = IdleRequest]
                             /\ packages' = packages
<1>1. \/ http' = http /\ \A h \in Http : ~InsertVersion(h)
      \/ \E h \in Http : CheckNotClosed(h) \/ NextVersion(h) \/ InsertVersion(h)
      \/ \E h \in Http : /\ http' = [http EXCEPT ![h] = IdleRequest]
                          /\ packages' = packages
  BY DEF Next, vars, siteVars, RequestStep, TakeJob, RunStep, EnqueueBuild, HttpFails,
         CloseSchedule, EditBank, SkipReady, StartBuild, Compose, ComposeFails, PutPackage,
         SelectOlder, SupersedeOlder, MarkReady, CompleteJob, BuildThrows, WorkerCrash,
         RecoverStalled, SelectPackage, FetchObject
<1>2. CASE http' = http /\ \A h \in Http : ~InsertVersion(h)
  <2> SUFFICES ASSUME NEW p \in Package PROVE Exists(p)' <=> Exists(p)
    BY <1>2
  <2>1. QED
    BY <1>2, PackagesStep DEF Exists, Rewritten
<1>3. QED
  BY <1>1, <1>2

\* Versions never change, and only InsertVersion adds one.
LEMMA VersionsStep ==
  ASSUME IndInv, [Next]_vars
  PROVE  \/ /\ \A h \in Http : ~InsertVersion(h)
            /\ \A p \in Package : /\ Exists(p)' <=> Exists(p)
                                  /\ Exists(p) => packages'[p].version = packages[p].version
            /\ Existing' = Existing /\ Unused' = Unused /\ Versions' = Versions
         \/ \E h \in Http, p \in Package :
              /\ InsertVersion(h) /\ ~Exists(p) /\ http[h].pc = "insert"
              /\ packages' = [packages EXCEPT ![p] =
                   [version |-> http[h].version, status |-> "building", content |-> None]]
              /\ http' = [http EXCEPT ![h].pc = "enqueue", ![h].job = p]
<1>1. CASE \E h \in Http : InsertVersion(h)
  BY <1>1 DEF InsertVersion
<1>2. CASE \A h \in Http : ~InsertVersion(h)
  <2>1. ASSUME NEW p \in Package
        PROVE  /\ packages'[p] # None <=> packages[p] # None
               /\ packages[p] # None => packages'[p].version = packages[p].version
    BY <1>2, PackagesStep DEF Exists, Rewritten
  <2>2. Existing' = Existing /\ Unused' = Unused
    BY <2>1 DEF Existing, Unused, Exists
  <2>3. Versions' = Versions
    <3>1. {q \in Package : packages'[q] # None} = {q \in Package : packages[q] # None}
      BY <2>1
    <3>2. QED
      BY <2>1, <3>1 DEF Versions, Exists
  <2>4. QED
    BY <1>2, <2>1, <2>2, <2>3 DEF Exists
<1>3. QED
  BY <1>1, <1>2

LEMMA OrderStep ==
  ASSUME IndInv, [Next]_vars
  PROVE  /\ VersionsInOrder' /\ \A h \in Http : RequestInOrder(h)'
         /\ \A p, q \in Package :
              Exists(p)' /\ Exists(q)' /\ packages'[p].version = packages'[q].version => p = q
<1>0. /\ TypeOK /\ VersionsInOrder /\ \A h \in Http : RequestInOrder(h)
      /\ http \in [Http -> [pc : {"idle", "begin", "insert", "enqueue"},
                            version : 0..Cardinality(Package), job : Package \cup {None}]]
      /\ packages \in [Package -> PackageRow \cup {None}]
      /\ \A p, q \in Package :
           Exists(p) /\ Exists(q) /\ packages[p].version = packages[q].version => p = q
  BY DEF IndInv, TypeOK
<1>1. ASSUME Existing' = Existing, Unused' = Unused, Versions' = Versions,
             \A h \in Http : ~InsertVersion(h),
             \A p \in Package : Exists(p)' <=> Exists(p),
             \A p \in Package : Exists(p) => packages'[p].version = packages[p].version
      PROVE  /\ VersionsInOrder' /\ \A h \in Http : RequestInOrder(h)'
             /\ \A p, q \in Package :
                  Exists(p)' /\ Exists(q)' /\ packages'[p].version = packages'[q].version => p = q
  <2>1. \A p, q \in Package :
          Exists(p)' /\ Exists(q)' /\ packages'[p].version = packages'[q].version => p = q
    BY <1>0, <1>1
  <2>2. CASE http' = http
    <3>1. Publishing' = Publishing
      BY <2>2 DEF Publishing
    <3>2. QED
      BY <1>0, <1>1, <2>1, <2>2, <3>1 DEF VersionsInOrder, RequestInOrder
  <2>3. ASSUME NEW h \in Http, http' = [http EXCEPT ![h] = IdleRequest]
        PROVE  VersionsInOrder' /\ \A g \in Http : RequestInOrder(g)'
    <3>1. http'[h].pc = "idle" /\ \A g \in Http \ {h} : http'[g] = http[g]
      BY <1>0, <2>3 DEF IdleRequest
    <3>2. Publishing' \subseteq Publishing
      BY <3>1 DEF Publishing
    <3>3. /\ Cardinality(Publishing') <= Cardinality(Publishing)
          /\ Cardinality(Publishing') \in Nat
      BY <3>2, Finiteness, FS_Subset, FS_CardinalityType
    <3>4. Cardinality(Publishing') <= Cardinality(Unused')
      BY <1>0, <1>1, <3>3, Finiteness DEF VersionsInOrder
    <3>5. QED
      BY <1>0, <1>1, <3>1, <3>4 DEF VersionsInOrder, RequestInOrder
  <2>4. ASSUME NEW h \in Http, CheckNotClosed(h)
        PROVE  VersionsInOrder' /\ \A g \in Http : RequestInOrder(g)'
    <3>1. http[h].pc = "idle" /\ http' = [http EXCEPT ![h].pc = "begin"]
      BY <2>4 DEF CheckNotClosed, IdleRequest
    <3>2. http'[h].pc = "begin" /\ \A g \in Http \ {h} : http'[g] = http[g]
      BY <1>0, <3>1
    <3>3. Publishing' = Publishing \cup {h} /\ h \notin Publishing
      BY <3>1, <3>2 DEF Publishing
    <3>4. Cardinality(Publishing') = Cardinality(Publishing) + 1
      BY <3>3, Finiteness, FS_AddElement
    <3>5. Cardinality(Publishing) < Cardinality(Unused)
      BY <2>4 DEF CheckNotClosed, IdLeft, Publishing, Unused
    <3>6. Cardinality(Publishing') <= Cardinality(Unused')
      BY <1>1, <3>4, <3>5, Finiteness
    <3>7. QED
      BY <1>0, <1>1, <3>2, <3>6 DEF VersionsInOrder, RequestInOrder
  <2>5. ASSUME NEW h \in Http, NextVersion(h)
        PROVE  VersionsInOrder' /\ \A g \in Http : RequestInOrder(g)'
    <3>1. /\ http[h].pc = "begin" /\ \A g \in Http : http[g].pc # "insert"
          /\ http' = [http EXCEPT ![h].pc = "insert", ![h].version = Cardinality(Existing) + 1]
      BY <1>0, <2>5, NextNumber DEF NextVersion, ScheduleLocked
    <3>2. /\ http'[h].pc = "insert" /\ http'[h].version = Cardinality(Existing) + 1
          /\ \A g \in Http \ {h} : http'[g] = http[g]
      BY <1>0, <3>1
    <3>3. Publishing' = Publishing
      BY <3>1, <3>2 DEF Publishing
    <3>4. QED
      BY <1>0, <1>1, <3>1, <3>2, <3>3 DEF VersionsInOrder, RequestInOrder
  <2>6. QED
    BY <1>1, <2>1, <2>2, <2>3, <2>4, <2>5, RequestsStep
<1>2. ASSUME NEW h \in Http, NEW p \in Package, ~Exists(p), http[h].pc = "insert",
             packages' = [packages EXCEPT ![p] =
                   [version |-> http[h].version, status |-> "building", content |-> None]],
             http' = [http EXCEPT ![h].pc = "enqueue", ![h].job = p]
      PROVE  /\ VersionsInOrder' /\ \A g \in Http : RequestInOrder(g)'
             /\ \A q, r \in Package :
                  Exists(q)' /\ Exists(r)' /\ packages'[q].version = packages'[r].version => q = r
  <2> DEFINE n == Cardinality(Existing)
  <2>1. http[h].version = n + 1 /\ n \in Nat
    BY <1>0, <1>2, Finiteness DEF VersionsInOrder
  <2>2. n + 1 \in 1..Cardinality(Package)
    BY <1>0, <1>2, IdForRequest
  <2>3. /\ packages'[p] = [version |-> n + 1, status |-> "building", content |-> None]
        /\ \A q \in Package \ {p} : packages'[q] = packages[q]
    BY <1>0, <1>2, <2>1
  <2>4. packages'[p].version = n + 1 /\ packages'[p] # None
    <3>1. packages'[p] \in PackageRow
      BY <2>2, <2>3 DEF PackageRow, PackageStatus
    <3>2. QED
      BY <2>3, <3>1, NoneAssumption
  <2>5. Existing' = Existing \cup {p} /\ p \notin Existing
    BY <1>2, <2>3, <2>4 DEF Existing, Exists
  <2>6. Unused' = Unused \ {p} /\ p \in Unused
    BY <1>2, <2>3, <2>4 DEF Unused, Exists
  <2>7. /\ http'[h].pc = "enqueue" /\ http'[h].job = p
        /\ \A g \in Http \ {h} : http'[g] = http[g]
    BY <1>0, <1>2
  <2>8. Publishing' = Publishing \ {h} /\ h \in Publishing
    BY <1>2, <2>7 DEF Publishing
  <2>9. /\ Cardinality(Existing') = n + 1
        /\ Cardinality(Unused') = Cardinality(Unused) - 1
        /\ Cardinality(Publishing') = Cardinality(Publishing) - 1
    BY <2>5, <2>6, <2>8, Finiteness, FS_AddElement, FS_RemoveElement
  <2>10. Versions' = Versions \cup {n + 1}
    BY <2>3, <2>4, <1>2 DEF Versions, Exists
  <2>11. Versions' = 1..Cardinality(Existing')
    BY <1>0, <2>1, <2>9, <2>10 DEF VersionsInOrder
  <2>12. \A q \in Package : Exists(q) => packages[q].version \in 1..n
    BY <1>0 DEF VersionsInOrder, Versions
  <2>13. \A q, r \in Package :
           Exists(q)' /\ Exists(r)' /\ packages'[q].version = packages'[r].version => q = r
    <3>1. \A q \in Package \ {p} : Exists(q)' => packages'[q].version # n + 1
      BY <2>1, <2>3, <2>12 DEF Exists
    <3>2. QED
      BY <1>0, <2>3, <2>4, <3>1 DEF Exists
  <2>14. Cardinality(Publishing') <= Cardinality(Unused')
    BY <1>0, <2>9, Finiteness DEF VersionsInOrder
  <2>15. \A g \in Http : http'[g].pc # "insert"
    BY <1>0, <1>2, <2>7 DEF VersionsInOrder
  <2>16. \A g \in Http : RequestInOrder(g)'
    BY <1>0, <2>3, <2>4, <2>7 DEF RequestInOrder, Exists
  <2>17. QED
    BY <2>11, <2>13, <2>14, <2>15, <2>16 DEF VersionsInOrder
<1>3. QED
  BY <1>1, <1>2, VersionsStep
-----------------------------------------------------------------------------
(* The inductive invariant.                                                *)

\* Rows are not deleted, and what is complete stays complete.
LEMMA CompleteStays ==
  ASSUME IndInv, [Next]_vars, NEW p \in Package
  PROVE  /\ Exists(p) => Exists(p)'
         /\ Exists(p) /\ packages[p].content \in Edition => packages'[p].content \in Edition
         /\ objects[p] \in Edition => objects'[p] \in Edition
<1>0. TypeOK /\ \A w \in Worker : RunInOrder(w)
  BY DEF IndInv
<1>1. ASSUME NEW w \in Worker, MarkReady(w) PROVE run[w].content \in Edition
  BY <1>0, <1>1 DEF RunInOrder, MarkReady
<1>2. ASSUME NEW w \in Worker, PutPackage(w) PROVE run[w].content \in Edition
  BY <1>0, <1>2 DEF RunInOrder, PutPackage
<1>3. /\ Exists(p) => Exists(p)'
      /\ Exists(p) /\ packages[p].content \in Edition => packages'[p].content \in Edition
  BY <1>1, PackagesStep DEF Exists, Rewritten
<1>4. objects[p] \in Edition => objects'[p] \in Edition
  BY <1>0, <1>2, ObjectsStep
<1>5. QED
  BY <1>3, <1>4

LEMMA RunOrderStep ==
  ASSUME IndInv, [Next]_vars, NEW w \in Worker
  PROVE  RunInOrder(w)'
<1>0. /\ TypeOK /\ RunInOrder(w) /\ ContentHasObject /\ bank \in Edition
      /\ run[w] \in [pc : {"idle", "compose", "put", "supersede", "lock", "ready", "done"},
                     job : Package \cup {None}, content : Edition \cup {None},
                     older : SUBSET Package]
      /\ \A p \in Package : packages[p] # None => packages[p].content \in Edition \cup {None}
  BY DEF IndInv, TypeOK, PackageRow
<1>1. \A p \in Package :
        /\ Exists(p) => Exists(p)'
        /\ Exists(p) /\ packages[p].content \in Edition => packages'[p].content \in Edition
        /\ objects[p] \in Edition => objects'[p] \in Edition
  BY CompleteStays
<1>2. CASE run'[w] = run[w]
  BY <1>0, <1>1, <1>2 DEF RunInOrder, Exists
<1>3. CASE run'[w] = IdleRun
  BY <1>3 DEF RunInOrder, IdleRun
<1>4. ASSUME NEW p \in Package, StartBuild(w, p),
             run'[w] = [IdleRun EXCEPT !.pc = "compose", !.job = p]
      PROVE  RunInOrder(w)'
  <2>1. Exists(p)'
    BY <1>1, <1>4 DEF StartBuild
  <2>2. run'[w].pc = "compose" /\ run'[w].job = p
    BY <1>4 DEF IdleRun
  <2>3. QED
    BY <2>1, <2>2, NoneAssumption DEF RunInOrder, Exists
<1>5. CASE Compose(w) /\ run'[w] = [run[w] EXCEPT !.pc = "put", !.content = bank]
  <2>0. run[w].pc = "compose"
    BY <1>5 DEF Compose
  <2>1. /\ run'[w].pc = "put" /\ run'[w].job = run[w].job
        /\ run'[w].content \in Edition
    BY <1>0, <1>5
  <2>2. QED
    BY <1>0, <1>1, <2>0, <2>1 DEF RunInOrder, Exists
<1>6. CASE PutPackage(w) /\ run'[w] = [run[w] EXCEPT !.pc = "supersede"]
  <2>1. /\ run[w].pc = "put" /\ run'[w].pc = "supersede" /\ run'[w].job = run[w].job
        /\ run'[w].content = run[w].content
    BY <1>0, <1>6 DEF PutPackage
  <2>2. run[w].job \in Package /\ run[w].content \in Edition
    BY <1>0, <2>1 DEF RunInOrder
  <2>3. objects'[run[w].job] \in Edition
    BY <1>0, <1>6, <2>2 DEF PutPackage, TypeOK
  <2>4. QED
    BY <1>0, <1>1, <2>1, <2>2, <2>3 DEF RunInOrder, Exists
<1>7. CASE SelectOlder(w) /\ run'[w] = [run[w] EXCEPT !.pc = "lock", !.older = Ready \ {run[w].job}]
  <2>1. /\ run[w].pc = "supersede" /\ run'[w].pc = "lock" /\ run'[w].job = run[w].job
        /\ run'[w].content = run[w].content /\ run'[w].older = Ready \ {run[w].job}
    BY <1>0, <1>7 DEF SelectOlder
  <2>2. \A q \in Ready : q \in Package /\ Exists(q) /\ packages[q].content \in Edition
    BY <1>0 DEF TypeOK, Ready, HasStatus
  <2>3. run[w].job \in Package /\ run[w].content \in Edition /\ objects[run[w].job] \in Edition
    BY <1>0, <2>1 DEF RunInOrder
  <2>4. QED
    BY <1>0, <1>1, <2>1, <2>2, <2>3 DEF RunInOrder, Exists
<1>8. CASE SupersedeOlder(w) /\ run'[w] = [run[w] EXCEPT !.pc = "ready",
                                                       !.older = run[w].older \cap Ready]
  <2>1. /\ run[w].pc = "lock" /\ run'[w].pc = "ready" /\ run'[w].job = run[w].job
        /\ run'[w].content = run[w].content /\ run'[w].older = run[w].older \cap Ready
    BY <1>0, <1>8 DEF SupersedeOlder
  <2>2. QED
    BY <1>0, <1>1, <2>1 DEF RunInOrder, Exists
<1>9. CASE MarkReady(w) /\ run'[w] = [run[w] EXCEPT !.pc = "done"]
  <2>1. run[w].pc = "ready" /\ run'[w].pc = "done" /\ run'[w].job = run[w].job
    BY <1>0, <1>9 DEF MarkReady
  <2>2. QED
    BY <1>0, <1>1, <2>1 DEF RunInOrder, Exists
<1>10. QED
  BY <1>0, <1>2, <1>3, <1>4, <1>5, <1>6, <1>7, <1>8, <1>9, RunStepOf

LEMMA ObjectStays ==
  ASSUME IndInv, [Next]_vars
  PROVE  ContentHasObject'
<1>0. /\ TypeOK /\ ContentHasObject /\ \A w \in Worker : RunInOrder(w)
      /\ \A p \in Package : Exists(p) => packages[p].content \in Edition \cup {None}
      /\ fetching \in [Device -> [package : Package, checksum : Edition] \cup {None}]
  BY DEF IndInv, TypeOK, PackageRow, Exists
<1>1. ASSUME NEW p \in Package, Exists(p)', packages'[p].content # None
      PROVE  objects'[p] \in Edition
  <2>1. CASE \E w \in Worker : MarkReady(w) /\ run[w].job = p
    BY <1>0, <2>1, CompleteStays DEF RunInOrder, MarkReady
  <2>2. CASE Exists(p) /\ packages[p].content # None
    BY <1>0, <2>2, CompleteStays DEF ContentHasObject
  <2>3. ~\E h \in Http : packages'[p] = [version |-> http[h].version, status |-> "building",
                                        content |-> None]
    <3> SUFFICES ASSUME NEW n, packages'[p] = [version |-> n, status |-> "building",
                                               content |-> None]
                 PROVE  FALSE
      OBVIOUS
    <3>1. packages'[p].content = None
      OBVIOUS
    <3>2. QED
      BY <1>1, <3>1
  <2>4. \/ packages'[p] = packages[p]
        \/ \E w \in Worker : MarkReady(w) /\ run[w].job = p
        \/ Exists(p) /\ packages'[p].content = packages[p].content
    BY <2>3, PackagesStep DEF Rewritten
  <2>5. QED
    BY <1>1, <2>1, <2>2, <2>4 DEF Exists
<1>2. ASSUME NEW d \in Device, fetching'[d] # None
      PROVE  objects'[fetching'[d].package] \in Edition
  <2>1. \/ fetching' = fetching
        \/ \E e \in Device : fetching' = [fetching EXCEPT ![e] = None]
        \/ \E e \in Device : SelectPackage(e)
    BY DEF Next, vars, siteVars, RequestStep, TakeJob, RunStep, CheckNotClosed, NextVersion,
           InsertVersion, EnqueueBuild, HttpFails, CloseSchedule, EditBank, SkipReady, StartBuild,
           Compose, ComposeFails, PutPackage, SelectOlder, SupersedeOlder, MarkReady, CompleteJob,
           BuildThrows, WorkerCrash, RecoverStalled, FetchObject
  <2>2. CASE fetching'[d] = fetching[d]
    <3>1. fetching[d].package \in Package /\ objects[fetching[d].package] \in Edition
      BY <1>0, <1>2, <2>2 DEF ContentHasObject
    <3>2. QED
      BY <2>2, <3>1, CompleteStays
  <2>3. CASE SelectPackage(d)
    <3>1. PICK p \in Ready :
            fetching' = [fetching EXCEPT ![d] = [package |-> p, checksum |-> packages[p].content]]
      BY <2>3 DEF SelectPackage
    <3>2. p \in Package /\ Exists(p) /\ packages[p].content \in Edition /\ packages[p].content # None
      BY <1>0, <3>1, NoneAssumption DEF TypeOK, Ready, HasStatus
    <3>3. fetching'[d].package = p /\ objects[p] \in Edition
      BY <1>0, <3>1, <3>2 DEF ContentHasObject
    <3>4. QED
      BY <3>2, <3>3, CompleteStays
  <2>4. QED
    BY <1>0, <1>2, <2>1, <2>2, <2>3 DEF SelectPackage
<1>3. QED
  BY <1>1, <1>2 DEF ContentHasObject, Exists

\* Row locks are taken one transaction at a time.
LEMMA LocksStep ==
  ASSUME IndInv, [Next]_vars
  PROVE  LocksAreExclusive'
<1>0. TypeOK /\ LocksAreExclusive
      /\ run \in [Worker -> [pc : {"idle", "compose", "put", "supersede", "lock", "ready", "done"},
                             job : Package \cup {None}, content : Edition \cup {None},
                             older : SUBSET Package]]
  BY DEF IndInv, TypeOK
<1>1. ASSUME NEW w \in Worker
      PROVE  \/ LockedBy(w)' = LockedBy(w)
             \/ LockedBy(w)' = {}
             \/ SupersedeOlder(w) /\ LockedBy(w)' \subseteq run[w].older
  <2>1. CASE run'[w] = run[w]
    BY <2>1 DEF LockedBy
  <2>2. CASE run'[w].pc # "ready"
    BY <2>2 DEF LockedBy
  <2>3. CASE SupersedeOlder(w) /\ run'[w] = [run[w] EXCEPT !.pc = "ready",
                                                         !.older = run[w].older \cap Ready]
    BY <1>0, <2>3 DEF LockedBy
  <2>4. CASE \E p \in Package : run'[w] = [IdleRun EXCEPT !.pc = "compose", !.job = p]
    BY <2>2, <2>4 DEF IdleRun
  <2>5. CASE \/ run'[w] = [run[w] EXCEPT !.pc = "put", !.content = bank]
             \/ run'[w] = [run[w] EXCEPT !.pc = "supersede"]
             \/ run'[w] = [run[w] EXCEPT !.pc = "lock", !.older = Ready \ {run[w].job}]
             \/ run'[w] = [run[w] EXCEPT !.pc = "done"]
    BY <1>0, <2>2, <2>5
  <2>6. CASE run'[w] = IdleRun
    BY <2>2, <2>6 DEF IdleRun
  <2>7. QED
    BY <1>0, <2>1, <2>3, <2>4, <2>5, <2>6, RunStepOf
<1>2. ASSUME NEW v \in Worker, NEW w \in Worker, v # w, SupersedeOlder(w)
      PROVE  LockedBy(v)' = LockedBy(v) /\ LockedBy(v) \cap run[w].older = {}
  BY <1>0, <1>2 DEF SupersedeOlder, LockedBy, LockedFor
<1>3. QED
  BY <1>0, <1>1, <1>2 DEF LocksAreExclusive

LEMMA JobsTyped ==
  ASSUME TypeOK, [Next]_vars, \A h \in Http : RequestInOrder(h)
  PROVE  jobs' \in [Package -> Queue!Job]
<1>0. jobs \in [Package -> Queue!Job]
  BY DEF TypeOK
<1>1. \/ jobs' = jobs
      \/ \E h \in Http : EnqueueBuild(h)
      \/ \E p \in Package : jobs' = [jobs EXCEPT ![p].state = "completed"]
      \/ \E w \in Worker, p \in Package : Queue!Take(w, p)
      \/ \E w \in Worker : Queue!Complete(w, run[w].job) \/ Queue!Throw(w, run[w].job)
      \/ \E p \in Package : Queue!Stall(p)
  BY DEF Next, vars, siteVars, RequestStep, TakeJob, RunStep, CheckNotClosed, NextVersion,
         InsertVersion, HttpFails, CloseSchedule, EditBank, SkipReady, StartBuild, Compose,
         ComposeFails, PutPackage, SelectOlder, SupersedeOlder, MarkReady, CompleteJob,
         BuildThrows, WorkerCrash, RecoverStalled, SelectPackage, FetchObject
\* Each operation of the queue replaces one job by a job.
<1>2. ASSUME NEW p, NEW job \in Queue!Job, jobs' = [jobs EXCEPT ![p] = job]
      PROVE  jobs' \in [Package -> Queue!Job]
  BY <1>0, <1>2
<1>3. CASE \E h \in Http : EnqueueBuild(h)
  <2> PICK h \in Http : EnqueueBuild(h)
    BY <1>3
  <2>1. jobs' = [jobs EXCEPT ![http[h].job].state = IF @ = "none" THEN "waiting" ELSE @]
    BY DEF EnqueueBuild, Queue!Add
  <2>2. http[h].job \in Package
    BY DEF EnqueueBuild, RequestInOrder
  <2>3. [jobs[http[h].job] EXCEPT !.state = IF @ = "none" THEN "waiting" ELSE @] \in Queue!Job
    BY <1>0, <2>2 DEF Queue!Job
  <2>4. QED
    BY <1>0, <2>1, <2>2, <2>3
<1>4. CASE \E p \in Package : jobs' = [jobs EXCEPT ![p].state = "completed"]
  <2> PICK p \in Package : jobs' = [jobs EXCEPT ![p].state = "completed"]
    BY <1>4
  <2>1. [jobs[p] EXCEPT !.state = "completed"] \in Queue!Job
    BY <1>0 DEF Queue!Job
  <2>2. QED
    BY <1>0, <2>1
<1>5. CASE \E w \in Worker, p \in Package : Queue!Take(w, p)
  <2> PICK w \in Worker, p \in Package : Queue!Take(w, p)
    BY <1>5
  <2>1. [jobs[p] EXCEPT !.state = "active", !.owner = w] \in Queue!Job
    BY <1>0 DEF Queue!Job
  <2>2. QED
    BY <1>0, <2>1 DEF Queue!Take
<1>6. CASE \E w \in Worker : Queue!Complete(w, run[w].job) \/ Queue!Throw(w, run[w].job)
  <2> PICK w \in Worker : Queue!Complete(w, run[w].job) \/ Queue!Throw(w, run[w].job)
    BY <1>6
  <2> DEFINE p == run[w].job
  <2>1. CASE p \notin Package
    <3>1. \A v : [jobs EXCEPT ![p] = v] = jobs
      BY <1>0, <2>1
    <3>2. QED
      BY <1>0, <2>1, <3>1 DEF Queue!Complete, Queue!Throw
  <2>2. CASE p \in Package
    <3>1. jobs[p] \in Queue!Job /\ jobs[p].tries \in 0..MaxTries
      BY <1>0, <2>2 DEF Queue!Job
    <3>2. [jobs[p] EXCEPT !.state = "completed", !.owner = None] \in Queue!Job
      BY <3>1 DEF Queue!Job
    <3>3. (IF jobs[p].tries < MaxTries THEN jobs[p].tries + 1 ELSE jobs[p].tries) \in 0..MaxTries
      BY <3>1, ConstantsAssumption
    <3>4. [jobs[p] EXCEPT !.state = IF jobs[p].tries + 1 < MaxTries THEN "waiting" ELSE "failed",
                          !.tries = IF @ < MaxTries THEN @ + 1 ELSE @,
                          !.owner = None] \in Queue!Job
      BY <3>1, <3>3 DEF Queue!Job
    <3>5. QED
      BY <1>0, <2>2, <3>2, <3>4 DEF Queue!Complete, Queue!Throw
  <2>3. QED
    BY <2>1, <2>2
<1>7. CASE \E p \in Package : Queue!Stall(p)
  <2> PICK p \in Package : Queue!Stall(p)
    BY <1>7
  <2>1. jobs[p] \in Queue!Job /\ jobs[p].stalls \in 0..MaxStalls
    BY <1>0 DEF Queue!Job
  <2>2. (IF jobs[p].stalls < MaxStalls THEN jobs[p].stalls + 1 ELSE jobs[p].stalls) \in 0..MaxStalls
    BY <2>1, ConstantsAssumption
  <2>3. [jobs[p] EXCEPT !.state = IF jobs[p].stalls < MaxStalls THEN "waiting" ELSE "failed",
                        !.stalls = IF @ < MaxStalls THEN @ + 1 ELSE @,
                        !.owner = None] \in Queue!Job
    BY <2>1, <2>2 DEF Queue!Job
  <2>4. QED
    BY <1>0, <2>3 DEF Queue!Stall
<1>8. QED
  BY <1>0, <1>1, <1>3, <1>4, <1>5, <1>6, <1>7

LEMMA RunTyped ==
  ASSUME IndInv, [Next]_vars
  PROVE  run' \in [Worker -> [pc : {"idle", "compose", "put", "supersede", "lock", "ready", "done"},
                              job : Package \cup {None}, content : Edition \cup {None},
                              older : SUBSET Package]]
<1> DEFINE Run == [pc : {"idle", "compose", "put", "supersede", "lock", "ready", "done"},
                   job : Package \cup {None}, content : Edition \cup {None},
                   older : SUBSET Package]
<1>0. TypeOK /\ run \in [Worker -> Run] /\ bank \in Edition
  BY DEF IndInv, TypeOK
<1>1. run' = [w \in Worker |-> run'[w]]
  <2>1. CASE \E w \in Worker : run' = [run EXCEPT ![w] = IdleRun]
    BY <1>0, <2>1
  <2>2. CASE \E w \in Worker, p \in Package : StartBuild(w, p)
    BY <1>0, <2>2 DEF StartBuild
  <2>3. CASE \E w \in Worker : Compose(w) \/ PutPackage(w) \/ SelectOlder(w)
    BY <1>0, <2>3 DEF Compose, PutPackage, SelectOlder
  <2>4. CASE \E w \in Worker : SupersedeOlder(w) \/ MarkReady(w)
    BY <1>0, <2>4 DEF SupersedeOlder, MarkReady
  <2>5. CASE run' = run
    BY <1>0, <2>5
  <2>6. QED
    BY <2>1, <2>2, <2>3, <2>4, <2>5
    DEF Next, vars, siteVars, RequestStep, TakeJob, RunStep, CheckNotClosed, NextVersion,
        InsertVersion, EnqueueBuild, HttpFails, CloseSchedule, EditBank, SkipReady, ComposeFails,
        CompleteJob, BuildThrows, WorkerCrash, EndRun, RecoverStalled, SelectPackage, FetchObject
<1>2. ASSUME NEW w \in Worker PROVE run'[w] \in Run
  <2>1. run[w] \in Run /\ IdleRun \in Run /\ Ready \subseteq Package
    BY <1>0 DEF IdleRun, Ready
  <2>2. \A p \in Package : [IdleRun EXCEPT !.pc = "compose", !.job = p] \in Run
    BY <2>1
  <2>3. /\ [run[w] EXCEPT !.pc = "put", !.content = bank] \in Run
        /\ [run[w] EXCEPT !.pc = "supersede"] \in Run
        /\ [run[w] EXCEPT !.pc = "done"] \in Run
    BY <1>0, <2>1
  <2>4. /\ [run[w] EXCEPT !.pc = "lock", !.older = Ready \ {run[w].job}] \in Run
        /\ [run[w] EXCEPT !.pc = "ready", !.older = run[w].older \cap Ready] \in Run
    BY <2>1
  <2> HIDE DEF Run
  <2>5. QED
    BY <1>0, <2>1, <2>2, <2>3, <2>4, RunStepOf
<1>3. QED
  BY <1>0, <1>1, <1>2

LEMMA HttpTyped ==
  ASSUME IndInv, [Next]_vars
  PROVE  http' \in [Http -> [pc : {"idle", "begin", "insert", "enqueue"},
                             version : 0..Cardinality(Package), job : Package \cup {None}]]
<1> DEFINE Request == [pc : {"idle", "begin", "insert", "enqueue"},
                       version : 0..Cardinality(Package), job : Package \cup {None}]
<1>0. http \in [Http -> Request] /\ VersionsInOrder /\ Cardinality(Package) \in Nat
  BY Finiteness DEF IndInv, TypeOK
<1>1. ASSUME NEW h \in Http, CheckNotClosed(h) PROVE http' \in [Http -> Request]
  <2>1. [http[h] EXCEPT !.pc = "begin"] \in Request
    BY <1>0
  <2>2. QED
    BY <1>0, <1>1, <2>1 DEF CheckNotClosed
<1>2. ASSUME NEW h \in Http, NextVersion(h) PROVE http' \in [Http -> Request]
  <2>1. Cardinality(Existing) + 1 \in 0..Cardinality(Package)
    BY <1>0, <1>2, IdForRequest DEF NextVersion
  <2>2. [http[h] EXCEPT !.pc = "insert", !.version = Cardinality(Existing) + 1] \in Request
    BY <1>0, <2>1
  <2>3. QED
    BY <1>0, <1>2, <2>2, NextNumber DEF NextVersion
<1>3. ASSUME NEW h \in Http, InsertVersion(h) PROVE http' \in [Http -> Request]
  <2>1. \A p \in Package : [http[h] EXCEPT !.pc = "enqueue", !.job = p] \in Request
    BY <1>0
  <2>2. QED
    <3>1. PICK p \in Package : http' = [http EXCEPT ![h].pc = "enqueue", ![h].job = p]
      BY <1>3 DEF InsertVersion
    <3>2. http' = [http EXCEPT ![h] = [http[h] EXCEPT !.pc = "enqueue", !.job = p]]
      BY <1>0, <3>1
    <3>3. QED
      BY <1>0, <2>1, <3>2
<1>4. ASSUME NEW h \in Http, http' = [http EXCEPT ![h] = IdleRequest]
      PROVE  http' \in [Http -> Request]
  BY <1>0, <1>4 DEF IdleRequest
<1>5. QED
  BY <1>0, <1>1, <1>2, <1>3, <1>4, RequestsStep

LEMMA PackagesTyped ==
  ASSUME IndInv, [Next]_vars
  PROVE  /\ packages' \in [Package -> PackageRow \cup {None}]
         /\ objects' \in [Package -> Edition \cup {None}]
         /\ \A p \in Package : HasStatus(p, "ready")' \/ HasStatus(p, "superseded")' =>
              packages'[p].content \in Edition
<1>0. /\ TypeOK /\ packages \in [Package -> PackageRow \cup {None}] /\ VersionsInOrder
      /\ objects \in [Package -> Edition \cup {None}] /\ \A w \in Worker : RunInOrder(w)
      /\ \A w \in Worker : run[w].content \in Edition \cup {None}
  BY DEF IndInv, TypeOK
<1>1. packages' = [p \in Package |-> packages'[p]]
  BY <1>0
  DEF Next, vars, siteVars, RequestStep, TakeJob, RunStep, CheckNotClosed, NextVersion,
      InsertVersion, EnqueueBuild, HttpFails, CloseSchedule, EditBank, SkipReady, StartBuild,
      Compose, ComposeFails, PutPackage, SelectOlder, SupersedeOlder, MarkReady, CompleteJob,
      BuildThrows, WorkerCrash, RecoverStalled, SelectPackage, FetchObject
<1>2. ASSUME NEW p \in Package, NEW h \in Http, InsertVersion(h),
             packages'[p] = [version |-> http[h].version, status |-> "building", content |-> None]
      PROVE  /\ packages'[p] \in PackageRow /\ packages'[p].status = "building"
  <2>1. http[h].version \in 1..Cardinality(Package)
    BY <1>0, <1>2, IdForRequest DEF InsertVersion, VersionsInOrder
  <2>2. QED
    BY <1>2, <2>1 DEF PackageRow, PackageStatus
<1>3. ASSUME NEW p \in Package PROVE packages'[p] \in PackageRow \cup {None}
  BY <1>0, <1>2, PackagesStep DEF Rewritten
<1>4. ASSUME NEW p \in Package, HasStatus(p, "ready")' \/ HasStatus(p, "superseded")'
      PROVE  packages'[p].content \in Edition
  <2>0. packages'[p] # None /\ packages'[p].status \in {"ready", "superseded"}
    BY <1>4 DEF HasStatus, Exists
  <2>1. CASE packages'[p] = packages[p]
    BY <1>0, <2>0, <2>1 DEF TypeOK, HasStatus, Exists
  <2>2. CASE \E w \in Worker : MarkReady(w) /\ run[w].job = p /\ Rewritten(p, "ready", run[w].content)
    BY <1>0, <2>2 DEF Rewritten, MarkReady, RunInOrder
  <2>3. CASE \E w \in Worker : /\ MarkReady(w) /\ p \in run[w].older
                              /\ Rewritten(p, "superseded", packages[p].content)
    BY <1>0, <2>3 DEF Rewritten, MarkReady, RunInOrder
  <2>4. QED
    BY <1>2, <2>0, <2>1, <2>2, <2>3, PackagesStep DEF Rewritten
<1>5. objects' = [p \in Package |-> objects'[p]]
  BY <1>0
  DEF Next, vars, siteVars, RequestStep, TakeJob, RunStep, CheckNotClosed, NextVersion,
      InsertVersion, EnqueueBuild, HttpFails, CloseSchedule, EditBank, SkipReady, StartBuild,
      Compose, ComposeFails, PutPackage, SelectOlder, SupersedeOlder, MarkReady, CompleteJob,
      BuildThrows, WorkerCrash, RecoverStalled, SelectPackage, FetchObject
<1>6. \A p \in Package : objects'[p] \in Edition \cup {None}
  BY <1>0, ObjectsStep
<1>7. QED
  BY <1>1, <1>3, <1>4, <1>5, <1>6

LEMMA SiteTyped ==
  ASSUME IndInv, [Next]_vars
  PROVE  /\ fetching' \in [Device -> [package : Package, checksum : Edition] \cup {None}]
         /\ downloads' \subseteq [package : Package, checksum : Edition, content : Edition]
         /\ schedule' \in ScheduleStatus /\ bank' \in Edition
         /\ rebuilt' \subseteq Package /\ faults' \in 0..MaxFaults
<1>0. TypeOK /\ ContentHasObject
  BY DEF IndInv
<1>1. CASE \E d \in Device : SelectPackage(d)
  <2> PICK d \in Device : SelectPackage(d)
    BY <1>1
  <2>1. PICK p \in Ready :
          fetching' = [fetching EXCEPT ![d] = [package |-> p, checksum |-> packages[p].content]]
    BY DEF SelectPackage
  <2>2. p \in Package /\ packages[p].content \in Edition
    BY <1>0 DEF TypeOK, Ready
  <2>3. QED
    BY <1>0, <2>1, <2>2 DEF SelectPackage, TypeOK
<1>2. CASE \E d \in Device : FetchObject(d)
  <2> PICK d \in Device : FetchObject(d)
    BY <1>2
  <2>1. /\ fetching[d] \in [package : Package, checksum : Edition]
        /\ objects[fetching[d].package] \in Edition
    BY <1>0 DEF FetchObject, TypeOK, ContentHasObject
  <2>2. QED
    BY <1>0, <2>1 DEF FetchObject, TypeOK
<1>3. CASE UNCHANGED <<fetching, downloads>>
  <2>1. /\ fetching' \in [Device -> [package : Package, checksum : Edition] \cup {None}]
        /\ downloads' \subseteq [package : Package, checksum : Edition, content : Edition]
    BY <1>0, <1>3 DEF TypeOK
  <2>2. /\ schedule' \in {schedule, "published", "closed"}
        /\ bank' = bank \/ (bank < MaxEdits /\ bank' = bank + 1)
        /\ rebuilt' = rebuilt \/ \E p \in Package : rebuilt' = rebuilt \cup BuiltAgain(p)
        /\ faults' = faults \/ (faults < MaxFaults /\ faults' = faults + 1)
    BY <1>3
    DEF Next, vars, siteVars, RequestStep, TakeJob, RunStep, CheckNotClosed, NextVersion,
        InsertVersion, EnqueueBuild, HttpFails, CloseSchedule, EditBank, SkipReady, StartBuild,
        Compose, ComposeFails, PutPackage, SelectOlder, SupersedeOlder, MarkReady, CompleteJob,
        BuildThrows, WorkerCrash, RecoverStalled, SelectPackage, FetchObject, Fault
  <2>3. bank' \in Edition /\ faults' \in 0..MaxFaults
    BY <1>0, <2>2, ConstantsAssumption DEF TypeOK, Edition
  <2>4. rebuilt' \subseteq Package
    BY <1>0, <2>2 DEF TypeOK, BuiltAgain
  <2>5. QED
    BY <1>0, <2>1, <2>2, <2>3, <2>4 DEF TypeOK, ScheduleStatus
<1>4. QED
  BY <1>1, <1>2, <1>3
  DEF Next, vars, siteVars, RequestStep, TakeJob, RunStep, CheckNotClosed, NextVersion,
      InsertVersion, EnqueueBuild, HttpFails, CloseSchedule, EditBank, SkipReady, StartBuild,
      Compose, ComposeFails, PutPackage, SelectOlder, SupersedeOlder, MarkReady, CompleteJob,
      BuildThrows, WorkerCrash, RecoverStalled

LEMMA InitInv == Init => IndInv
<1> SUFFICES ASSUME Init PROVE IndInv
  OBVIOUS
<1>1. packages = [p \in Package |-> None] /\ http = [h \in Http |-> IdleRequest]
  BY DEF Init
<1>2. Existing = {} /\ Unused = Package /\ Versions = {} /\ Publishing = {}
  BY <1>1 DEF Existing, Unused, Versions, Publishing, Exists, IdleRequest
<1>3. Cardinality({}) = 0 /\ Cardinality(Package) \in Nat
  BY FS_EmptySet, Finiteness
<1>4. VersionsInOrder
  BY <1>1, <1>2, <1>3 DEF VersionsInOrder, IdleRequest
<1>5. TypeOK
  BY <1>3, ConstantsAssumption
  DEF Init, TypeOK, IdleRequest, IdleRun, HasStatus, Exists, Queue!Init, Queue!NotAdded,
      Queue!Job, ScheduleStatus, Edition
<1>6. QED
  BY <1>4, <1>5
  DEF Init, IndInv, RequestInOrder, RunInOrder, ContentHasObject, LocksAreExclusive, LockedBy,
      IdleRequest, IdleRun, Exists

LEMMA NextInv == IndInv /\ [Next]_vars => IndInv'
<1> SUFFICES ASSUME IndInv, [Next]_vars PROVE IndInv'
  OBVIOUS
<1>1. TypeOK'
  BY PackagesTyped, SiteTyped, JobsTyped, RunTyped, HttpTyped, OrderStep
  DEF TypeOK, IndInv, HasStatus, Exists
<1>2. QED
  BY <1>1, OrderStep, RunOrderStep, ObjectStays, LocksStep DEF IndInv

LEMMA Invariance == Spec => []IndInv
BY InitInv, NextInv, PTL DEF Spec

\* Rows, jobs, requests and runs are well formed, a ready or superseded version has its
\* content, and no two versions of the schedule have the same number, whatever publish
\* requests, builds and failures overlap.
THEOREM VersionsAreUnique == Spec => []TypeOK
<1>1. IndInv => TypeOK
  BY DEF IndInv
<1>2. QED
  BY <1>1, Invariance, PTL
-----------------------------------------------------------------------------
(* What was downloaded is what attempts are graded with.                   *)

\* A run that has a job had it before the step, or takes it.
LEMMA JobStep ==
  ASSUME IndInv, [Next]_vars, NEW w \in Worker, NEW p \in Package, run'[w].job = p
  PROVE  \/ run[w].job = p /\ (Building(w)' => Building(w))
         \/ StartBuild(w, p) /\ run[w] = IdleRun
<1>0. /\ TypeOK /\ RunInOrder(w) /\ None \notin Package
      /\ run[w] \in [pc : {"idle", "compose", "put", "supersede", "lock", "ready", "done"},
                     job : Package \cup {None}, content : Edition \cup {None},
                     older : SUBSET Package]
  BY NoneAssumption DEF IndInv, TypeOK
<1>1. CASE run'[w] = run[w]
  BY <1>1 DEF Building
<1>2. CASE \E q \in Package : StartBuild(w, q) /\ run[w] = IdleRun
                              /\ run'[w] = [IdleRun EXCEPT !.pc = "compose", !.job = q]
  BY <1>2 DEF IdleRun
<1>3. CASE run'[w] = IdleRun
  BY <1>0, <1>3 DEF IdleRun
<1>4. CASE \/ Compose(w) /\ run'[w] = [run[w] EXCEPT !.pc = "put", !.content = bank]
           \/ PutPackage(w) /\ run'[w] = [run[w] EXCEPT !.pc = "supersede"]
  <2>1. Building(w)
    BY <1>4 DEF Compose, PutPackage, Building
  <2>2. QED
    BY <1>0, <1>4, <2>1
<1>5. CASE \/ SelectOlder(w) /\ run'[w] = [run[w] EXCEPT !.pc = "lock", !.older = Ready \ {run[w].job}]
           \/ /\ SupersedeOlder(w)
              /\ run'[w] = [run[w] EXCEPT !.pc = "ready", !.older = run[w].older \cap Ready]
           \/ MarkReady(w) /\ run'[w] = [run[w] EXCEPT !.pc = "done"]
  <2>1. Building(w)
    BY <1>5 DEF SelectOlder, SupersedeOlder, MarkReady, Building
  <2>2. QED
    BY <1>0, <1>5, <2>1
<1>6. QED
  BY <1>0, <1>1, <1>2, <1>3, <1>4, <1>5, RunStepOf

LEMMA LockedByStep ==
  ASSUME IndInv, [Next]_vars, NEW w \in Worker
  PROVE  \/ LockedBy(w)' = LockedBy(w) /\ ~MarkReady(w)
         \/ LockedBy(w)' = {}
         \/ SupersedeOlder(w) /\ LockedBy(w)' \subseteq run[w].older \cap Ready
<1>0. /\ TypeOK
      /\ run \in [Worker -> [pc : {"idle", "compose", "put", "supersede", "lock", "ready", "done"},
                             job : Package \cup {None}, content : Edition \cup {None},
                             older : SUBSET Package]]
  BY DEF IndInv, TypeOK
<1>1. CASE run'[w] = run[w]
  <2>1. ~MarkReady(w)
    <3> SUFFICES ASSUME MarkReady(w) PROVE FALSE
      OBVIOUS
    <3>1. run[w].pc = "ready" /\ run' = [run EXCEPT ![w].pc = "done"]
      BY DEF MarkReady
    <3>2. run'[w].pc = "done"
      BY <1>0, <3>1
    <3>3. QED
      BY <1>1, <3>1, <3>2
  <2>2. QED
    BY <1>1, <2>1 DEF LockedBy
<1>2. CASE run'[w].pc # "ready"
  BY <1>2 DEF LockedBy
<1>3. CASE SupersedeOlder(w) /\ run'[w] = [run[w] EXCEPT !.pc = "ready",
                                                       !.older = run[w].older \cap Ready]
  BY <1>0, <1>3 DEF LockedBy
<1>4. CASE \E p \in Package : run'[w] = [IdleRun EXCEPT !.pc = "compose", !.job = p]
  BY <1>2, <1>4 DEF IdleRun
<1>5. CASE \/ run'[w] = [run[w] EXCEPT !.pc = "put", !.content = bank]
           \/ run'[w] = [run[w] EXCEPT !.pc = "supersede"]
           \/ run'[w] = [run[w] EXCEPT !.pc = "lock", !.older = Ready \ {run[w].job}]
           \/ run'[w] = [run[w] EXCEPT !.pc = "done"]
  BY <1>0, <1>2, <1>5
<1>6. CASE run'[w] = IdleRun
  BY <1>2, <1>6 DEF IdleRun
<1>7. QED
  BY <1>0, <1>1, <1>3, <1>4, <1>5, <1>6, RunStepOf

\* A build that starts is the first of its version, or the version counts as built again.
LEMMA FirstBuild ==
  ASSUME [Next]_vars, NEW w \in Worker, NEW p \in Package, p \notin rebuilt', StartBuild(w, p)
  PROVE  ~Published(p) /\ \A v \in Worker : run[v].job # p
BY DEF StartBuild, BuiltAgain, Published, HasStatus

LEMMA RebuiltGrows ==
  ASSUME [Next]_vars
  PROVE  rebuilt \subseteq rebuilt'
BY DEF Next, vars, siteVars, RequestStep, TakeJob, RunStep, CheckNotClosed, NextVersion,
       InsertVersion, EnqueueBuild, HttpFails, CloseSchedule, EditBank, SkipReady, StartBuild,
       Compose, ComposeFails, PutPackage, SelectOlder, SupersedeOlder, MarkReady, CompleteJob,
       BuildThrows, WorkerCrash, RecoverStalled, SelectPackage, FetchObject

\* A version that is published and not built again stays as it is.
LEMMA PublishedStays ==
  ASSUME IndInv, [Next]_vars, NEW p \in Package, p \notin rebuilt', Sealed(p), Published(p)
  PROVE  /\ Published(p)' /\ packages'[p].content = packages[p].content
         /\ objects'[p] = objects[p]
<1>1. \A w \in Worker : run[w].job = p => ~Building(w)
  BY DEF Sealed
<1>2. Exists(p) /\ TypeOK
  BY DEF Published, HasStatus, IndInv
<1>3. Published(p)' /\ packages'[p].content = packages[p].content
  <2>1. CASE packages'[p] = packages[p]
    BY <2>1 DEF Published, HasStatus, Exists
  <2>2. ASSUME NEW w \in Worker, MarkReady(w), run[w].job = p PROVE FALSE
    BY <1>1, <2>2 DEF MarkReady, Building
  <2>3. CASE Rewritten(p, "superseded", packages[p].content)
    BY <2>3 DEF Rewritten, Published, HasStatus, Exists
  <2>4. QED
    BY <1>1, <1>2, <2>1, <2>2, <2>3, PackagesStep
<1>4. objects'[p] = objects[p]
  BY <1>1, <1>2, ObjectsStep DEF PutPackage, Building
<1>5. QED
  BY <1>3, <1>4

LEMMA SealedStep ==
  ASSUME IndInv, SealedInv, [Next]_vars, NEW p \in Package, p \notin rebuilt'
  PROVE  Sealed(p)'
<1>0. /\ TypeOK /\ Sealed(p) /\ LocksAreExclusive
      /\ \A w \in Worker : RunInOrder(w)
  BY RebuiltGrows DEF IndInv, SealedInv
<1>1. ASSUME NEW v \in Worker, NEW w \in Worker, run'[v].job = p, run'[w].job = p
      PROVE  v = w
  <2>1. CASE run[v].job = p /\ run[w].job = p
    BY <1>0, <2>1 DEF Sealed
  <2>2. ASSUME NEW x \in Worker, NEW y \in Worker, x # y, StartBuild(x, p), run'[y].job = p
        PROVE  FALSE
    <3>1. run'[y] = run[y]
      BY <1>0, <2>2 DEF StartBuild, TypeOK
    <3>2. run[y].job # p
      BY <2>2, FirstBuild
    <3>3. QED
      BY <2>2, <3>1, <3>2
  <2>3. QED
    BY <1>1, <2>1, <2>2, JobStep
<1>2. ASSUME Published(p)'
      PROVE  /\ objects'[p] = packages'[p].content
             /\ \A w \in Worker : run'[w].job = p => ~Building(w)'
  <2>1. CASE Published(p)
    <3>1. objects'[p] = packages'[p].content
      BY <1>0, <2>1, PublishedStays DEF Sealed
    <3>2. ASSUME NEW w \in Worker, run'[w].job = p, Building(w)' PROVE FALSE
      <4>1. run[w].job # p \/ ~Building(w)
        BY <1>0, <2>1 DEF Sealed
      <4>2. ~StartBuild(w, p)
        BY <2>1, FirstBuild
      <4>3. QED
        BY <3>2, <4>1, <4>2, JobStep
    <3>3. QED
      BY <3>1, <3>2
  <2>2. ASSUME NEW w \in Worker, MarkReady(w), run[w].job = p,
               Rewritten(p, "ready", run[w].content)
        PROVE  /\ objects'[p] = packages'[p].content
               /\ \A v \in Worker : run'[v].job = p => ~Building(v)'
    <3>1. objects' = objects /\ objects[p] = run[w].content
      BY <1>0, <2>2 DEF MarkReady, Sealed
    <3>2. run'[w].pc = "done"
      BY <1>0, <2>2 DEF MarkReady, TypeOK
    <3>3. ASSUME NEW v \in Worker, run'[v].job = p PROVE ~Building(v)'
      <4>1. run[v].job = p
        BY <2>2, <3>3, FirstBuild, JobStep
      <4>2. v = w
        BY <1>0, <2>2, <4>1 DEF Sealed
      <4>3. QED
        BY <3>2, <4>2 DEF Building
    <3>4. QED
      BY <2>2, <3>1, <3>3 DEF Rewritten
  <2>3. CASE ~Published(p)
    <3>1. packages'[p] # None /\ packages'[p].status \in {"ready", "superseded"}
      BY <1>2 DEF Published, HasStatus, Exists
    <3>2. packages'[p] # packages[p]
      BY <2>3, <3>1 DEF Published, HasStatus, Exists
    <3>3. ~\E h \in Http : packages'[p] = [version |-> http[h].version, status |-> "building",
                                          content |-> None]
      <4> SUFFICES ASSUME NEW n, packages'[p] = [version |-> n, status |-> "building",
                                                 content |-> None]
                   PROVE  FALSE
        OBVIOUS
      <4>1. packages'[p].status = "building"
        OBVIOUS
      <4>2. QED
        BY <3>1, <4>1
    <3>4. ASSUME NEW w \in Worker, MarkReady(w), p \in run[w].older PROVE FALSE
      <4>1. p \in LockedBy(w)
        BY <3>4 DEF MarkReady, LockedBy
      <4>2. QED
        BY <1>0, <2>3, <4>1 DEF Sealed, Published
    <3>5. \E w \in Worker : /\ MarkReady(w) /\ run[w].job = p
                            /\ Rewritten(p, "ready", run[w].content)
      BY <3>1, <3>2, <3>3, <3>4, PackagesStep DEF Rewritten
    <3>6. QED
      BY <2>2, <3>5
  <2>4. QED
    BY <2>1, <2>3
<1>3. ASSUME NEW w \in Worker, run'[w].job = p, run'[w].pc \in {"supersede", "lock", "ready"}
      PROVE  objects'[p] = run'[w].content
  <2>0. /\ None \notin Package
        /\ run[w] \in [pc : {"idle", "compose", "put", "supersede", "lock", "ready", "done"},
                       job : Package \cup {None}, content : Edition \cup {None},
                       older : SUBSET Package]
    BY <1>0, NoneAssumption DEF TypeOK
  <2>1. ASSUME run[w].pc \in {"supersede", "lock", "ready"}, run[w].job = p,
               run'[w].content = run[w].content
        PROVE  objects'[p] = run'[w].content
    <3>1. ASSUME NEW v \in Worker, PutPackage(v), run[v].job = p PROVE FALSE
      <4>1. v = w
        BY <1>0, <2>1, <3>1 DEF Sealed
      <4>2. QED
        BY <2>1, <3>1, <4>1 DEF PutPackage
    <3>2. objects'[p] = objects[p]
      BY <1>0, <3>1, ObjectsStep
    <3>3. QED
      BY <1>0, <2>1, <3>2 DEF Sealed
  <2>2. CASE run'[w] = run[w]
    BY <1>3, <2>1, <2>2
  <2>3. CASE PutPackage(w) /\ run'[w] = [run[w] EXCEPT !.pc = "supersede"]
    <3>1. run'[w].content = run[w].content /\ run'[w].job = run[w].job
      BY <2>0, <2>3
    <3>2. objects' = [objects EXCEPT ![p] = run[w].content]
      BY <1>3, <2>3, <3>1 DEF PutPackage
    <3>3. QED
      BY <1>0, <3>1, <3>2 DEF TypeOK
  <2>4. CASE SelectOlder(w) /\ run'[w] = [run[w] EXCEPT !.pc = "lock", !.older = Ready \ {run[w].job}]
    <3>1. run'[w].content = run[w].content /\ run'[w].job = run[w].job /\ run[w].pc = "supersede"
      BY <2>0, <2>4 DEF SelectOlder
    <3>2. QED
      BY <1>3, <2>1, <3>1
  <2>5. CASE /\ SupersedeOlder(w)
             /\ run'[w] = [run[w] EXCEPT !.pc = "ready", !.older = run[w].older \cap Ready]
    <3>1. run'[w].content = run[w].content /\ run'[w].job = run[w].job /\ run[w].pc = "lock"
      BY <2>0, <2>5 DEF SupersedeOlder
    <3>2. QED
      BY <1>3, <2>1, <3>1
  <2>6. CASE \/ run'[w] = IdleRun
             \/ \E q \in Package : run'[w] = [IdleRun EXCEPT !.pc = "compose", !.job = q]
    <3>1. IdleRun.pc = "idle"
      BY DEF IdleRun
    <3>2. \A q \in Package : [IdleRun EXCEPT !.pc = "compose", !.job = q].pc = "compose"
      BY DEF IdleRun
    <3>3. run'[w].pc \in {"idle", "compose"}
      BY <2>6, <3>1, <3>2
    <3>4. QED
      BY <1>3, <3>3
  <2>7. CASE \/ run'[w] = [run[w] EXCEPT !.pc = "put", !.content = bank]
             \/ run'[w] = [run[w] EXCEPT !.pc = "done"]
    BY <1>3, <2>0, <2>7
  <2>8. QED
    BY <1>0, <2>2, <2>3, <2>4, <2>5, <2>6, <2>7, RunStepOf
<1>4. ASSUME NEW w \in Worker, p \in LockedBy(w)'
      PROVE  HasStatus(p, "ready")'
  <2>1. CASE SupersedeOlder(w) /\ p \in Ready
    BY <2>1 DEF SupersedeOlder, Ready, HasStatus, Exists
  <2>2. CASE LockedBy(w)' = LockedBy(w) /\ ~MarkReady(w)
    <3>1. HasStatus(p, "ready") /\ Published(p) /\ Exists(p) /\ p \in LockedBy(w)
      BY <1>0, <1>4, <2>2 DEF Sealed, Published, HasStatus
    <3>2. \A v \in Worker : run[v].job = p => ~Building(v)
      BY <1>0, <3>1 DEF Sealed
    <3>3. ASSUME NEW v \in Worker, MarkReady(v), p \in run[v].older PROVE FALSE
      <4>1. v # w
        BY <2>2, <3>3
      <4>2. p \in LockedBy(v)
        BY <3>3 DEF MarkReady, LockedBy
      <4>3. QED
        BY <1>0, <3>1, <4>1, <4>2 DEF LocksAreExclusive, IndInv
    <3>4. ASSUME NEW v \in Worker, MarkReady(v), run[v].job = p PROVE FALSE
      BY <3>2, <3>4 DEF MarkReady, Building
    <3>5. packages'[p] = packages[p]
      BY <3>1, <3>2, <3>3, <3>4, PackagesStep
    <3>6. QED
      BY <3>1, <3>5 DEF HasStatus, Exists
  <2>3. QED
    BY <1>4, <2>1, <2>2, LockedByStep
<1>5. ASSUME NEW d \in Device, fetching'[d] # None, fetching'[d].package = p
      PROVE  Published(p)' /\ fetching'[d].checksum = packages'[p].content
  <2>0. fetching \in [Device -> [package : Package, checksum : Edition] \cup {None}]
    BY <1>0 DEF TypeOK
  <2>1. \/ fetching' = fetching
        \/ \E e \in Device : FetchObject(e)
        \/ \E e \in Device : SelectPackage(e)
    BY DEF Next, vars, siteVars, RequestStep, TakeJob, RunStep, CheckNotClosed, NextVersion,
           InsertVersion, EnqueueBuild, HttpFails, CloseSchedule, EditBank, SkipReady, StartBuild,
           Compose, ComposeFails, PutPackage, SelectOlder, SupersedeOlder, MarkReady, CompleteJob,
           BuildThrows, WorkerCrash, RecoverStalled
  <2>2. CASE fetching'[d] = fetching[d]
    <3>1. Published(p) /\ fetching[d].checksum = packages[p].content
      BY <1>0, <1>5, <2>2 DEF Sealed
    <3>2. QED
      BY <1>0, <2>2, <3>1, PublishedStays
  <2>3. CASE SelectPackage(d)
    <3>1. PICK q \in Ready :
            fetching' = [fetching EXCEPT ![d] = [package |-> q, checksum |-> packages[q].content]]
      BY <2>3 DEF SelectPackage
    <3>2. q = p /\ fetching'[d].checksum = packages[p].content
      BY <1>5, <2>0, <3>1
    <3>3. packages' = packages
      BY <2>3 DEF SelectPackage
    <3>4. QED
      BY <3>1, <3>2, <3>3 DEF Ready, Published, HasStatus, Exists
  <2>4. QED
    BY <1>5, <2>0, <2>1, <2>2, <2>3 DEF SelectPackage, FetchObject
<1>6. ASSUME NEW d \in downloads', d.package = p
      PROVE  /\ Published(p)'
             /\ d.checksum = packages'[p].content /\ d.content = packages'[p].content
  <2>1. CASE d \in downloads
    BY <1>0, <1>6, <2>1, PublishedStays DEF Sealed
  <2>2. CASE d \notin downloads
    <3>1. PICK e \in Device : FetchObject(e)
      BY <1>6, <2>2
      DEF Next, vars, siteVars, RequestStep, TakeJob, RunStep, CheckNotClosed, NextVersion,
          InsertVersion, EnqueueBuild, HttpFails, CloseSchedule, EditBank, SkipReady, StartBuild,
          Compose, ComposeFails, PutPackage, SelectOlder, SupersedeOlder, MarkReady, CompleteJob,
          BuildThrows, WorkerCrash, RecoverStalled, SelectPackage
    <3>2. /\ fetching[e] # None /\ packages' = packages
          /\ d = [package |-> fetching[e].package, checksum |-> fetching[e].checksum,
                  content |-> objects[fetching[e].package]]
      BY <1>6, <2>2, <3>1 DEF FetchObject
    <3>3. fetching[e].package = p /\ d.checksum = fetching[e].checksum /\ d.content = objects[p]
      BY <1>6, <3>2
    <3>4. Published(p) /\ fetching[e].checksum = packages[p].content /\ objects[p] = packages[p].content
      BY <1>0, <3>2, <3>3 DEF Sealed
    <3>5. QED
      BY <3>2, <3>3, <3>4 DEF Published, HasStatus, Exists
  <2>3. QED
    BY <2>1, <2>2
<1>7. QED
  BY <1>1, <1>2, <1>3, <1>4, <1>5, <1>6 DEF Sealed, Published, HasStatus, Exists, Building

\* What a site downloaded is what its checksum says, and the server keeps the answer keys
\* of exactly that package, which its attempts are graded with; whatever fails, is retried
\* or overlaps, unless the version was built again after it was superseded or while it was
\* being built (the run PackagePublish_rebuilt shows that this happens).
THEOREM KeysMatchDownloads == Spec => []KeysMatchUnlessRebuilt
<1>1. Init => SealedInv
  BY NoneAssumption
  DEF Init, SealedInv, Sealed, Published, HasStatus, Exists, LockedBy, IdleRun
<1>2. IndInv /\ SealedInv /\ [Next]_vars => SealedInv'
  BY SealedStep DEF SealedInv
<1>3. IndInv /\ SealedInv => KeysMatchUnlessRebuilt
  BY DEF IndInv, TypeOK, SealedInv, Sealed, KeysMatchUnlessRebuilt
<1>4. QED
  BY <1>1, <1>2, <1>3, Invariance, PTL DEF Spec
-----------------------------------------------------------------------------
(* Ready versions, while no lock of a job expires under a slot that is     *)
(* only slow: one slot builds a version, and owns its job.                 *)

OwnedInv == \A w \in Worker : BuildIsOwned(w)

\* The job of a slot that goes on is taken from it only by RecoverStalled.
LEMMA JobKept ==
  ASSUME IndInv, [Next]_vars, NEW w \in Worker, NEW p \in Package, Queue!Owns(w, p),
         run[w].job = p => run'[w] # IdleRun
  PROVE  Queue!Owns(w, p)' \/ RecoverStalled(p)
<1>0. /\ jobs \in [Package -> Queue!Job] /\ jobs[p].state = "active" /\ jobs[p].owner = w
      /\ run \in [Worker -> [pc : {"idle", "compose", "put", "supersede", "lock", "ready", "done"},
                             job : Package \cup {None}, content : Edition \cup {None},
                             older : SUBSET Package]]
  BY DEF IndInv, TypeOK, Queue!Owns
<1>1. \/ jobs' = jobs
      \/ \E h \in Http : EnqueueBuild(h)
      \/ \E v \in Worker, q \in Package : SkipReady(v, q) \/ StartBuild(v, q)
      \/ \E v \in Worker : /\ Queue!Complete(v, run[v].job) \/ Queue!Throw(v, run[v].job)
                           /\ run' = [run EXCEPT ![v] = IdleRun]
      \/ \E q \in Package : RecoverStalled(q)
  BY DEF Next, vars, siteVars, RequestStep, TakeJob, RunStep, CheckNotClosed, NextVersion,
         InsertVersion, HttpFails, CloseSchedule, EditBank, Compose, ComposeFails, PutPackage,
         SelectOlder, SupersedeOlder, MarkReady, CompleteJob, BuildThrows, WorkerCrash, EndRun,
         SelectPackage, FetchObject
<1>2. SUFFICES ASSUME jobs'[p] # jobs[p] PROVE Queue!Owns(w, p)' \/ RecoverStalled(p)
  BY <1>0 DEF Queue!Owns
<1>3. CASE \E h \in Http : EnqueueBuild(h)
  <2> PICK h \in Http : EnqueueBuild(h)
    BY <1>3
  <2>1. jobs' = [jobs EXCEPT ![http[h].job].state = IF @ = "none" THEN "waiting" ELSE @]
    BY DEF EnqueueBuild, Queue!Add
  <2>2. CASE http[h].job = p
    <3>1. jobs'[p] = [jobs[p] EXCEPT !.state = jobs[p].state]
      BY <1>0, <2>1, <2>2
    <3>2. jobs[p] \in Queue!Job
      BY <1>0
    <3>3. QED
      BY <1>2, <3>1, <3>2 DEF Queue!Job
  <2>3. CASE http[h].job # p
    BY <1>0, <1>2, <2>1, <2>3
  <2>4. QED
    BY <2>2, <2>3
<1>4. CASE \E v \in Worker, q \in Package : SkipReady(v, q) \/ StartBuild(v, q)
  <2> PICK v \in Worker, q \in Package : SkipReady(v, q) \/ StartBuild(v, q)
    BY <1>4
  <2>1. jobs[q].state = "waiting"
    BY DEF SkipReady, StartBuild, Queue!Take
  <2>2. q # p
    BY <1>0, <2>1
  <2>3. QED
    BY <1>0, <1>2, <2>2 DEF SkipReady, StartBuild, Queue!Take
<1>5. CASE \E v \in Worker : /\ Queue!Complete(v, run[v].job) \/ Queue!Throw(v, run[v].job)
                             /\ run' = [run EXCEPT ![v] = IdleRun]
  <2> PICK v \in Worker : /\ Queue!Complete(v, run[v].job) \/ Queue!Throw(v, run[v].job)
                          /\ run' = [run EXCEPT ![v] = IdleRun]
    BY <1>5
  <2>1. CASE ~Queue!Owns(v, run[v].job)
    BY <1>2, <2>1 DEF Queue!Complete, Queue!Throw
  <2>2. CASE Queue!Owns(v, run[v].job) /\ run[v].job = p
    <3>1. v = w
      BY <1>0, <2>2 DEF Queue!Owns
    <3>2. run'[w] = IdleRun
      BY <1>0, <3>1
    <3>3. QED
      BY <2>2, <3>1, <3>2
  <2>3. CASE run[v].job # p
    BY <1>0, <1>2, <2>3 DEF Queue!Complete, Queue!Throw
  <2>4. QED
    BY <2>1, <2>2, <2>3
<1>6. CASE \E q \in Package : RecoverStalled(q)
  <2> PICK q \in Package : RecoverStalled(q)
    BY <1>6
  <2>1. CASE q = p
    BY <2>1
  <2>2. CASE q # p
    BY <1>0, <1>2, <2>2 DEF RecoverStalled, Queue!Stall
  <2>3. QED
    BY <2>1, <2>2
<1>7. QED
  BY <1>1, <1>2, <1>3, <1>4, <1>5, <1>6

LEMMA OwnedStep ==
  ASSUME "stall" \notin Environment, IndInv, OwnedInv, [Next]_vars, NEW w \in Worker
  PROVE  BuildIsOwned(w)'
<1>0. /\ TypeOK /\ IndInv'
      /\ run[w].job \in Package \cup {None} /\ run'[w].job \in Package \cup {None}
      /\ RunInOrder(w) /\ RunInOrder(w)' /\ None \notin Package
      /\ \A v \in Worker : BuildIsOwned(v)
  BY NextInv, NoneAssumption DEF IndInv, TypeOK, OwnedInv
<1>1. SUFFICES ASSUME run'[w].pc # "idle" PROVE BuildIsOwned(w)'
  BY <1>1 DEF BuildIsOwned, Building
<1>2. PICK p \in Package : run'[w].job = p
  BY <1>0, <1>1 DEF RunInOrder
<1>3. CASE StartBuild(w, p)
  <2>1. Queue!Take(w, p) /\ packages' = packages /\ ~HasStatus(p, "ready")
    BY <1>3 DEF StartBuild, HasStatus
  <2>2. jobs \in [Package -> Queue!Job]
    BY <1>0 DEF TypeOK
  <2>3. jobs'[p] = [jobs[p] EXCEPT !.state = "active", !.owner = w] /\ jobs[p] \in Queue!Job
    BY <2>1, <2>2 DEF Queue!Take
  <2>4. jobs'[p].state = "active" /\ jobs'[p].owner = w
    BY <2>3 DEF Queue!Job
  <2>5. QED
    BY <1>2, <2>1, <2>4 DEF BuildIsOwned, Queue!Owns, HasStatus, Exists
<1>4. CASE run[w].job = p /\ (Building(w)' => Building(w))
  <2>1. Queue!Owns(w, p) /\ (Building(w) => ~HasStatus(p, "ready"))
    BY <1>0, <1>4 DEF BuildIsOwned, RunInOrder
  <2>2. ~RecoverStalled(p)
    <3>1. Alive(p)
      BY <1>4, <2>1 DEF Alive
    <3>2. QED
      BY <3>1 DEF RecoverStalled, Fault
  <2>3. run'[w] # IdleRun
    BY <1>1 DEF IdleRun
  <2>4. Queue!Owns(w, p)'
    BY <2>1, <2>2, <2>3, JobKept
  <2>5. ASSUME Building(w)', HasStatus(p, "ready")' PROVE FALSE
    <3>1. ~HasStatus(p, "ready") /\ packages'[p] # None /\ packages'[p].status = "ready"
      BY <1>4, <2>1, <2>5 DEF HasStatus, Exists
    <3>2. ~\E h \in Http : packages'[p] = [version |-> http[h].version, status |-> "building",
                                           content |-> None]
      <4> SUFFICES ASSUME NEW n, packages'[p] = [version |-> n, status |-> "building",
                                                 content |-> None]
                   PROVE  FALSE
        OBVIOUS
      <4>1. packages'[p].status = "building"
        OBVIOUS
      <4>2. QED
        BY <3>1, <4>1
    <3>3. PICK v \in Worker : MarkReady(v) /\ run[v].job = p
      BY <3>1, <3>2, PackagesStep DEF Rewritten, HasStatus, Exists
    <3>4. Queue!Owns(v, p)
      BY <1>0, <3>3 DEF BuildIsOwned, MarkReady
    <3>5. v = w
      BY <2>1, <3>4 DEF Queue!Owns
    <3>6. run'[w].pc = "done"
      BY <1>0, <3>3, <3>5 DEF MarkReady, TypeOK
    <3>7. QED
      BY <2>5, <3>6 DEF Building
  <2>6. QED
    BY <1>2, <2>4, <2>5 DEF BuildIsOwned
<1>5. QED
  BY <1>2, <1>3, <1>4, JobStep

LEMMA OwnedInvariance ==
  ASSUME "stall" \notin Environment
  PROVE  Spec => []OwnedInv
<1>1. Init => OwnedInv
  BY DEF Init, OwnedInv, BuildIsOwned, Building, IdleRun
<1>2. IndInv /\ OwnedInv /\ [Next]_vars => OwnedInv'
  BY OwnedStep DEF OwnedInv
<1>3. QED
  BY <1>1, <1>2, Invariance, PTL DEF Spec

\* Nobody fails, rebuilds or republishes a version that is ready: it stays as it is until a
\* newer version becomes ready in the same transaction.
LEMMA ReadyStep ==
  ASSUME IndInv, OwnedInv, [Next]_vars, NEW p \in Ready
  PROVE  /\ objects'[p] = objects[p]
         /\ \/ packages'[p] = packages[p]
            \/ \E q \in Package : q # p /\ q \in Ready' /\ p \notin Ready'
<1>0. /\ p \in Package /\ HasStatus(p, "ready") /\ Exists(p)
      /\ TypeOK /\ \A w \in Worker : RunInOrder(w) /\ BuildIsOwned(w)
  BY DEF Ready, HasStatus, IndInv, OwnedInv
<1>1. \A w \in Worker : run[w].job = p => ~Building(w)
  BY <1>0 DEF BuildIsOwned
<1>2. \A w \in Worker : PutPackage(w) \/ MarkReady(w) => run[w].job # p
  BY <1>1 DEF Building, PutPackage, MarkReady
<1>3. objects'[p] = objects[p]
  BY <1>0, <1>2, ObjectsStep
<1>4. ASSUME NEW w \in Worker, MarkReady(w), p \in run[w].older,
             Rewritten(p, "superseded", packages[p].content)
      PROVE  \E q \in Package : q # p /\ q \in Ready' /\ p \notin Ready'
  <2>1. PICK q \in Package : q = run[w].job
    BY <1>0, <1>4, NoneAssumption DEF RunInOrder, MarkReady, TypeOK
  <2>0. /\ run[w].pc = "ready"
        /\ packages' = [r \in Package |->
             CASE r = q -> [packages[q] EXCEPT !.status = "ready", !.content = run[w].content]
               [] r \in run[w].older -> [packages[r] EXCEPT !.status = "superseded"]
               [] OTHER -> packages[r]]
    BY <1>4, <2>1 DEF MarkReady
  <2>2. /\ q # p /\ q \notin run[w].older
        /\ packages[q] \in PackageRow
    <3>1. q # p
      BY <1>2, <1>4, <2>1
    <3>2. Exists(q) /\ q \notin run[w].older
      BY <1>0, <2>0, <2>1 DEF RunInOrder
    <3>3. packages \in [Package -> PackageRow \cup {None}]
      BY <1>0 DEF TypeOK
    <3>4. QED
      BY <3>1, <3>2, <3>3 DEF Exists
  <2>3. packages'[q] = [packages[q] EXCEPT !.status = "ready", !.content = run[w].content]
    BY <2>0, <2>2
  <2>4. run[w].content \in Edition
    BY <1>0, <1>4 DEF RunInOrder, MarkReady
  <2>5. packages'[q] # None /\ packages'[q].status = "ready"
    <3>1. packages'[q] \in PackageRow
      BY <2>2, <2>3, <2>4 DEF PackageRow, PackageStatus
    <3>2. packages'[q].status = "ready"
      BY <2>2, <2>3 DEF PackageRow
    <3>3. QED
      BY <3>1, <3>2, NoneAssumption
  <2>6. q \in Ready'
    BY <2>5 DEF Ready, HasStatus, Exists
  <2>7. p \notin Ready'
    BY <1>4 DEF Ready, HasStatus, Exists, Rewritten
  <2>8. QED
    BY <2>2, <2>6, <2>7
<1>5. QED
  BY <1>0, <1>1, <1>2, <1>3, <1>4, PackagesStep

\* Once a version is ready, some version is ready at all times, whatever builds run, fail,
\* throw or crash: sites can always download.
THEOREM SomeVersionStaysReady ==
  ASSUME "stall" \notin Environment
  PROVE  Spec => AvailabilityKept
<1>1. ASSUME IndInv, OwnedInv, [Next]_vars, Ready # {}
      PROVE  Ready' # {}
  <2>1. PICK p \in Ready : TRUE
    BY <1>1
  <2>2. CASE packages'[p] = packages[p]
    BY <2>2 DEF Ready, HasStatus, Exists
  <2>3. QED
    BY <1>1, <2>2, ReadyStep
<1>2. IndInv /\ OwnedInv /\ [Next]_vars => [Ready # {} => Ready' # {}]_vars
  BY <1>1
<1>3. QED
  BY <1>2, Invariance, OwnedInvariance, PTL DEF Spec, AvailabilityKept

\* While a version is ready, its object, checksum and answer keys stay as they are: a job
\* that runs again after its commit is idempotent.
THEOREM ReadyVersionsAreFrozen ==
  ASSUME "stall" \notin Environment
  PROVE  Spec => ReadyIsFrozen
<1> DEFINE Frozen == \A p \in Package : p \in Ready \cap Ready' =>
                       packages'[p].content = packages[p].content /\ objects'[p] = objects[p]
<1>1. ASSUME IndInv, OwnedInv, [Next]_vars PROVE Frozen
  BY <1>1, ReadyStep
<1>2. IndInv /\ OwnedInv /\ [Next]_vars => [Frozen]_vars
  BY <1>1
<1>3. QED
  BY <1>2, Invariance, OwnedInvariance, PTL DEF Spec, ReadyIsFrozen
===============================================================================
