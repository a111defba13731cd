-------------------------- MODULE ProjectPartProofs --------------------------
(***************************************************************************)
(* Proofs about the parts of a project beside its runs: the bound on the   *)
(* build queue (BuildAdmission), what a "continue" resumes (ResumeState),  *)
(* that what a link shows was saved and a stop ends the fixing (AutoFix),  *)
(* that a database is what the document says (Databases) and that the user *)
(* is told what was done (ProjectChat). Each part uses the assumptions of  *)
(* its own component only.                                                 *)
(***************************************************************************)
EXTENDS ResumeState, AutoFix, Databases, ProjectChat, BuildAdmission,
        FiniteSetTheorems, WellFoundedInduction, TLAPS

(***************************************************************************)
(* BuildAdmission.  The bound on the backlog of the build queue, for any   *)
(* number of requests and workers and any maximum depth.                   *)
(***************************************************************************)
\* The type invariant and the bound on what is committed to enter the queue.
AdmissionInv == AdmissionTypeOK /\ CommittedBounded

\* The requests and workers counted are finitely many.
LEMMA CountsAreNaturals ==
    ASSUME AdmissionTypeOK
    PROVE  /\ IsFiniteSet(Admitting) /\ IsFiniteSet(ToFollow)
           /\ Cardinality(Admitting) \in Nat /\ Cardinality(ToFollow) \in Nat
           /\ Cardinality(Admitting) <= Cardinality(Requests)
           /\ Cardinality(ToFollow) <= Cardinality(Workers)
           /\ Cardinality(Requests) \in Nat /\ Cardinality(Workers) \in Nat
           /\ Len(queue) \in Nat
<1>1. Admitting \subseteq Requests /\ ToFollow \subseteq Workers
  BY DEF Admitting, ToFollow
<1>2. IsFiniteSet(Requests) /\ IsFiniteSet(Workers)
  BY AdmissionAssumption
<1>3. /\ IsFiniteSet(Admitting) /\ Cardinality(Admitting) <= Cardinality(Requests)
      /\ IsFiniteSet(ToFollow) /\ Cardinality(ToFollow) <= Cardinality(Workers)
  BY <1>1, <1>2, FS_Subset
<1>4. Len(queue) \in Nat
  BY DEF AdmissionTypeOK
<1> QED BY <1>2, <1>3, <1>4, FS_CardinalityType

\* Initially nothing is queued, admitted or running.
LEMMA AdmissionStarts == AdmissionInit => AdmissionInv
<1> SUFFICES ASSUME AdmissionInit PROVE AdmissionInv
  OBVIOUS
<1>1. AdmissionTypeOK
  BY DEF AdmissionInit, AdmissionTypeOK
<1>2. Admitting = {} /\ ToFollow = {} /\ Len(queue) = 0
  BY DEF AdmissionInit, Admitting, ToFollow, Chaining
<1>3. Committed = 0
  BY <1>2, FS_EmptySet DEF Committed
<1>4. Slack \in Nat
  BY <1>1, CountsAreNaturals DEF Slack
<1>5. CommittedBounded
  BY <1>3, <1>4, AdmissionAssumption DEF CommittedBounded, AdmissionInit
<1> QED BY <1>1, <1>5 DEF AdmissionInv

\* What each step does to the three parts of Committed.
LEMMA AdmissionStep == AdmissionInv /\ [AdmissionNext]_admissionVars => AdmissionInv'
<1> SUFFICES ASSUME AdmissionInv, [AdmissionNext]_admissionVars PROVE AdmissionInv'
  OBVIOUS
<1> USE AdmissionAssumption
<1>0. AdmissionTypeOK /\ CommittedBounded
  BY DEF AdmissionInv
<1>t. AdmissionTypeOK'
  <2>1. ASSUME NEW r \in Requests, NEW job \in Jobs, Admit(r, job) PROVE AdmissionTypeOK'
    BY <1>0, <2>1 DEF AdmissionTypeOK, Admit
  <2>2. ASSUME NEW r \in Requests, NEW job \in Jobs, AdmitBlind(r, job) PROVE AdmissionTypeOK'
    BY <1>0, <2>2 DEF AdmissionTypeOK, AdmitBlind
  <2>3. ASSUME NEW r \in Requests, Enqueue(r) PROVE AdmissionTypeOK'
    BY <1>0, <2>3 DEF AdmissionTypeOK, Enqueue
  <2>4. ASSUME NEW r \in Requests, EnqueueFails(r) PROVE AdmissionTypeOK'
    BY <1>0, <2>4 DEF AdmissionTypeOK, EnqueueFails
  <2>5. ASSUME NEW w \in Workers, Take(w) PROVE AdmissionTypeOK'
    BY <1>0, <2>5 DEF AdmissionTypeOK, Take
  <2>6. ASSUME NEW w \in Workers, FollowUp(w) PROVE AdmissionTypeOK'
    BY <1>0, <2>6 DEF AdmissionTypeOK, FollowUp, Chaining, Follows, Jobs
  <2>7. ASSUME NEW w \in Workers, Finish(w) PROVE AdmissionTypeOK'
    BY <1>0, <2>7 DEF AdmissionTypeOK, Finish
  <2>8. CASE Beat
    BY <1>0, <2>8 DEF AdmissionTypeOK, Beat
  <2>9. CASE UNCHANGED admissionVars
    BY <1>0, <2>9 DEF AdmissionTypeOK, admissionVars
  <2> QED BY <2>1, <2>2, <2>3, <2>4, <2>5, <2>6, <2>7, <2>8, <2>9 DEF AdmissionNext
<1>c. /\ Cardinality(Admitting) \in Nat /\ Cardinality(ToFollow) \in Nat
      /\ Cardinality(Admitting') \in Nat /\ Cardinality(ToFollow') \in Nat
      /\ Cardinality(Admitting') <= Cardinality(Requests)
      /\ Cardinality(ToFollow') <= Cardinality(Workers)
      /\ Cardinality(Requests) \in Nat /\ Cardinality(Workers) \in Nat
      /\ Len(queue) \in Nat /\ Len(queue') \in Nat
      /\ IsFiniteSet(Admitting) /\ IsFiniteSet(ToFollow)
  <2>1. /\ IsFiniteSet(Admitting') /\ IsFiniteSet(ToFollow')
        /\ Cardinality(Admitting') \in Nat /\ Cardinality(ToFollow') \in Nat
        /\ Cardinality(Admitting') <= Cardinality(Requests)
        /\ Cardinality(ToFollow') <= Cardinality(Workers)
        /\ Len(queue') \in Nat
    <3>1. Admitting' \subseteq Requests /\ ToFollow' \subseteq Workers
      BY DEF Admitting, ToFollow
    <3>2. /\ IsFiniteSet(Admitting') /\ Cardinality(Admitting') <= Cardinality(Requests)
          /\ IsFiniteSet(ToFollow') /\ Cardinality(ToFollow') <= Cardinality(Workers)
      BY <3>1, FS_Subset
    <3>3. Len(queue') \in Nat
      BY <1>t DEF AdmissionTypeOK
    <3> QED BY <3>2, <3>3, FS_CardinalityType
  <2> QED BY <1>0, <2>1, CountsAreNaturals
<1>m. ASSUME MaxDepth > 0 PROVE Committed' < MaxDepth + Slack + unchecked'
  <2>0. Committed < MaxDepth + Slack + unchecked /\ unchecked \in Nat
    BY <1>0, <1>m DEF CommittedBounded, AdmissionTypeOK
  <2>1. ASSUME NEW r \in Requests, NEW job \in Jobs, Admit(r, job)
        PROVE  Committed' < MaxDepth + Slack + unchecked'
    <3>1. Len(queue') < MaxDepth /\ unchecked' = 0
      BY <1>m, <2>1 DEF Admit
    <3> QED BY <1>c, <3>1 DEF Committed, Slack
  <2>2. ASSUME NEW r \in Requests, NEW job \in Jobs, AdmitBlind(r, job)
        PROVE  Committed' < MaxDepth + Slack + unchecked'
    <3>1. Admitting' = Admitting \cup {r} /\ r \notin Admitting
      BY <1>0, <2>2 DEF AdmitBlind, Admitting, AdmissionTypeOK, Jobs
    <3>2. Cardinality(Admitting') = Cardinality(Admitting) + 1
      BY <1>c, <3>1, FS_AddElement
    <3>3. queue' = queue /\ ToFollow' = ToFollow /\ unchecked' = unchecked + 1
      BY <2>2 DEF AdmitBlind, ToFollow
    <3>4. Len(queue') = Len(queue) /\ Cardinality(ToFollow') = Cardinality(ToFollow)
      BY <3>3
    <3>5. Committed' = Committed + 1 /\ Committed \in Nat
      BY <1>c, <3>2, <3>4 DEF Committed
    <3>6. MaxDepth + Slack \in Nat
      BY <1>c, AdmissionAssumption DEF Slack
    <3>7. ASSUME NEW n \in Nat, NEW k \in Nat, NEW m \in Nat, n < k + m
          PROVE  n + 1 < k + (m + 1)
      BY <3>7
    <3> QED BY <2>0, <3>3, <3>5, <3>6, <3>7
  <2>3. ASSUME NEW r \in Requests, Enqueue(r) \/ EnqueueFails(r)
        PROVE  Committed' < MaxDepth + Slack + unchecked'
    <3>1. Admitting' = Admitting \ {r} /\ r \in Admitting
      BY <1>0, <2>3 DEF Enqueue, EnqueueFails, Admitting, AdmissionTypeOK
    <3>2. Cardinality(Admitting') = Cardinality(Admitting) - 1
      BY <1>c, <3>1, FS_RemoveElement
    <3>3. ToFollow' = ToFollow /\ unchecked' = unchecked
      BY <2>3 DEF Enqueue, EnqueueFails, ToFollow
    <3>4. Len(queue') <= Len(queue) + 1
      BY <1>0, <1>c, <2>3 DEF Enqueue, EnqueueFails, AdmissionTypeOK
    <3>5. Cardinality(ToFollow') = Cardinality(ToFollow)
      BY <3>3
    <3>6. Committed' <= Committed /\ Committed \in Nat /\ Committed' \in Nat
      BY <1>c, <3>2, <3>4, <3>5 DEF Committed
    <3>7. MaxDepth + Slack + unchecked \in Nat
      BY <1>c, <2>0 DEF Slack
    <3> QED BY <2>0, <3>3, <3>6, <3>7 DEF Slack
  <2>4. ASSUME NEW w \in Workers, Take(w)
        PROVE  Committed' < MaxDepth + Slack + unchecked'
    <3>1. Admitting' = Admitting /\ unchecked' = unchecked
      BY <2>4 DEF Take, Admitting
    <3>2. Len(queue') = Len(queue) - 1
      BY <1>0, <1>c, <2>4 DEF Take, AdmissionTypeOK
    <3>3. w \notin ToFollow /\ (ToFollow' = ToFollow \/ ToFollow' = ToFollow \cup {w})
      BY <1>0, <2>4 DEF Take, ToFollow, AdmissionTypeOK, Chaining
    <3>4. Cardinality(ToFollow') <= Cardinality(ToFollow) + 1
      <4>1. CASE ToFollow' = ToFollow
        BY <1>c, <4>1
      <4>2. CASE ToFollow' = ToFollow \cup {w}
        <5>1. Cardinality(ToFollow \cup {w}) = Cardinality(ToFollow) + 1
          BY <1>c, <3>3, FS_AddElement
        <5> QED BY <1>c, <4>2, <5>1
      <4> QED BY <3>3, <4>1, <4>2
    <3>5. Cardinality(Admitting') = Cardinality(Admitting)
      BY <3>1
    <3>6. Committed' <= Committed /\ Committed \in Nat /\ Committed' \in Nat
      BY <1>c, <3>2, <3>4, <3>5 DEF Committed
    <3>7. MaxDepth + Slack + unchecked \in Nat
      BY <1>c, <2>0 DEF Slack
    <3> QED BY <2>0, <3>1, <3>6, <3>7 DEF Slack
  <2>5. ASSUME NEW w \in Workers, FollowUp(w)
        PROVE  Committed' < MaxDepth + Slack + unchecked'
    <3>1. Admitting' = Admitting /\ unchecked' = unchecked
      BY <2>5 DEF FollowUp, Admitting
    <3>2. Len(queue') = Len(queue) + 1
      <4>1. Follows[running[w]] \in Jobs
        BY <2>5 DEF FollowUp, Chaining, Follows, Jobs
      <4> QED BY <1>0, <1>c, <2>5, <4>1 DEF FollowUp, AdmissionTypeOK
    <3>3. ToFollow' = ToFollow \ {w} /\ w \in ToFollow
      BY <1>0, <2>5 DEF FollowUp, ToFollow, AdmissionTypeOK, Chaining
    <3>4. Cardinality(ToFollow') = Cardinality(ToFollow) - 1
      BY <1>c, <3>3, FS_RemoveElement
    <3>5. Cardinality(Admitting') = Cardinality(Admitting)
      BY <3>1
    <3>6. Committed' = Committed /\ Committed \in Nat
      BY <1>c, <3>2, <3>4, <3>5 DEF Committed
    <3> QED BY <2>0, <3>1, <3>6 DEF Slack
  <2>6. ASSUME NEW w \in Workers, Finish(w)
        PROVE  Committed' < MaxDepth + Slack + unchecked'
    <3>1. Admitting' = Admitting /\ unchecked' = unchecked /\ queue' = queue
      BY <2>6 DEF Finish, Admitting
    <3>2. ToFollow' \subseteq ToFollow
      BY <1>0, <2>6 DEF Finish, ToFollow, AdmissionTypeOK, Chaining
    <3>3. Cardinality(ToFollow') <= Cardinality(ToFollow)
      BY <1>c, <3>2, FS_Subset
    <3> QED BY <1>c, <2>0, <3>1, <3>3 DEF Committed, Slack
  <2>7. CASE Beat
    <3>1. Admitting' = Admitting /\ ToFollow' = ToFollow /\ unchecked' = unchecked + 1
      BY <2>7 DEF Beat, Admitting, ToFollow
    <3>2. Len(queue') = Len(queue) + 1
      BY <1>0, <1>c, <2>7 DEF Beat, AdmissionTypeOK
    <3> QED BY <1>c, <2>0, <3>1, <3>2 DEF Committed, Slack
  <2>8. CASE UNCHANGED admissionVars
    BY <2>0, <2>8 DEF admissionVars, Committed, Admitting, ToFollow
  <2> QED BY <2>1, <2>2, <2>3, <2>4, <2>5, <2>6, <2>7, <2>8 DEF AdmissionNext
<1> QED BY <1>t, <1>m DEF AdmissionInv, CommittedBounded

\* The backlog of the build queue (dispatch, ensure_build_capacity) never
\* exceeds its maximum depth by more than the requests that were admitted
\* together, one follow-up per worker and the unchecked tasks.
THEOREM BacklogIsBounded == AdmissionSpec => []BacklogBounded
<1>1. AdmissionInv => BacklogBounded
  <2> SUFFICES ASSUME AdmissionTypeOK, MaxDepth > 0,
                      Committed < MaxDepth + Slack + unchecked
               PROVE  Len(queue) < MaxDepth + Slack + unchecked
    BY DEF AdmissionInv, CommittedBounded, BacklogBounded
  <2> QED BY CountsAreNaturals, AdmissionAssumption DEF Committed, Slack, AdmissionTypeOK
<1> QED BY <1>1, AdmissionStarts, AdmissionStep, PTL DEF AdmissionSpec

------------------------------------------------------------------------------
(***************************************************************************)
(* ResumeState.  The record is what was interrupted last, and a continue   *)
(* that waits was sent for that, or overtaken.                             *)
(***************************************************************************)
UpdatePlaces == {"idle", "queued", "read", "working", "over"}
UpdateRecords ==
    [at : UpdatePlaces, says : Requested \cup {Nothing}, task : Requested \cup {Nothing}]

RecordsTyped ==
    /\ unfinished \in Requested \cup {Nothing} /\ interrupted \in Requested \cup {Nothing}
    /\ update \in [Updates -> UpdateRecords]
    /\ meant \in [Updates -> Requested \cup {Nothing, Overtaken}]

\* Before the build there is no repository, and so nothing to interrupt.
NothingYet ==
    build = "none" =>
      ~published /\ interrupted = Nothing /\ \A u \in Updates : update[u].at \notin {"read", "working"}

RecordIsLast == unfinished = interrupted

WaitsForLast ==
    \A u \in Updates : update[u].at = "queued" /\ update[u].says = Continue
      => meant[u] \in {Overtaken, interrupted}

ResumeInv == RecordsTyped /\ NothingYet /\ RecordIsLast /\ WaitsForLast /\ ContinueResumes

\* The names are different.
LEMMA TaskNames ==
    /\ Nothing \notin Requested /\ Overtaken \notin Requested /\ Overtaken # Nothing
    /\ Continue \in Requested /\ Finishing \in Requested
    /\ \A u \in Updates : u \in Requested /\ u # Continue
BY ResumeAssumption DEF Nothing, Overtaken, Continue, Finishing, Requested

LEMMA ResumeStarts == ResumeInit => ResumeInv
<1>. SUFFICES ASSUME ResumeInit PROVE ResumeInv
  OBVIOUS
<1>1. NotSent \in UpdateRecords /\ NotSent.at = "idle"
  BY DEF NotSent, UpdateRecords, UpdatePlaces
<1>2. \A u \in Updates : update[u] = NotSent
  BY DEF ResumeInit
<1>3. RecordsTyped
  BY <1>1 DEF ResumeInit, RecordsTyped
<1>. QED BY <1>1, <1>2, <1>3
            DEF ResumeInit, ResumeInv, NothingYet, RecordIsLast, WaitsForLast, ContinueResumes

\* A run that settles: what it leaves is the record; who waits is overtaken.
LEMMA Settles ==
    ASSUME ResumeInv, NEW task \in Requested \cup {Nothing}, Leaves(task), unfinished' = task,
           update' \in [Updates -> UpdateRecords],
           \A u \in Updates : update'[u] = update[u] \/ update'[u].at = "over",
           build' # "none"
    PROVE  ResumeInv'
<1>1. \A u \in Updates :
        meant'[u] = IF update[u].at = "queued" /\ update[u].says = Continue THEN Overtaken
                    ELSE IF update'[u].at = "over" THEN Nothing ELSE meant[u]
  BY DEF Leaves
<1>2. meant' \in [Updates -> Requested \cup {Nothing, Overtaken}]
  BY DEF Leaves, ResumeInv, RecordsTyped
<1>3. RecordsTyped'
  BY <1>2 DEF Leaves, ResumeInv, RecordsTyped
<1>4. WaitsForLast'
  BY <1>1 DEF WaitsForLast
<1>5. ContinueResumes'
  BY <1>1 DEF ResumeInv, ContinueResumes
<1>. QED BY <1>3, <1>4, <1>5 DEF Leaves, ResumeInv, NothingYet, RecordIsLast

\* One update goes on to r; what was interrupted stays, and so does the record.
LEMMA Proceeds ==
    ASSUME ResumeInv, NEW u \in Updates, NEW r \in UpdateRecords,
           NEW m \in Requested \cup {Nothing, Overtaken},
           update' = [update EXCEPT ![u] = r], meant' = [meant EXCEPT ![u] = m],
           UNCHANGED <<unfinished, interrupted, published, build>>,
           r.at \in {"read", "working"} => published \/ build # "none",
           r.at = "queued" /\ r.says = Continue => m \in {Overtaken, interrupted},
           r.at \in {"read", "working"} /\ r.says = Continue /\ m # Overtaken
             => r.task = IF m = Nothing THEN Continue ELSE m
    PROVE  ResumeInv'
<1>1. \A v \in Updates : /\ update'[v] = IF v = u THEN r ELSE update[v]
                         /\ meant'[v] = IF v = u THEN m ELSE meant[v]
  BY DEF ResumeInv, RecordsTyped
<1>2. RecordsTyped'
  BY DEF ResumeInv, RecordsTyped
<1>3. WaitsForLast'
  BY <1>1 DEF ResumeInv, WaitsForLast
<1>4. ContinueResumes'
  BY <1>1 DEF ResumeInv, ContinueResumes
<1>5. NothingYet'
  BY <1>1 DEF ResumeInv, NothingYet
<1>. QED BY <1>2, <1>3, <1>4, <1>5 DEF ResumeInv, RecordIsLast

LEMMA ResumeStep == ResumeInv /\ [ResumeNext]_resumeVars => ResumeInv'
<1>. SUFFICES ASSUME ResumeInv, [ResumeNext]_resumeVars PROVE ResumeInv'
  OBVIOUS
<1>0. [NotSent EXCEPT !.at = "over"] \in UpdateRecords
      /\ [NotSent EXCEPT !.at = "over"].at = "over"
  BY DEF NotSent, UpdateRecords, UpdatePlaces
<1>1. CASE BuildOverQuota
  BY <1>1 DEF BuildOverQuota, ResumeInv, RecordsTyped, NothingYet, RecordIsLast, WaitsForLast,
              ContinueResumes
<1>2. CASE BuildStubs \/ BuildRecords \/ BuildCompletes
  <2>1. \E task \in {Nothing, Finishing} : Leaves(task) /\ unfinished' = task
    BY <1>2 DEF BuildStubs, BuildRecords, BuildCompletes
  <2>2. update' = update /\ build' # "none"
    BY <1>2 DEF BuildStubs, BuildRecords, BuildCompletes
  <2>. QED BY <2>1, <2>2, TaskNames, Settles DEF ResumeInv, RecordsTyped
<1>3. CASE BuildPublishes \/ BuildFails \/ BuildLost
  BY <1>3 DEF BuildPublishes, BuildFails, BuildLost, ResumeInv, RecordsTyped, NothingYet,
              RecordIsLast, WaitsForLast, ContinueResumes
<1>4. CASE StopLetsGo \/ UNCHANGED resumeVars
  BY <1>4 DEF StopLetsGo, resumeVars, ResumeInv, RecordsTyped, NothingYet, RecordIsLast,
              WaitsForLast, ContinueResumes
<1>5. ASSUME NEW u \in Updates, SendsUpdate(u) PROVE ResumeInv'
  <2>1. PICK says \in {u, Continue} :
          /\ update' = [update EXCEPT ![u].at = "queued", ![u].says = says]
          /\ meant' = [meant EXCEPT ![u] = IF says = Continue THEN interrupted ELSE Nothing]
    BY <1>5 DEF SendsUpdate
  <2>. DEFINE r == [update[u] EXCEPT !.at = "queued", !.says = says]
              m == IF says = Continue THEN interrupted ELSE Nothing
  <2>2. r \in UpdateRecords /\ r.at = "queued" /\ r.says = says
    BY TaskNames DEF ResumeInv, RecordsTyped, UpdateRecords, UpdatePlaces
  <2>3. m \in Requested \cup {Nothing, Overtaken}
    BY DEF ResumeInv, RecordsTyped
  <2>4. update' = [update EXCEPT ![u] = r] /\ meant' = [meant EXCEPT ![u] = m]
    BY <2>1 DEF ResumeInv, RecordsTyped
  <2>5. r.says = Continue => m = interrupted
    BY <2>2
  <2>6. UNCHANGED <<unfinished, interrupted, published, build>>
    BY <1>5 DEF SendsUpdate
  <2>. HIDE DEF r, m
  <2>. QED BY <2>2, <2>3, <2>4, <2>5, <2>6, Proceeds
<1>6. ASSUME NEW u \in Updates, ResolvesTask(u) PROVE ResumeInv'
  <2>1. update[u].at = "queued" /\ UNCHANGED <<unfinished, interrupted, published, build>>
    BY <1>6 DEF ResolvesTask
  <2>2. CASE published
    <3>. DEFINE r == [update[u] EXCEPT !.at = "read", !.task = Resolved(update[u].says)]
                m == meant[u]
    <3>1. Resolved(update[u].says) \in Requested \cup {Nothing}
      BY DEF Resolved, ResumeInv, RecordsTyped, UpdateRecords
    <3>2. /\ r \in UpdateRecords /\ r.at = "read" /\ r.says = update[u].says
          /\ r.task = Resolved(update[u].says)
      BY <3>1 DEF ResumeInv, RecordsTyped, UpdateRecords, UpdatePlaces
    <3>3. update' = [update EXCEPT ![u].at = "read", ![u].task = Resolved(update[u].says)]
          /\ meant' = meant
      BY <1>6, <2>2 DEF ResolvesTask
    <3>4. update' = [update EXCEPT ![u] = r] /\ meant' = [meant EXCEPT ![u] = m]
      BY <3>3 DEF ResumeInv, RecordsTyped
    <3>5. m \in Requested \cup {Nothing, Overtaken}
      BY DEF ResumeInv, RecordsTyped
    <3>6. update[u].says = Continue /\ m # Overtaken
            => Resolved(update[u].says) = IF m = Nothing THEN Continue ELSE m
      BY <2>1 DEF Resolved, ResumeInv, WaitsForLast, RecordIsLast
    <3>. HIDE DEF r, m
    <3>. QED BY <2>1, <2>2, <3>2, <3>4, <3>5, <3>6, Proceeds
  <2>3. CASE ~published
    <3>1. /\ update' = [update EXCEPT ![u] = [NotSent EXCEPT !.at = "over"]]
          /\ meant' = [meant EXCEPT ![u] = Nothing]
      BY <1>6, <2>3 DEF ResolvesTask
    <3>. QED BY <1>0, <2>1, <3>1, Proceeds
  <2>. QED BY <2>2, <2>3
<1>7. ASSUME NEW u \in Updates, UpdateBlocked(u) \/ UpdateLost(u) PROVE ResumeInv'
  <2>1. /\ update' = [update EXCEPT ![u] = [NotSent EXCEPT !.at = "over"]]
        /\ meant' = [meant EXCEPT ![u] = Nothing]
        /\ UNCHANGED <<unfinished, interrupted, published, build>>
    BY <1>7 DEF UpdateBlocked, UpdateLost, Ends
  <2>. QED BY <1>0, <2>1, Proceeds
<1>8. ASSUME NEW u \in Updates, MarksUpdating(u) PROVE ResumeInv'
  <2>. DEFINE r == [update[u] EXCEPT !.at = "working"]  m == meant[u]
  <2>1. /\ update[u].at = "read" /\ update' = [update EXCEPT ![u].at = "working"] /\ meant' = meant
        /\ UNCHANGED <<unfinished, interrupted, published, build>>
    BY <1>8 DEF MarksUpdating
  <2>2. r \in UpdateRecords /\ r.at = "working" /\ r.says = update[u].says /\ r.task = update[u].task
    BY DEF ResumeInv, RecordsTyped, UpdateRecords, UpdatePlaces
  <2>3. update' = [update EXCEPT ![u] = r] /\ meant' = [meant EXCEPT ![u] = m]
    BY <2>1 DEF ResumeInv, RecordsTyped
  <2>4. m \in Requested \cup {Nothing, Overtaken}
    BY DEF ResumeInv, RecordsTyped
  <2>5. r.says = Continue /\ m # Overtaken => r.task = IF m = Nothing THEN Continue ELSE m
    BY <2>1, <2>2 DEF ResumeInv, ContinueResumes
  <2>6. build # "none"
    BY <2>1 DEF ResumeInv, NothingYet
  <2>7. r \in UpdateRecords /\ r.at = "working"
    BY <2>2
  <2>. HIDE DEF r, m
  <2>. QED BY <2>1, <2>3, <2>4, <2>5, <2>6, <2>7, Proceeds
<1>9. ASSUME NEW u \in Updates, UpdateFinishes(u) \/ UpdateInterrupted(u) PROVE ResumeInv'
  <2>1. /\ update[u].at = "working" /\ build' = build
        /\ update' = [update EXCEPT ![u] = [NotSent EXCEPT !.at = "over"]]
    BY <1>9 DEF UpdateFinishes, UpdateInterrupted, Ends
  <2>2. /\ update' \in [Updates -> UpdateRecords]
        /\ \A v \in Updates : update'[v] = update[v] \/ update'[v].at = "over"
    BY <1>0, <2>1 DEF ResumeInv, RecordsTyped
  <2>3. build' # "none"
    BY <2>1 DEF ResumeInv, NothingYet
  <2>4. Understood(u) = update[u].task
    BY <2>1, TaskNames DEF Understood, ResumeInv, ContinueResumes
  <2>5. update[u].task \in Requested \cup {Nothing}
    BY DEF ResumeInv, RecordsTyped, UpdateRecords
  <2>6. \E task \in Requested \cup {Nothing} : Leaves(task) /\ unfinished' = task
    BY <1>9, <2>4, <2>5 DEF UpdateFinishes, UpdateInterrupted, RecordsTask
  <2>. QED BY <2>2, <2>3, <2>6, Settles
<1>. QED BY <1>1, <1>2, <1>3, <1>4, <1>5, <1>6, <1>7, <1>8, <1>9 DEF ResumeNext

\* For any number of updates: a "continue" works on what was interrupted when
\* it was sent, through interruptions of its own, lost workers and stopped
\* runs, unless another run settled before it was read (resolve_request,
\* record, clear).
THEOREM ContinueIsFaithful == ResumeSpec => []ContinueResumes
<1>1. ResumeInv => ContinueResumes
  BY DEF ResumeInv
<1>. QED BY <1>1, ResumeStarts, ResumeStep, PTL DEF ResumeSpec

------------------------------------------------------------------------------
(***************************************************************************)
(* AutoFix.  StopInv: a fix made under a stop was the run's last, since    *)
(* the flag stays set and the loop polls it before the next. LinksInv:     *)
(* what was compiled had been pushed, or its push failed; a link shows     *)
(* that, or, of an Expo build, what there was before compiling.            *)
(***************************************************************************)
\* A fix made under a stop was the run's last: the flag stays set, and the loop
\* goes on to nothing but its end.
StopInv ==
    /\ stage = "idle" => sinceStop = 0
    /\ sinceStop = 0 \/ (sinceStop = 1 /\ StopKey \in flags /\ stage \notin {"idle", "agent", "fix"})

\* A version is on GitHub, or its push failed.
Pushed(v) == v <= saved \/ v \in unsaved

\* What was compiled had been pushed, or its push failed; a link shows that, or
\* is the one an Expo build has before it compiles.
LinksInv ==
    /\ version \in Nat /\ saved \in Nat
    /\ stage \in {"idle", "agent"} => link = 0
    /\ stage \in {"idle", "agent", "poll", "fix"} => artifact = 0 /\ release = 0
    /\ stage = "agent" => purpose = "build"
    /\ stage \in {"poll", "fix"} => Pushed(version)
    /\ artifact # 0 => Pushed(artifact)
    /\ link \in {0, artifact} \/ (framework = "react_native" /\ purpose = "build")
    /\ release # 0 => release = link /\ purpose = "publish"
    /\ ShownIsSaved

\* Every step keeps the first.
LEMMA StopStep == StopInv /\ [FixNext]_fixVars => StopInv'
<1>. SUFFICES ASSUME StopInv, [FixNext]_fixVars PROVE StopInv'
  OBVIOUS
<1>. USE DEF StopInv, fixVars, runVars, loopVars, codeVars, linkVars, toldVars, stopVars
<1>1. CASE StartsBuild \/ \E what \in {"preview", "publish"} : StartsPreview(what)
  BY <1>1 DEF StartsBuild, StartsPreview
<1>2. CASE BuildAgentFails \/ BuildAgentWrites
  BY <1>2 DEF BuildAgentFails, BuildAgentWrites
<1>3. CASE UserStops
  BY <1>3 DEF UserStops
<1>4. CASE RunStops \/ TellsProject \/ TellsFailure \/ RunIsLost
  BY <1>4 DEF RunStops, TellsProject, TellsFailure, RunIsLost, RunGone
<1>5. CASE Compiles
  BY <1>5 DEF Compiles, Polls, AfterLoop, StopKey
<1>6. ASSUME NEW e \in CompileErrors, CompileFails(e) PROVE StopInv'
  BY <1>6 DEF CompileFails, Polls, GivenUp, StopKey
<1>7. ASSUME NEW hit \in BOOLEAN, Repairs(hit) PROVE StopInv'
  <2>1. stage = "fix" /\ sinceStop = 0
    BY <1>7 DEF Repairs
  <2>2. stage' \in {"poll", "blueprint", "exhausted", "failed"}
    BY <1>7 DEF Repairs, FixPushed, AfterFix, GivenUp, Raised
  <2>3. sinceStop' = (IF StopKey \in flags THEN 1 ELSE 0) /\ StopKey' = StopKey /\ flags' = flags
    BY <1>7, <2>1 DEF Repairs, StopKey
  <2>. QED BY <2>2, <2>3
<1>8. CASE RepairRaises \/ Deploys
  BY <1>8 DEF RepairRaises, Deploys, Raised, AfterLoop, StopKey
<1>9. CASE TellsBlueprint \/ TellingFails
  BY <1>9 DEF TellsBlueprint, TellingFails, StopKey
<1>10. CASE UNCHANGED fixVars
  BY <1>10 DEF StopKey
<1>. QED
  BY <1>1, <1>2, <1>3, <1>4, <1>5, <1>6, <1>7, <1>8, <1>9, <1>10 DEF FixNext

\* Initially no run is under way and no link is shown.
LEMMA LinksStart == FixInit => LinksInv /\ StopInv
BY DEF FixInit, LinksInv, StopInv, ShownIsSaved

\* Every step keeps the second.
LEMMA LinksStep == LinksInv /\ [FixNext]_fixVars => LinksInv'
<1>. SUFFICES ASSUME LinksInv, [FixNext]_fixVars PROVE LinksInv'
  OBVIOUS
<1>. USE DEF LinksInv, fixVars, runVars, loopVars, codeVars, linkVars, toldVars, stopVars, Pushed
<1>1. CASE StartsBuild \/ \E what \in {"preview", "publish"} : StartsPreview(what)
  BY <1>1 DEF StartsBuild, StartsPreview, ShownIsSaved
<1>2. CASE BuildAgentFails
  BY <1>2 DEF BuildAgentFails, ShownIsSaved
<1>3. CASE BuildAgentWrites
  BY <1>3 DEF BuildAgentWrites, ShownIsSaved, Saves, SaveFails, SnackOf
<1>4. CASE UserStops
  BY <1>4 DEF UserStops, ShownIsSaved
<1>5. CASE RunStops \/ TellsFailure \/ RunIsLost
  BY <1>5 DEF RunStops, TellsFailure, RunIsLost, RunGone, ShownIsSaved
<1>6. CASE Compiles
  BY <1>6 DEF Compiles, Polls, AfterLoop, ShownIsSaved
<1>7. ASSUME NEW e \in CompileErrors, CompileFails(e) PROVE LinksInv'
  BY <1>7 DEF CompileFails, Polls, GivenUp, ShownIsSaved
<1>8. ASSUME NEW hit \in BOOLEAN, Repairs(hit) PROVE LinksInv'
  <2>1. stage = "fix" /\ artifact = 0 /\ release = 0 /\ UNCHANGED <<linkVars, toldVars, runVars>>
    BY <1>8 DEF Repairs
  <2>2. stage' \in {"poll", "blueprint", "exhausted", "failed"}
    BY <1>8 DEF Repairs, FixPushed, AfterFix, GivenUp, Raised
  <2>3. version' \in Nat /\ saved' \in Nat /\ (version' <= saved' \/ version' \in unsaved')
    BY <1>8 DEF Repairs, FixPushed, Saves, SaveFails
  <2>. QED BY <2>1, <2>2, <2>3 DEF ShownIsSaved
<1>9. CASE RepairRaises
  BY <1>9 DEF RepairRaises, Raised, ShownIsSaved
<1>10. CASE Deploys
  BY <1>10 DEF Deploys, Deployed, AfterLoop, ShownIsSaved
<1>11. CASE TellsBlueprint \/ TellingFails
  BY <1>11 DEF TellsBlueprint, TellingFails, ShownIsSaved
<1>12. CASE TellsProject
  <2>1. /\ stage' = "idle" /\ version' = 0 /\ saved' = 0 /\ artifact' = 0 /\ link' = 0 /\ release' = 0
        /\ framework' = framework
        /\ shown' = IF purpose = "build" \/ link # 0 THEN Sight(link) ELSE shown
        /\ released' = IF release # 0 THEN Sight(release) ELSE released
    BY <1>12 DEF TellsProject, RunGone
  <2>2. \/ Sight(link) \in {"nothing", "sound", "unsaved"}
        \/ Sight(link) = "uncompiled" /\ framework = "react_native"
    BY DEF Sight
  <2>3. release # 0 => Sight(release) \in {"nothing", "sound", "unsaved"}
    BY DEF Sight
  <2>. QED BY <2>1, <2>2, <2>3 DEF ShownIsSaved
<1>13. CASE UNCHANGED fixVars
  BY <1>13 DEF ShownIsSaved
<1>. QED
  BY <1>1, <1>2, <1>3, <1>4, <1>5, <1>6, <1>7, <1>8, <1>9, <1>10, <1>11, <1>12, <1>13 DEF FixNext

\* For any number of fixes, errors and retries: what a link of the project
\* shows compiled and is on GitHub, or its push failed; only an Expo preview
\* may show code that was not compiled (_run, _run_preview).
THEOREM ShownStaysSaved == FixSpec => []ShownIsSaved
<1>1. LinksInv => ShownIsSaved
  BY DEF LinksInv
<1>. QED
  BY <1>1, LinksStart, LinksStep, PTL DEF FixSpec

\* Likewise: a stop sent to a preview or a publication lets it make one more
\* fix at most (stop_project, _run_preview).
THEOREM StopEndsAllFixing == FixSpec => []StopEndsFixing
<1>1. StopInv => StopEndsFixing
  BY DEF StopInv, StopEndsFixing
<1>. QED
  BY <1>1, LinksStart, StopStep, PTL DEF FixSpec

------------------------------------------------------------------------------
(***************************************************************************)
(* Databases.  Databases only grow: they keep their provider, their tables *)
(* and their policies. So what a call has established of one when it read  *)
(* it - that it is provisioned, that its tables are there - holds when the *)
(* call writes it down.                                                    *)
(***************************************************************************)
\* The databases are numbered.
Numbers == 1 .. MaxDatabases

\* A database at its provider.
DatabaseRecords ==
    [of : Providers \cup {"none"}, steps : Nat, tables : [Tables -> Entities \cup {"none"}],
     guarded : SUBSET Tables]

\* A connect, a migration, a recorded status.
ConnectRecords ==
    [at : {"idle", "provision"}, of : Providers \cup {"none"}, db : 0 .. MaxDatabases]

\* A migration and what it will make.
MigrationRecords ==
    [at : {"idle", "apply", "record"}, db : 0 .. MaxDatabases, entities : Blueprints, fails : Fails]

\* What the document says of the tables.
StatusRecords == [state : {"none", "ready", "error"}, tables : SUBSET Tables]

\* The tables are in the database, and have their owner policy if it is Supabase's.
Has(r, tables) ==
    \A t \in tables : r.tables[t] # "none" /\ (r.of = "supabase" => t \in r.guarded)

\* Every variable has its type.
BaseTyped ==
    /\ base \in [Numbers -> DatabaseRecords] /\ named \in [Providers -> 0 .. MaxDatabases]
    /\ blueprint \in Blueprints /\ status \in StatusRecords
    /\ connecting \in [Connectors -> ConnectRecords]
    /\ migrating \in [Migrators -> MigrationRecords]
    /\ about \in 0 .. MaxDatabases /\ moved \in BOOLEAN /\ silent \in BOOLEAN

\* A database that is named was provisioned to the end.
NamedSound(p) ==
    named[p] # 0 => base[named[p]].of = p /\ base[named[p]].steps = StepsOf[p]

\* A connect works on a database of its provider.
ConnectSound(r) ==
    r.at = "provision" => r.of \in Providers /\ (r.db # 0 => base[r.db].of = r.of)

\* A migration works on the database that was named; when it has ended well its
\* tables are there.
MigrationSound(r) ==
    r.at # "idle" =>
      /\ r.db # 0 /\ base[r.db].of # "none"
      /\ moved \/ r.db = Postgres(named)
      /\ r.at = "record" /\ r.fails = "no" => Has(base[r.db], TablesOf(r.entities))

\* And so are those of the recorded status.
StatusSound ==
    status.state # "none" =>
      /\ about # 0 /\ base[about].of # "none"
      /\ moved \/ about = Postgres(named)
      /\ status.state = "ready" /\ ~silent => Has(base[about], status.tables)

\* The inductive invariant.
BaseInv ==
    /\ BaseTyped
    /\ \A p \in Providers : NamedSound(p)
    /\ \A c \in Connectors : ConnectSound(connecting[c])
    /\ \A m \in Migrators : MigrationSound(migrating[m])
    /\ StatusSound

\* The providers, and that each takes some steps.
LEMMA ProvidersAre ==
    /\ Providers = {"supabase", "neon", "firebase"}
    /\ \A p \in Providers : StepsOf[p] \in Nat /\ StepsOf[p] # 0
BY DEF Providers, StepsOf, SupabaseSteps, NeonSteps, FirebaseSteps

\* A set of numbers has a least one: < is well-founded on Nat.
LEMMA LeastNatural ==
    ASSUME NEW S \in SUBSET Nat, S # {}
    PROVE  \E n \in S : \A k \in S : n <= k
<1>. DEFINE Upto(n) == {k \in S : k <= n}
            C == {Upto(n) : n \in S}
<1>1. \A n \in S : Upto(n) \in FiniteSubsetsOf(Nat)
  <2>. TAKE n \in S
  <2>1. n \in Nat /\ Upto(n) \in SUBSET Nat /\ \A k \in Upto(n) : k <= n
    OBVIOUS
  <2>. HIDE DEF Upto
  <2>. QED BY <2>1, FS_BoundedSetOfNaturals DEF FiniteSubsetsOf
<1>2. PICK T \in C : \A U \in C : <<U, T>> \notin StrictSubsetOrdering(Nat)
  <2>1. C # {} /\ C \subseteq FiniteSubsetsOf(Nat)
    BY <1>1
  <2>. HIDE DEF C
  <2>. QED BY <2>1, WFMin, FS_StrictSubsetOrderingWellFounded
<1>3. PICK n \in S : T = Upto(n)
  OBVIOUS
<1>4. ASSUME NEW k \in S, ~(n <= k) PROVE FALSE
  <2>1. Upto(k) \subseteq Upto(n) /\ n \in Upto(n) /\ n \notin Upto(k)
    <3>1. k \in Nat /\ n \in Nat /\ k < n
      BY <1>4
    <3>2. \A j \in S : j \in Nat
      OBVIOUS
    <3>3. \A j \in S : j <= k => j <= n
      BY <3>1, <3>2
    <3>4. n <= n /\ ~(n <= k)
      BY <3>1
    <3>. QED BY <3>3, <3>4
  <2>2. <<Upto(k), Upto(n)>> \in StrictSubsetOrdering(Nat)
    BY <2>1 DEF StrictSubsetOrdering
  <2>. QED BY <1>2, <1>3, <2>2
<1>. QED BY <1>4

\* The next database is one that is not there yet, if there is room.
LEMMA NextDatabase ==
    ASSUME BaseTyped,
           NEW d, d = CHOOSE n \in 1 .. MaxDatabases + 1 :
                         /\ n <= MaxDatabases => base[n].of = "none"
                         /\ \A k \in 1 .. n - 1 : base[k].of # "none"
    PROVE  d \in 1 .. MaxDatabases + 1 /\ (d <= MaxDatabases => d \in Numbers /\ base[d].of = "none")
<1>. DEFINE S == {n \in 1 .. MaxDatabases + 1 : n <= MaxDatabases => base[n].of = "none"}
<1>0. MaxDatabases \in Nat
  BY DatabasesAssumption
<1>1. MaxDatabases + 1 \in S /\ S \in SUBSET Nat /\ S # {}
  <2>1. MaxDatabases + 1 \in 1 .. MaxDatabases + 1 /\ ~(MaxDatabases + 1 <= MaxDatabases)
    BY <1>0
  <2>2. 1 .. MaxDatabases + 1 \subseteq Nat
    BY <1>0
  <2>. QED BY <2>1, <2>2
<1>2. PICK n \in S : \A k \in S : n <= k
  <2>. HIDE DEF S
  <2>. QED BY <1>1, LeastNatural
<1>3. \A k \in 1 .. n - 1 : base[k].of # "none"
  <2>. TAKE k \in 1 .. n - 1
  <2>1. n \in Nat /\ n <= MaxDatabases + 1 /\ k \in Nat /\ k < n /\ 1 <= k
    BY <1>0, <1>2
  <2>2. k \in 1 .. MaxDatabases + 1 /\ k <= MaxDatabases /\ k \notin S
    BY <1>0, <1>2, <2>1
  <2>. QED BY <2>2
<1>4. \E m \in 1 .. MaxDatabases + 1 : /\ m <= MaxDatabases => base[m].of = "none"
                                       /\ \A k \in 1 .. m - 1 : base[k].of # "none"
  BY <1>2, <1>3
<1>5. d \in 1 .. MaxDatabases + 1 /\ (d <= MaxDatabases => base[d].of = "none")
  BY <1>4
<1>. QED BY <1>0, <1>5 DEF Numbers

\* What the entities' migration leaves in the database.
LEMMA MakersAreEntities ==
    ASSUME NEW entities \in Blueprints, NEW t \in TablesOf(entities)
    PROVE  t \in Tables /\ MakerOf(entities, t) \in Entities
<1>1. /\ entities \in Seq(Entities) /\ DOMAIN entities \in SUBSET Nat
      /\ \A i \in DOMAIN entities : entities[i] \in Entities
  BY DatabasesAssumption DEF Entities
<1>. DEFINE S == {i \in DOMAIN entities : TableOf[entities[i]] = t}
<1>2. S # {} /\ S \in SUBSET Nat /\ \A i \in S : entities[i] \in Entities
  BY <1>1 DEF TablesOf
<1>3. \E n \in S : \A k \in S : n <= k
  <2>. HIDE DEF S
  <2>. QED BY <1>2, LeastNatural
<1>4. Min(S) \in S
  <2>. HIDE DEF S
  <2>. QED BY <1>3 DEF Min
<1>5. MakerOf(entities, t) = entities[Min(S)]
  BY DEF MakerOf
<1>. QED BY <1>1, <1>2, <1>4, <1>5 DEF TablesOf, Tables

\* A database that grows: it keeps its provider, its tables and their policies.
Grows(r, s) ==
    /\ s \in DatabaseRecords
    /\ r.of # "none" => s.of = r.of
    /\ \A t \in Tables : r.tables[t] # "none" => s.tables[t] # "none"
    /\ r.guarded \subseteq s.guarded

\* What a growing database leaves true.
LEMMA BaseGrows ==
    ASSUME BaseInv, NEW d \in Numbers, NEW s \in DatabaseRecords, base' = [base EXCEPT ![d] = s],
           Grows(base[d], s),
           \A p \in Providers : named[p] = d => s.steps = StepsOf[p]
    PROVE  /\ base' \in [Numbers -> DatabaseRecords] /\ base'[d] = s
           /\ \A n \in Numbers : n # d => base'[n] = base[n]
           /\ \A n \in Numbers, tables \in SUBSET Tables :
                base[n].of # "none" /\ Has(base[n], tables) =>
                   base'[n].of = base[n].of /\ Has(base'[n], tables)
           /\ \A n \in Numbers : base[n].of # "none" => base'[n].of = base[n].of
           /\ \A p \in Providers : named[p] # 0 =>
                 base'[named[p]].of = p /\ base'[named[p]].steps = StepsOf[p]
<1>1. /\ base' \in [Numbers -> DatabaseRecords] /\ base'[d] = s
      /\ \A n \in Numbers : n # d => base'[n] = base[n]
  BY DEF BaseInv, BaseTyped
<1>2. \A n \in Numbers : base[n].of # "none" => base'[n].of = base[n].of
  BY <1>1 DEF Grows
<1>3. ASSUME NEW n \in Numbers, NEW tables \in SUBSET Tables, base[n].of # "none", Has(base[n], tables)
      PROVE  Has(base'[n], tables)
  <2>1. CASE n # d
    BY <1>1, <1>3, <2>1
  <2>2. CASE n = d
    BY <1>1, <1>3, <2>2 DEF Has, Grows
  <2>. QED BY <2>1, <2>2
<1>4. ASSUME NEW p \in Providers, named[p] # 0
      PROVE  base'[named[p]].of = p /\ base'[named[p]].steps = StepsOf[p]
  <2>1. named[p] \in Numbers /\ base[named[p]].of = p /\ base[named[p]].steps = StepsOf[p] /\ p # "none"
    BY <1>4, ProvidersAre DEF BaseInv, BaseTyped, NamedSound, Numbers
  <2>. QED BY <1>1, <1>2, <2>1
<1>. QED BY <1>1, <1>2, <1>3, <1>4

\* Initially there is no database.
LEMMA DatabasesStart == DatabasesInit => BaseInv
<1>. SUFFICES ASSUME DatabasesInit PROVE BaseInv
  OBVIOUS
<1>1. /\ NoDatabase \in DatabaseRecords /\ NoConnect \in ConnectRecords
      /\ NoMigration \in MigrationRecords
      /\ NoConnect.at = "idle" /\ NoMigration.at = "idle"
      /\ [state |-> "none", tables |-> {}] \in StatusRecords
  BY DatabasesAssumption DEF NoDatabase, NoConnect, NoMigration, DatabaseRecords, ConnectRecords,
     MigrationRecords, StatusRecords, Fails
<1>2. 0 \in 0 .. MaxDatabases
  BY DatabasesAssumption
<1>3. status.state = "none"
  BY DEF DatabasesInit
<1>. HIDE DEF NoDatabase, NoConnect, NoMigration
<1>. QED
  BY <1>1, <1>2, <1>3 DEF DatabasesInit, BaseInv, BaseTyped, NamedSound, ConnectSound,
     MigrationSound, StatusSound, Numbers

\* The database whose schema is provisioned is one that is named.
LEMMA PostgresIsNamed ==
    ASSUME BaseInv, Postgres(named) # 0
    PROVE  Postgres(named) \in Numbers /\ base[Postgres(named)].of # "none"
<1>1. PICK p \in Providers : Postgres(named) = named[p]
  BY ProvidersAre DEF Postgres
<1>. QED
  BY <1>1, ProvidersAre DEF BaseInv, BaseTyped, NamedSound, Numbers

\* Steps that leave the databases, what is named and the status alone.
LEMMA MigrationMoves ==
    ASSUME BaseInv, NEW m \in Migrators, NEW r \in MigrationRecords,
           migrating' = [migrating EXCEPT ![m] = r], MigrationSound(r),
           UNCHANGED <<base, named, blueprint, status, connecting, about, moved, silent>>
    PROVE  BaseInv'
BY DEF BaseInv, BaseTyped, NamedSound, ConnectSound, MigrationSound, StatusSound, Postgres, Has

\* The same of a connect.
LEMMA ConnectMoves ==
    ASSUME BaseInv, NEW c \in Connectors, NEW r \in ConnectRecords,
           connecting' = [connecting EXCEPT ![c] = r], ConnectSound(r),
           UNCHANGED <<base, named, blueprint, status, migrating, about, moved, silent>>
    PROVE  BaseInv'
BY DEF BaseInv, BaseTyped, NamedSound, ConnectSound, MigrationSound, StatusSound, Postgres, Has

\* What was said of the databases stays so as one of them grows.
LEMMA SoundAsBaseGrows ==
    ASSUME BaseInv, NEW d \in Numbers, NEW s \in DatabaseRecords, base' = [base EXCEPT ![d] = s],
           Grows(base[d], s),
           \A p \in Providers : named[p] = d => s.steps = StepsOf[p],
           UNCHANGED <<named, status, about, moved, silent>>
    PROVE  /\ base' \in [Numbers -> DatabaseRecords] /\ base'[d] = s
           /\ \A p \in Providers : NamedSound(p)'
           /\ \A r \in ConnectRecords : ConnectSound(r) => ConnectSound(r)'
           /\ \A r \in MigrationRecords : MigrationSound(r) => MigrationSound(r)'
           /\ StatusSound'
<1>1. /\ base' \in [Numbers -> DatabaseRecords] /\ base'[d] = s
      /\ \A n \in Numbers, tables \in SUBSET Tables :
           base[n].of # "none" /\ Has(base[n], tables) =>
              base'[n].of = base[n].of /\ Has(base'[n], tables)
      /\ \A n \in Numbers : base[n].of # "none" => base'[n].of = base[n].of
      /\ \A p \in Providers : named[p] # 0 =>
            base'[named[p]].of = p /\ base'[named[p]].steps = StepsOf[p]
  BY BaseGrows
<1>2. \A p \in Providers : NamedSound(p)'
  BY <1>1 DEF NamedSound
<1>3. ASSUME NEW r \in ConnectRecords, ConnectSound(r) PROVE ConnectSound(r)'
  <2>1. r.db # 0 => r.db \in Numbers
    BY DEF ConnectRecords, Numbers
  <2>. QED BY <1>1, <1>3, <2>1, ProvidersAre DEF ConnectSound
<1>4. ASSUME NEW r \in MigrationRecords, MigrationSound(r) PROVE MigrationSound(r)'
  <2>1. r.db # 0 => r.db \in Numbers
    BY DEF MigrationRecords, Numbers
  <2>2. TablesOf(r.entities) \in SUBSET Tables
    BY MakersAreEntities DEF MigrationRecords
  <2>. QED BY <1>1, <1>4, <2>1, <2>2 DEF MigrationSound, Postgres
<1>5. StatusSound'
  <2>1. about # 0 => about \in Numbers
    BY DEF BaseInv, BaseTyped, Numbers
  <2>2. status.tables \in SUBSET Tables
    BY DEF BaseInv, BaseTyped, StatusRecords
  <2>. QED BY <1>1, <2>1, <2>2 DEF BaseInv, StatusSound, Postgres
<1>. QED BY <1>1, <1>2, <1>3, <1>4, <1>5

\* Every step keeps the invariant.
LEMMA DatabasesStep == BaseInv /\ [DatabasesNext]_databaseVars => BaseInv'
<1>. SUFFICES ASSUME BaseInv, [DatabasesNext]_databaseVars PROVE BaseInv'
  OBVIOUS
<1>0. /\ BaseTyped /\ MaxDatabases \in Nat
      /\ \A c \in Connectors : connecting[c] \in ConnectRecords /\ ConnectSound(connecting[c])
      /\ \A m \in Migrators : migrating[m] \in MigrationRecords /\ MigrationSound(migrating[m])
      /\ \A n \in Numbers : base[n] \in DatabaseRecords
      /\ NoConnect \in ConnectRecords /\ ConnectSound(NoConnect)
      /\ NoMigration \in MigrationRecords /\ MigrationSound(NoMigration)
  <2>1. /\ NoConnect \in ConnectRecords /\ NoMigration \in MigrationRecords
        /\ NoConnect.at = "idle" /\ NoMigration.at = "idle"
    BY DatabasesAssumption DEF NoConnect, NoMigration, ConnectRecords, MigrationRecords, Fails
  <2>. QED BY <2>1, DatabasesAssumption DEF BaseInv, BaseTyped, ConnectSound, MigrationSound
<1>1. ASSUME NEW c \in Connectors, BeginsConnect(c) PROVE BaseInv'
  <2>1. PICK p \in Providers :
          connecting' = [connecting EXCEPT ![c] = [at |-> "provision", of |-> p, db |-> 0]]
    BY <1>1 DEF BeginsConnect
  <2>. DEFINE r == [at |-> "provision", of |-> p, db |-> 0]
  <2>2. r \in ConnectRecords /\ ConnectSound(r)
    BY <1>0 DEF ConnectRecords, ConnectSound
  <2>. HIDE DEF r
  <2>3. connecting' = [connecting EXCEPT ![c] = r]
    BY <2>1 DEF r
  <2>. QED BY <1>1, <2>2, <2>3, ConnectMoves DEF BeginsConnect
<1>2. ASSUME NEW c \in Connectors, Provisions(c) PROVE BaseInv'
  <2>. DEFINE p == connecting[c].of
              fresh == CHOOSE n \in 1 .. MaxDatabases + 1 :
                          /\ n <= MaxDatabases => base[n].of = "none"
                          /\ \A k \in 1 .. n - 1 : base[k].of # "none"
              d == IF connecting[c].db # 0 THEN connecting[c].db ELSE fresh
              s == [base[d] EXCEPT !.of = p, !.steps = base[d].steps + 1]
  <2>1. /\ connecting[c].at = "provision" /\ d <= MaxDatabases /\ base[d].steps < StepsOf[p]
        /\ \/ /\ base' = [base EXCEPT ![d].of = p, ![d].steps = @ + 1]
              /\ connecting' = [connecting EXCEPT ![c].db = d]
           \/ /\ base' \in {base, [base EXCEPT ![d].of = p, ![d].steps = @ + 1]}
              /\ connecting' = [connecting EXCEPT ![c] = NoConnect]
        /\ UNCHANGED <<named, blueprint, status, migrating, about, moved, silent>>
    BY <1>2 DEF Provisions, EndsConnect
  <2>2. d \in Numbers /\ p \in Providers /\ base[d].of \in {"none", p}
    <3>1. p \in Providers /\ (connecting[c].db # 0 =>
            connecting[c].db \in Numbers /\ base[connecting[c].db].of = p)
      <4>1. connecting[c] \in ConnectRecords /\ ConnectSound(connecting[c])
        BY <1>0
      <4>2. connecting[c].db \in 0 .. MaxDatabases
        BY <4>1 DEF ConnectRecords
      <4>3. connecting[c].db # 0 => connecting[c].db \in Numbers
        BY <1>0, <4>2 DEF Numbers
      <4>4. p \in Providers /\ (connecting[c].db # 0 => base[connecting[c].db].of = p)
        BY <2>1, <4>1 DEF ConnectSound
      <4>. QED BY <4>3, <4>4
    <3>2. fresh <= MaxDatabases => fresh \in Numbers /\ base[fresh].of = "none"
      BY <1>0, NextDatabase
    <3>. HIDE DEF fresh, p
    <3>. QED BY <2>1, <3>1, <3>2
  <2>. HIDE DEF d
  <2>3. /\ s \in DatabaseRecords /\ s.of = p /\ s.steps = base[d].steps + 1
        /\ s.tables = base[d].tables /\ s.guarded = base[d].guarded
    <3>1. base[d] \in DatabaseRecords /\ base[d].steps + 1 \in Nat
      BY <1>0, <2>2 DEF DatabaseRecords
    <3>. QED BY <2>2, <3>1 DEF DatabaseRecords
  <2>4. [base EXCEPT ![d].of = p, ![d].steps = @ + 1] = [base EXCEPT ![d] = s]
    BY <1>0, <2>2 DEF BaseTyped
  <2>5. PICK r \in ConnectRecords :
           /\ r.at = "provision" /\ r.of = p /\ r.db = d
           /\ [connecting EXCEPT ![c].db = d] = [connecting EXCEPT ![c] = r]
    <3>. DEFINE x == [connecting[c] EXCEPT !.db = d]
    <3>1. d \in 0 .. MaxDatabases /\ connecting[c] \in ConnectRecords
      BY <1>0, <2>2 DEF Numbers
    <3>2. x \in ConnectRecords /\ x.at = "provision" /\ x.of = p /\ x.db = d
      BY <2>1, <3>1 DEF ConnectRecords
    <3>3. [connecting EXCEPT ![c].db = d] = [connecting EXCEPT ![c] = x]
      BY <1>0 DEF BaseTyped
    <3>. HIDE DEF x
    <3>. QED BY <3>2, <3>3
  <2>. HIDE DEF s
  <2>6. Grows(base[d], s)
    BY <2>2, <2>3 DEF Grows
  <2>7. \A q \in Providers : named[q] # d
    <3>1. ASSUME NEW q \in Providers, named[q] = d PROVE FALSE
      <4>1. base[d].of = q /\ base[d].steps = StepsOf[q]
        BY <2>2, <3>1 DEF BaseInv, NamedSound, Numbers
      <4>. QED BY <2>1, <2>2, <4>1, ProvidersAre
    <3>. QED BY <3>1
  <2>. HIDE DEF p
  <2>8. CASE base' = [base EXCEPT ![d] = s]
    <3>1. /\ base' \in [Numbers -> DatabaseRecords] /\ base'[d] = s
          /\ \A q \in Providers : NamedSound(q)'
          /\ \A x \in ConnectRecords : ConnectSound(x) => ConnectSound(x)'
          /\ \A x \in MigrationRecords : MigrationSound(x) => MigrationSound(x)'
          /\ StatusSound'
      BY <2>1, <2>2, <2>3, <2>6, <2>7, <2>8, SoundAsBaseGrows
    <3>2. ConnectSound(r)' /\ ConnectSound(NoConnect)'
      <4>1. r.of \in Providers /\ base'[r.db].of = r.of
        BY <2>2, <2>3, <2>5, <3>1
      <4>. QED BY <1>0, <3>1, <4>1 DEF ConnectSound
    <3>3. connecting' \in {[connecting EXCEPT ![c] = r], [connecting EXCEPT ![c] = NoConnect]}
      BY <2>1, <2>5
    <3>4. /\ connecting' \in [Connectors -> ConnectRecords]
          /\ \A e \in Connectors : ConnectSound(connecting[e])'
      BY <1>0, <2>5, <3>1, <3>2, <3>3 DEF BaseTyped
    <3>. QED BY <1>0, <2>1, <3>1, <3>4 DEF BaseInv, BaseTyped
  <2>9. CASE base' = base /\ connecting' = [connecting EXCEPT ![c] = NoConnect]
    BY <1>0, <2>1, <2>9, ConnectMoves
  <2>. QED BY <2>1, <2>4, <2>8, <2>9
<1>3. ASSUME NEW c \in Connectors, Names(c) PROVE BaseInv'
  <2>. DEFINE p == connecting[c].of
              d == connecting[c].db
  <2>1. /\ connecting[c].at = "provision" /\ d # 0 /\ base[d].steps = StepsOf[p]
        /\ named' = [named EXCEPT ![p] = d] /\ connecting' = [connecting EXCEPT ![c] = NoConnect]
        /\ moved' = (moved \/ /\ Postgres(named') # Postgres(named)
                              /\ \/ status.state # "none"
                                 \/ \E m \in Migrators : migrating[m].at # "idle")
        /\ UNCHANGED <<base, blueprint, status, migrating, about, silent>>
    BY <1>3 DEF Names, Whole, EndsConnect
  <2>2. p \in Providers /\ d \in 0 .. MaxDatabases /\ base[d].of = p
    BY <1>0, <2>1 DEF ConnectSound, ConnectRecords
  <2>3. BaseTyped'
    BY <1>0, <2>1, <2>2 DEF BaseTyped
  <2>4. \A q \in Providers : NamedSound(q)'
    BY <1>0, <2>1, <2>2 DEF BaseInv, BaseTyped, NamedSound
  <2>5. \A e \in Connectors : ConnectSound(connecting[e])'
    BY <1>0, <2>1 DEF BaseTyped, ConnectSound
  <2>6. ASSUME NEW m \in Migrators PROVE MigrationSound(migrating[m])'
    <3>1. migrating[m].at # "idle" => moved' \/ (Postgres(named') = Postgres(named) /\ moved' = moved)
      BY <1>0, <2>1 DEF BaseTyped
    <3>. QED BY <1>0, <2>1, <3>1 DEF MigrationSound
  <2>7. StatusSound'
    <3>1. status.state # "none" => moved' \/ (Postgres(named') = Postgres(named) /\ moved' = moved)
      BY <1>0, <2>1 DEF BaseTyped
    <3>. QED BY <2>1, <3>1 DEF BaseInv, StatusSound
  <2>. QED BY <2>3, <2>4, <2>5, <2>6, <2>7 DEF BaseInv
<1>4. CASE Stubs
  <2>1. /\ blueprint' \in Blueprints /\ named' = [p \in Providers |-> 0]
        /\ status' = [state |-> "none", tables |-> {}]
        /\ moved' = (moved \/ \E m \in Migrators : migrating[m].at # "idle")
        /\ UNCHANGED <<base, connecting, migrating, about, silent>>
    BY <1>4 DEF Stubs
  <2>2. status'.state = "none" /\ status' \in StatusRecords /\ 0 \in 0 .. MaxDatabases
    BY <1>0, <2>1 DEF StatusRecords
  <2>3. BaseTyped'
    BY <1>0, <2>1, <2>2 DEF BaseTyped
  <2>4. ASSUME NEW m \in Migrators PROVE MigrationSound(migrating[m])'
    <3>1. migrating[m].at # "idle" => moved'
      BY <2>1
    <3>. QED BY <1>0, <2>1, <3>1 DEF MigrationSound
  <2>. QED BY <1>0, <2>1, <2>2, <2>3, <2>4 DEF BaseInv, NamedSound, ConnectSound, StatusSound
<1>5. ASSUME NEW m \in Migrators, Wires(m) \/ Rebuilds(m) PROVE BaseInv'
  <2>. DEFINE r == [at |-> "apply", db |-> Postgres(named), entities |-> blueprint, fails |-> "no"]
  <2>1. ReadsProject(m)
    BY <1>5 DEF Wires, Rebuilds
  <2>2. CASE blueprint = <<>> \/ Postgres(named) = 0
    <3>1. UNCHANGED databaseVars
      BY <2>1, <2>2 DEF ReadsProject, databaseVars
    <3>. QED BY <3>1 DEF databaseVars, BaseInv, BaseTyped, NamedSound, ConnectSound,
                         MigrationSound, StatusSound, Postgres, Has
  <2>3. CASE ~(blueprint = <<>> \/ Postgres(named) = 0)
    <3>1. Postgres(named) \in Numbers /\ base[Postgres(named)].of # "none" /\ Postgres(named) # 0
      BY <2>3, PostgresIsNamed
    <3>2. r \in MigrationRecords /\ r.db = Postgres(named) /\ r.at = "apply"
      BY <1>0, <3>1 DEF MigrationRecords, Numbers, BaseTyped, Fails
    <3>3. migrating' = [migrating EXCEPT ![m] = r]
          /\ UNCHANGED <<base, named, blueprint, status, connecting, about, moved, silent>>
      BY <2>1, <2>3 DEF ReadsProject
    <3>. HIDE DEF r
    <3>4. MigrationSound(r)
      BY <3>1, <3>2 DEF MigrationSound
    <3>. QED BY <3>2, <3>3, <3>4, MigrationMoves
  <2>. QED BY <2>2, <2>3
<1>6. ASSUME NEW m \in Migrators, Migrates(m) PROVE BaseInv'
  <2>. DEFINE d == migrating[m].db
              entities == migrating[m].entities
              s == [base[d] EXCEPT !.tables = Created(base[d].tables, entities),
                      !.guarded = IF base[d].of = "supabase"
                                  THEN base[d].guarded \cup TablesOf(entities) ELSE base[d].guarded]
  <2>1. PICK fails \in Fails :
          /\ base' \in IF fails = "no" THEN {Migrated(d, entities)} ELSE {base, Migrated(d, entities)}
          /\ migrating' = [migrating EXCEPT ![m].at = "record", ![m].fails = fails]
    BY <1>6 DEF Migrates
  <2>2. /\ migrating[m].at = "apply"
        /\ UNCHANGED <<named, blueprint, status, connecting, about, moved, silent>>
    BY <1>6 DEF Migrates
  <2>3. /\ d \in Numbers /\ base[d].of # "none" /\ entities \in Blueprints
        /\ moved \/ d = Postgres(named)
    BY <1>0, <2>2 DEF MigrationSound, MigrationRecords, Numbers
  <2>4. PICK r \in MigrationRecords :
           /\ r.at = "record" /\ r.fails = fails /\ r.db = d /\ r.entities = entities
           /\ migrating' = [migrating EXCEPT ![m] = r]
    <3>. DEFINE x == [migrating[m] EXCEPT !.at = "record", !.fails = fails]
    <3>1. /\ x \in MigrationRecords /\ x.at = "record" /\ x.fails = fails /\ x.db = d
          /\ x.entities = entities
      BY <1>0 DEF MigrationRecords
    <3>2. migrating' = [migrating EXCEPT ![m] = x]
      BY <1>0, <2>1 DEF BaseTyped
    <3>. HIDE DEF x
    <3>. QED BY <3>1, <3>2
  <2>5. base[d] \in DatabaseRecords /\ TablesOf(entities) \in SUBSET Tables
        /\ "none" \notin Entities
    BY <1>0, <2>3, MakersAreEntities, DatabasesAssumption DEF Entities
  <2>6. /\ Created(base[d].tables, entities) \in [Tables -> Entities \cup {"none"}]
        /\ \A t \in Tables : base[d].tables[t] # "none" => Created(base[d].tables, entities)[t] # "none"
        /\ \A t \in TablesOf(entities) : Created(base[d].tables, entities)[t] # "none"
    BY <2>3, <2>5, MakersAreEntities DEF Created, DatabaseRecords
  <2>. HIDE DEF entities
  <2>7. /\ s \in DatabaseRecords /\ s.of = base[d].of /\ s.steps = base[d].steps
        /\ s.tables = Created(base[d].tables, entities)
        /\ s.guarded = IF base[d].of = "supabase"
                       THEN base[d].guarded \cup TablesOf(entities) ELSE base[d].guarded
    BY <2>5, <2>6 DEF DatabaseRecords
  <2>8. Migrated(d, entities) = [base EXCEPT ![d] = s]
    BY <1>0, <2>3 DEF Migrated, BaseTyped
  <2>. HIDE DEF s
  <2>9. Grows(base[d], s) /\ Has(s, TablesOf(entities))
    BY <2>6, <2>7 DEF Grows, Has
  <2>10. CASE base' = [base EXCEPT ![d] = s]
    <3>1. \A p \in Providers : named[p] = d => s.steps = StepsOf[p]
      BY <2>3, <2>7 DEF BaseInv, NamedSound, Numbers
    <3>2. /\ base' \in [Numbers -> DatabaseRecords] /\ base'[d] = s
          /\ \A q \in Providers : NamedSound(q)'
          /\ \A x \in ConnectRecords : ConnectSound(x) => ConnectSound(x)'
          /\ \A x \in MigrationRecords : MigrationSound(x) => MigrationSound(x)'
          /\ StatusSound'
      BY <2>2, <2>3, <2>7, <2>9, <2>10, <3>1, SoundAsBaseGrows
    <3>3. MigrationSound(r)'
      <4>1. base'[r.db] = s /\ r.db # 0 /\ s.of # "none" /\ Has(s, TablesOf(r.entities))
        BY <2>3, <2>4, <2>7, <2>9, <3>2 DEF Numbers
      <4>2. moved' \/ r.db = Postgres(named')
        BY <2>2, <2>3, <2>4
      <4>. QED BY <4>1, <4>2 DEF MigrationSound
    <3>4. /\ migrating' \in [Migrators -> MigrationRecords]
          /\ \A k \in Migrators : MigrationSound(migrating[k])'
      BY <1>0, <2>4, <3>2, <3>3 DEF BaseTyped
    <3>. QED BY <1>0, <2>2, <3>2, <3>4 DEF BaseInv, BaseTyped
  <2>11. CASE base' = base /\ fails # "no"
    <3>1. MigrationSound(r)
      BY <2>3, <2>4, <2>11 DEF MigrationSound, Numbers
    <3>. QED BY <2>2, <2>4, <2>11, <3>1, MigrationMoves
  <2>. QED BY <2>1, <2>8, <2>10, <2>11
<1>7. ASSUME NEW m \in Migrators, RecordsStatus(m) PROVE BaseInv'
  <2>. DEFINE r == migrating[m]
              x == [state |-> StatusOf(r.fails), tables |-> TablesOf(r.entities)]
  <2>1. /\ r.at = "record" /\ migrating' = [migrating EXCEPT ![m] = NoMigration]
        /\ \/ status' = x /\ about' = r.db /\ silent' = (r.fails = "silent")
           \/ UNCHANGED <<status, about, silent>>
        /\ UNCHANGED <<base, named, blueprint, connecting, moved>>
    BY <1>7 DEF RecordsStatus
  <2>2. CASE UNCHANGED <<status, about, silent>>
    BY <1>0, <2>1, <2>2, MigrationMoves
  <2>3. CASE status' = x /\ about' = r.db /\ silent' = (r.fails = "silent")
    <3>1. /\ r.db # 0 /\ r.db \in 0 .. MaxDatabases /\ base[r.db].of # "none" /\ r.fails \in Fails
          /\ moved \/ r.db = Postgres(named)
          /\ r.fails = "no" => Has(base[r.db], TablesOf(r.entities))
      BY <1>0, <2>1 DEF MigrationSound, MigrationRecords
    <3>2. TablesOf(r.entities) \in SUBSET Tables
      BY <1>0, MakersAreEntities DEF MigrationRecords
    <3>3. x \in StatusRecords /\ x.tables = TablesOf(r.entities) /\ x.state = StatusOf(r.fails)
      BY <3>2 DEF StatusRecords, StatusOf
    <3>4. x.state = "ready" /\ r.fails # "silent" => r.fails = "no"
      BY <3>1, <3>3 DEF StatusOf, Fails
    <3>5. BaseTyped'
      BY <1>0, <2>1, <2>3, <3>1, <3>3 DEF BaseTyped
    <3>6. StatusSound'
      <4>. HIDE DEF x, r
      <4>. QED BY <2>1, <2>3, <3>1, <3>3, <3>4 DEF StatusSound
    <3>. QED BY <1>0, <2>1, <3>5, <3>6 DEF BaseInv, BaseTyped, NamedSound, ConnectSound, MigrationSound
  <2>. QED BY <2>1, <2>2, <2>3
<1>8. ASSUME NEW c \in Connectors, ConnectIsLost(c) PROVE BaseInv'
  BY <1>0, <1>8, ConnectMoves DEF ConnectIsLost, EndsConnect
<1>9. ASSUME NEW m \in Migrators, MigrationIsLost(m) PROVE BaseInv'
  BY <1>0, <1>9, MigrationMoves DEF MigrationIsLost
<1>10. CASE UNCHANGED databaseVars
  BY <1>10 DEF databaseVars, BaseInv, BaseTyped, NamedSound, ConnectSound, MigrationSound,
     StatusSound, Postgres, Has
<1>. QED
  BY <1>1, <1>2, <1>3, <1>4, <1>5, <1>6, <1>7, <1>8, <1>9, <1>10 DEF DatabasesNext

\* For any number of connects and migrations, any blueprints and tables: a
\* database that the document names was provisioned to the end, and tables it
\* calls ready are there, with their owner policy on Supabase, whichever calls
\* failed, were lost or overlapped, save that the migration's exception has no
\* text (connect_supabase, connect_neon, connect_firebase,
\* provision_schema_for_project).
THEOREM ConnectedDatabaseIsReal == DatabasesSpec => []ConnectedIsReal
<1>1. BaseInv => ConnectedIsReal
  <2>. SUFFICES ASSUME BaseInv PROVE ConnectedIsReal
    OBVIOUS
  <2>1. \A p \in Providers : named[p] # 0 => base[named[p]].steps = StepsOf[p]
    BY DEF BaseInv, NamedSound
  <2>. QED BY <2>1 DEF ConnectedIsReal, BaseInv, StatusSound, Has
<1>. QED
  BY <1>1, DatabasesStart, DatabasesStep, PTL DEF DatabasesSpec

------------------------------------------------------------------------------
(***************************************************************************)
(* ProjectChat.  A message without an answer has queued nothing; it is     *)
(* answered in the step that queues, or fails to, or in one that does not  *)
(* queue at all.                                                           *)
(***************************************************************************)
\* A message and the answers to one.
Places == {"idle", "agent", "sort", "ask", "decide", "queue", "over"}

\* What a model answers.
Texts == Text \cup {NoText, NotJson, Malformed}

\* A message with what its request has read.
MessageRecords == [at : Places, updating : BOOLEAN, asked : Nat, text : Texts]

\* The answers.
Replies == {"chat", "busy", "queued", "database?", "unclear", "trouble", "error"}

\* A message without an answer has queued nothing, and only one that is being
\* decided, or was answered, can have asked for a database.
MessagesInv ==
    /\ chain \in Nat /\ working \in BOOLEAN
    /\ message \in [Messages -> MessageRecords]
    /\ answer \in [Messages -> Replies \cup {"none"}]
    /\ queuedFor \in [Messages -> Nat]
    /\ \A m \in Messages :
         /\ message[m].at # "over" => answer[m] = "none" /\ queuedFor[m] = 0
         /\ message[m].at \notin {"decide", "over"} => ~message[m].text.database
    /\ AnswersAreFinal

\* Initially nothing was sent.
LEMMA ProjectChatStarts == ProjectChatInit => MessagesInv
<1>1. Unsent \in MessageRecords /\ Unsent.at = "idle" /\ ~Unsent.text.database
  BY DEF Unsent, MessageRecords, Places, Texts, NoText
<1>. QED
  BY <1>1, ChatRouteAssumption DEF ProjectChatInit, MessagesInv, Chains, AnswersAreFinal, Promising, Closing, Replies

\* A message goes on without an answer.
LEMMA MessageMoves ==
    ASSUME MessagesInv, NEW m \in Messages, NEW r \in MessageRecords,
           r.at # "over", message[m].at # "over", r.at = "decide" \/ ~r.text.database,
           message' = [message EXCEPT ![m] = r], UNCHANGED <<working, chain, answer, queuedFor>>
    PROVE  MessagesInv'
BY DEF MessagesInv, AnswersAreFinal, Replies

\* It goes on to another step as it is.
LEMMA MessageSteps ==
    ASSUME MessagesInv, NEW m \in Messages, NEW to \in Places \ {"over"}, MessageGoes(m, to),
           message[m].at # "over", message[m].at # "decide" \/ ~message[m].text.database,
           UNCHANGED <<working, chain, answer, queuedFor>>
    PROVE  MessagesInv'
<1>. DEFINE r == [message[m] EXCEPT !.at = to]
<1>1. message[m] \in MessageRecords
  BY DEF MessagesInv
<1>2. r \in MessageRecords /\ r.at = to /\ r.text = message[m].text
  BY <1>1 DEF MessageRecords, Places
<1>3. message' = [message EXCEPT ![m] = r]
  BY DEF MessageGoes, MessagesInv
<1>4. ~r.text.database /\ r.at # "over"
  BY <1>2 DEF MessagesInv
<1>. HIDE DEF r
<1>. QED
  BY <1>2, <1>3, <1>4, MessageMoves

\* It is answered, and n updates were queued for it.
LEMMA MessageAnswered ==
    ASSUME MessagesInv, NEW m \in Messages, NEW what \in Replies, NEW n \in {0, 1},
           message[m].at # "over", Answers(m, what),
           queuedFor' = [queuedFor EXCEPT ![m] = n], UNCHANGED <<working, chain>>,
           what = "queued" => n = 1,
           n = 1 => what \in {"queued", "error"} /\ ~message[m].text.database,
           what = "trouble" => message[m].asked = chain
    PROVE  MessagesInv'
<1>. DEFINE r == [message[m] EXCEPT !.at = "over", !.updating = FALSE]
<1>1. message[m] \in MessageRecords
  BY DEF MessagesInv
<1>2. /\ r \in MessageRecords /\ r.at = "over"
      /\ r.text = message[m].text /\ r.asked = message[m].asked
  BY <1>1 DEF MessageRecords, Places
<1>3. message' = [message EXCEPT ![m] = r]
  BY DEF Answers, MessagesInv
<1>4. answer' = [answer EXCEPT ![m] = what]
  BY DEF Answers
<1>. HIDE DEF r
<1>. QED
  BY <1>2, <1>3, <1>4 DEF MessagesInv, AnswersAreFinal, Promising, Closing

\* It is answered without an update.
LEMMA MessageRefused ==
    ASSUME MessagesInv, NEW m \in Messages, NEW what \in Replies \ {"queued"},
           message[m].at # "over", Answers(m, what), UNCHANGED <<working, chain, queuedFor>>,
           what = "trouble" => message[m].asked = chain
    PROVE  MessagesInv'
<1>1. queuedFor' = [queuedFor EXCEPT ![m] = 0]
  BY DEF MessagesInv
<1>2. 0 \in {0, 1} /\ what \in Replies /\ what # "queued" /\ 0 # 1
  OBVIOUS
<1>. QED
  BY <1>1, <1>2, MessageAnswered

\* Every step keeps the invariant.
LEMMA ProjectChatStep == MessagesInv /\ [ProjectChatNext]_projectChatVars => MessagesInv'
<1>. SUFFICES ASSUME MessagesInv, [ProjectChatNext]_projectChatVars PROVE MessagesInv'
  OBVIOUS
<1>0. ASSUME NEW m \in Messages, message[m].at \notin {"idle", "over"},
             message[m].at # "decide" \/ ~message[m].text.database,
             QueueOrBusy(m), UNCHANGED <<working, chain, queuedFor>>
      PROVE  MessagesInv'
  BY <1>0, MessageSteps, MessageRefused DEF QueueOrBusy, Places, Replies
<1>1. ASSUME NEW m \in Messages, Sends(m) PROVE MessagesInv'
  <2>. DEFINE r == [message[m] EXCEPT !.at = "agent", !.updating = working]
  <2>1. message[m] \in MessageRecords /\ message[m].at = "idle" /\ ~message[m].text.database
    BY <1>1 DEF Sends, MessagesInv
  <2>4. working \in BOOLEAN
    BY DEF MessagesInv
  <2>2. r \in MessageRecords /\ r.at = "agent" /\ r.text = message[m].text
    BY <2>1, <2>4 DEF MessageRecords, Places
  <2>3. message' = [message EXCEPT ![m] = r]
    BY <1>1 DEF Sends, MessagesInv
  <2>. HIDE DEF r
  <2>. QED
    BY <1>1, <2>1, <2>2, <2>3, MessageMoves DEF Sends, MessagesInv
<1>2. ASSUME NEW m \in Messages, ChoosesAgent(m) PROVE MessagesInv'
  BY <1>2, MessageSteps, MessageRefused DEF ChoosesAgent, Places, Replies
<1>3. ASSUME NEW m \in Messages, Sorts(m) PROVE MessagesInv'
  BY <1>0, <1>3, MessageSteps DEF Sorts, Places
<1>4. ASSUME NEW m \in Messages, AsksModel(m) PROVE MessagesInv'
  <2>1. message[m] \in MessageRecords /\ message[m].at = "ask" /\ ~message[m].text.database
    BY <1>4 DEF AsksModel, MessagesInv
  <2>2. CASE Troubled(m) /\ message[m].asked = chain
    BY <1>4, <2>1, <2>2, MessageRefused DEF Troubled, AsksModel, Replies
  <2>3. CASE message' = [message EXCEPT ![m].asked = @ + 1] /\ UNCHANGED answer
    <3>. DEFINE r == [message[m] EXCEPT !.asked = @ + 1]
    <3>1. r \in MessageRecords /\ r.at = "ask" /\ r.text = message[m].text
      BY <2>1 DEF MessageRecords
    <3>2. message' = [message EXCEPT ![m] = r]
      BY <2>3 DEF MessagesInv
    <3>. HIDE DEF r
    <3>. QED BY <1>4, <2>1, <2>3, <3>1, <3>2, MessageMoves DEF AsksModel
  <2>4. ASSUME NEW t \in Texts, UNCHANGED answer,
               message' = [message EXCEPT ![m].at = "decide", ![m].asked = @ + 1, ![m].text = t]
        PROVE  MessagesInv'
    <3>. DEFINE r == [message[m] EXCEPT !.at = "decide", !.asked = message[m].asked + 1, !.text = t]
    <3>1. "decide" \in Places /\ message[m].asked + 1 \in Nat
      BY <2>1 DEF MessageRecords, Places
    <3>2. r \in MessageRecords /\ r.at = "decide"
      BY <2>1, <3>1 DEF MessageRecords
    <3>3. message' = [message EXCEPT ![m] = r]
      BY <2>4 DEF MessagesInv
    <3>. HIDE DEF r
    <3>. QED BY <1>4, <2>1, <2>4, <3>2, <3>3, MessageMoves DEF AsksModel
  <2>. QED BY <1>4, <2>2, <2>3, <2>4 DEF AsksModel, Completes, Texts
<1>5. ASSUME NEW m \in Messages, Decides(m) PROVE MessagesInv'
  BY <1>0, <1>5, MessageRefused DEF Decides, Resolves, Replies
<1>6. ASSUME NEW m \in Messages, QueuesUpdate(m) PROVE MessagesInv'
  <2>1. message[m].at = "queue" /\ ~message[m].text.database /\ queuedFor[m] = 0 /\ UNCHANGED <<working, chain>>
    BY <1>6 DEF QueuesUpdate, MessagesInv
  <2>2. PICK what \in {"queued", "error"} :
          Answers(m, what) /\ queuedFor' \in {queuedFor, [queuedFor EXCEPT ![m] = @ + 1]}
            /\ (what = "queued" => queuedFor' = [queuedFor EXCEPT ![m] = @ + 1])
    BY <1>6 DEF QueuesUpdate
  <2>3. queuedFor' = [queuedFor EXCEPT ![m] = 0] \/ queuedFor' = [queuedFor EXCEPT ![m] = 1]
    BY <2>1, <2>2 DEF MessagesInv
  <2>4. what = "queued" => queuedFor' = [queuedFor EXCEPT ![m] = 1]
    BY <2>1, <2>2 DEF MessagesInv
  <2>. QED BY <2>1, <2>2, <2>3, <2>4, MessageAnswered DEF Replies
<1>7. CASE ProjectWorks
  BY <1>7 DEF ProjectWorks, MessagesInv, AnswersAreFinal
<1>8. CASE UNCHANGED projectChatVars
  BY <1>8 DEF projectChatVars, MessagesInv, AnswersAreFinal
<1>. QED
  BY <1>1, <1>2, <1>3, <1>4, <1>5, <1>6, <1>7, <1>8 DEF ProjectChatNext

\* For any number of messages and chains of any length, whatever runs begin and
\* end: an update the user is told of was queued, once; after any other answer
\* but an error none ever is, not even after the one that promises to queue the
\* message when the run in progress ends (projects.py:506, 821, 863); and she is
\* told of trouble only when every model was asked (chat_with_project,
\* chat_openrouter).
THEOREM AnswersStayFinal == ProjectChatSpec => []AnswersAreFinal
<1>1. MessagesInv => AnswersAreFinal
  BY DEF MessagesInv
<1>. QED
  BY <1>1, ProjectChatStarts, ProjectChatStep, PTL DEF ProjectChatSpec
==============================================================================
