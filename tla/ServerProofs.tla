---------------------------- MODULE ServerProofs ----------------------------
(* Theorems about the server, for every set of requests, clients and models  *)
(* and every configuration, with schedulers swapped at any time.             *)
EXTENDS Server, FiniteSetTheorems, FunctionTheorems, TLAPS

USE OwnerAssumption, ConfigAssumption, ServerAssumption

(* The inductive invariant: a permit can only be accounted for if the tasks  *)
(* of a model are finitely many, and a task only starts for a request that   *)
(* has no task already, which is what OneHome says.                          *)
IInv ==
  /\ TypeOK
  /\ OneHome
  /\ \A m \in Model : IsFiniteSet(TasksOf(m))
  /\ PermitsConserved

-----------------------------------------------------------------------------
(* Operators.                                                                *)

LEMMA AfterSubmitHolds ==
  ASSUME NEW q, NEW r, NEW n \in AfterSubmit(q, r)
  PROVE  r \in n /\ n \subseteq q \union {r}
BY DEF AfterSubmit

(* End leaves no request of R pending and does not touch the others.         *)
LEMMA EndFacts ==
  ASSUME TypeOK, NEW R, End(R)
  PROVE  /\ pending' = pending \ R /\ pending' \subseteq Request
         /\ retry' \in [Request -> 0 .. MaxRetries]
         /\ aged' \subseteq Request
<1>1. 0 \in 0 .. MaxRetries
  OBVIOUS
<1> QED
  BY <1>1 DEF End, TypeOK

(* Fail either queues r again and leaves it pending or ends it.              *)
LEMMA FailFacts ==
  ASSUME TypeOK, NEW r \in Request, Fail(r)
  PROVE  /\ pending' \subseteq Request
         /\ retry' \in [Request -> 0 .. MaxRetries]
         /\ aged' \subseteq Request
         /\ queue' \subseteq Request
         /\ \/ queue' = queue \union {r} /\ pending' = pending
            \/ queue' = queue /\ pending' = pending \ {r}
<1>1. CASE /\ retry[r] < MaxRetries
           /\ retry' = [retry EXCEPT ![r] = @ + 1]
           /\ queue' = queue \union {r}
           /\ UNCHANGED <<aged, pending>>
  <2>1. retry[r] \in 0 .. MaxRetries
    BY DEF TypeOK
  <2>2. retry[r] + 1 \in 0 .. MaxRetries
    BY <1>1, <2>1
  <2> QED
    BY <1>1, <2>2 DEF TypeOK
<1>2. CASE End({r}) /\ UNCHANGED queue
  BY <1>2, EndFacts DEF TypeOK
<1> QED
  BY <1>1, <1>2 DEF Fail

-----------------------------------------------------------------------------
(* Permits.                                                                  *)

\* The part of the invariant about permits.
Permits ==
  /\ \A m \in Model : IsFiniteSet(TasksOf(m))
  /\ PermitsConserved

LEMMA PermitsSame ==
  ASSUME IInv, \A r \in Request : task'[r] = "none" <=> task[r] = "none",
         permits' = permits, \A m \in Model : loop'[m] = "none" <=> loop[m] = "none"
  PROVE  Permits'
<1>1. \A m : TasksOf(m)' = TasksOf(m)
  BY DEF TasksOf
<1> QED
  BY <1>1 DEF IInv, Permits, PermitsConserved

(* A task starts for a request of m that has none: one permit is taken.      *)
LEMMA PermitTaken ==
  ASSUME IInv, NEW r \in Request, task[r] = "none", loop[ModelOf[r]] # "none",
         permits[ModelOf[r]] > 0,
         task' = [task EXCEPT ![r] = "dispatch"],
         permits' = [permits EXCEPT ![ModelOf[r]] = @ - 1], loop' = loop
  PROVE  Permits' /\ permits' \in [Model -> Nat]
<1> DEFINE m == ModelOf[r]
<1>1. m \in Model /\ permits[m] \in Nat /\ permits \in [Model -> Nat]
  BY DEF IInv, TypeOK
<1>2. TasksOf(m)' = TasksOf(m) \union {r} /\ r \notin TasksOf(m)
  BY DEF TasksOf, IInv, TypeOK
<1>3. \A k \in Model \ {m} : TasksOf(k)' = TasksOf(k) /\ permits'[k] = permits[k]
  BY <1>1 DEF TasksOf, IInv, TypeOK
<1>4. IsFiniteSet(TasksOf(m)) /\ permits[m] + Cardinality(TasksOf(m)) = MaxInflight[m]
  BY <1>1 DEF IInv, PermitsConserved
<1>5. /\ IsFiniteSet(TasksOf(m)')
      /\ Cardinality(TasksOf(m)') = Cardinality(TasksOf(m)) + 1
      /\ Cardinality(TasksOf(m)) \in Nat
  BY <1>2, <1>4, FS_AddElement, FS_CardinalityType
<1>6. permits'[m] = permits[m] - 1 /\ permits' \in [Model -> Nat]
  BY <1>1
<1>7. permits'[m] + Cardinality(TasksOf(m)') = MaxInflight[m]
  BY <1>1, <1>4, <1>5, <1>6
<1> HIDE DEF m
<1> QED
  BY <1>1, <1>3, <1>5, <1>6, <1>7 DEF IInv, Permits, PermitsConserved, m

(* A task ends, whatever came of it: its permit is released.                 *)
LEMMA PermitReleased ==
  ASSUME IInv, NEW r \in Request, task[r] # "none",
         task' = [task EXCEPT ![r] = "none"], Release(ModelOf[r]), loop' = loop
  PROVE  Permits' /\ permits' \in [Model -> Nat]
<1> DEFINE m == ModelOf[r]
<1>1. m \in Model /\ permits[m] \in Nat /\ permits \in [Model -> Nat]
  BY DEF IInv, TypeOK
<1>2. TasksOf(m)' = TasksOf(m) \ {r} /\ r \in TasksOf(m)
  BY DEF TasksOf, IInv, TypeOK
<1>3. loop[m] # "none"
  BY <1>1, <1>2 DEF IInv, PermitsConserved
<1>4. \A k \in Model \ {m} : TasksOf(k)' = TasksOf(k) /\ permits'[k] = permits[k]
  BY <1>1 DEF TasksOf, Release, IInv, TypeOK
<1>5. IsFiniteSet(TasksOf(m)) /\ permits[m] + Cardinality(TasksOf(m)) = MaxInflight[m]
  BY <1>1, <1>3 DEF IInv, PermitsConserved
<1>6. /\ IsFiniteSet(TasksOf(m)')
      /\ Cardinality(TasksOf(m)') = Cardinality(TasksOf(m)) - 1
      /\ Cardinality(TasksOf(m)) \in Nat
  BY <1>2, <1>5, FS_RemoveElement, FS_CardinalityType
<1>7. permits'[m] = permits[m] + 1 /\ permits' \in [Model -> Nat]
  BY <1>1 DEF Release
<1>8. permits'[m] + Cardinality(TasksOf(m)') = MaxInflight[m]
  BY <1>1, <1>5, <1>6, <1>7
<1> HIDE DEF m
<1> QED
  BY <1>1, <1>3, <1>4, <1>6, <1>7, <1>8 DEF IInv, Permits, PermitsConserved, m


-----------------------------------------------------------------------------
(* The actions.                                                              *)

LEMMA InitIInv == Init => IInv
<1> SUFFICES ASSUME Init PROVE IInv
  OBVIOUS
<1>1. TypeOK
  <2>1. 0 \in 0 .. MaxRetries
    OBVIOUS
  <2> QED
    BY <2>1 DEF Init, TypeOK
<1>2. OneHome
  BY DEF Init, OneHome
<1>3. \A m : TasksOf(m) = {}
  BY DEF Init, TasksOf
<1>4. Permits
  BY <1>3, FS_EmptySet DEF Init, Permits, PermitsConserved
<1> QED
  BY <1>1, <1>2, <1>4 DEF IInv, Permits

LEMMA EnsureKeeps ==
  ASSUME IInv, NEW m \in Model, EnsureAndWake(m), task' = task
  PROVE  /\ loop' \in [Model -> {"none", "acquire", "yield", "wait"}]
         /\ permits' \in [Model -> Nat]
         /\ event' \in [Model -> BOOLEAN]
         /\ Permits'
<1>1. \A k : TasksOf(k)' = TasksOf(k)
  BY DEF TasksOf
<1>2. CASE sched = "aware" /\ loop[m] = "none"
  <2>1. /\ event' = [event EXCEPT ![m] = TRUE]
        /\ loop' = [loop EXCEPT ![m] = "acquire"]
        /\ permits' = [permits EXCEPT ![m] = MaxInflight[m]]
    BY <1>2 DEF EnsureAndWake
  <2>2. MaxInflight[m] \in Nat
    OBVIOUS
  <2>3. TasksOf(m) = {}
    BY <1>2 DEF IInv, PermitsConserved
  <2>4. Cardinality(TasksOf(m)) = 0
    BY <2>3, FS_EmptySet
  <2>5. permits'[m] + Cardinality(TasksOf(m)') = MaxInflight[m] /\ loop'[m] # "none"
    BY <1>1, <2>1, <2>2, <2>4 DEF IInv, TypeOK
  <2>6. \A k \in Model \ {m} : loop'[k] = loop[k] /\ permits'[k] = permits[k]
    BY <2>1 DEF IInv, TypeOK
  <2>7. Permits'
    BY <1>1, <2>5, <2>6 DEF IInv, Permits, PermitsConserved
  <2> QED
    BY <2>1, <2>2, <2>7 DEF IInv, TypeOK
<1>3. CASE ~(sched = "aware" /\ loop[m] = "none")
  <2>1. loop' = loop /\ permits' = permits /\ event' \in [Model -> BOOLEAN]
    BY <1>3 DEF EnsureAndWake, loopVars, IInv, TypeOK
  <2> QED
    BY <2>1, PermitsSame DEF IInv, TypeOK
<1> QED
  BY <1>2, <1>3

LEMMA ReceiveKeeps ==
  ASSUME IInv, NEW r \in Request, Receive(r)
  PROVE  IInv'
<1>1. /\ running /\ r \notin pending
      /\ running' = running /\ sched' = sched /\ task' = task /\ batch' = batch
      /\ silent' \subseteq Client
  BY DEF Receive, IInv, TypeOK
<1>2. r \notin queue /\ task[r] = "none" /\ batch[r] = "none"
  BY <1>1 DEF IInv, OneHome, TypeOK
<1>3. CASE /\ AfterSubmit(queue, r) = {}
           /\ UNCHANGED <<queue, loopVars, retry, aged, pending>>
  <2>1. UNCHANGED <<queue, loop, permits, event, retry, aged, pending>>
    BY <1>3 DEF loopVars
  <2>2. TypeOK'
    BY <1>1, <2>1 DEF IInv, TypeOK
  <2>3. OneHome'
    BY <1>1, <2>1 DEF IInv, OneHome
  <2>4. Permits'
    BY <1>1, <2>1, PermitsSame
  <2> QED
    BY <2>2, <2>3, <2>4 DEF IInv, Permits
<1>4. CASE /\ queue' \in AfterSubmit(queue, r)
           /\ LET lost == queue \ queue' IN
                /\ pending' = (pending \ lost) \union {r}
                /\ retry' = [x \in Request |-> IF x \in lost \union {r} THEN 0 ELSE retry[x]]
                /\ aged' = aged \ (lost \union {r})
           /\ EnsureAndWake(ModelOf[r])
  <2>1. r \in queue' /\ queue' \subseteq queue \union {r}
    BY <1>4, AfterSubmitHolds
  <2>3. pending' = (pending \ (queue \ queue')) \union {r}
    BY <1>4
  <2>4. retry' \in [Request -> 0 .. MaxRetries] /\ aged' \subseteq Request
    <3>1. 0 \in 0 .. MaxRetries
      OBVIOUS
    <3> QED
      BY <1>4, <3>1 DEF IInv, TypeOK
  <2>5. /\ loop' \in [Model -> {"none", "acquire", "yield", "wait"}]
        /\ permits' \in [Model -> Nat]
        /\ event' \in [Model -> BOOLEAN]
        /\ Permits'
    <3>1. ModelOf[r] \in Model
      OBVIOUS
    <3> QED
      BY <1>1, <1>4, <3>1, EnsureKeeps
  <2>6. TypeOK'
    BY <1>1, <2>1, <2>3, <2>4, <2>5 DEF IInv, TypeOK
  <2>7. OneHome'
    BY <1>1, <1>2, <2>1, <2>3 DEF IInv, OneHome
  <2> QED
    BY <2>5, <2>6, <2>7 DEF IInv, Permits
<1> QED
  BY <1>3, <1>4 DEF Receive

LEMMA LoopKeeps ==
  ASSUME IInv, NEW m \in Model, LoopStep(m)
  PROVE  IInv'
<1>1. CASE LoopTakes(m)
  <2>1. PICK r \in OfModel(queue, m) :
          queue' = queue \ {r} /\ task' = [task EXCEPT ![r] = "dispatch"]
    BY <1>1 DEF LoopTakes
  <2>2. /\ permits[m] > 0 /\ loop[m] # "none"
        /\ permits' = [permits EXCEPT ![m] = @ - 1]
        /\ UNCHANGED <<running, sched, loop, event, batch, retry, aged, silent, pending>>
    BY <1>1 DEF LoopTakes, AtAcquire
  <2>3. r \in Request /\ r \in queue /\ ModelOf[r] = m
    BY DEF OfModel, IInv, TypeOK
  <2>4. task[r] = "none" /\ batch[r] = "none" /\ r \in pending
    BY <2>3 DEF IInv, OneHome
  <2>5. Permits' /\ permits' \in [Model -> Nat]
    BY <2>1, <2>2, <2>3, <2>4, PermitTaken
  <2>6. TypeOK'
    BY <2>1, <2>2, <2>3, <2>5 DEF IInv, TypeOK
  <2>7. OneHome'
    BY <2>1, <2>2, <2>3, <2>4 DEF IInv, OneHome, TypeOK
  <2> QED
    BY <2>5, <2>6, <2>7 DEF IInv, Permits
<1>2. CASE LoopFindsNone(m) \/ LoopYields(m) \/ LoopResumes(m)
  <2>1. /\ UNCHANGED <<running, sched, queue, permits, task, batch, retry, aged,
                       silent, pending>>
        /\ event' \in [Model -> BOOLEAN]
        /\ loop' \in [Model -> {"none", "acquire", "yield", "wait"}]
        /\ \A k \in Model : loop'[k] = "none" <=> loop[k] = "none"
    <3>1. CASE LoopFindsNone(m)
      BY <3>1 DEF LoopFindsNone, AtAcquire, IInv, TypeOK
    <3>2. CASE LoopYields(m)
      BY <3>2 DEF LoopYields, AtAcquire, IInv, TypeOK
    <3>3. CASE LoopResumes(m)
      <4>1. event' \in [Model -> BOOLEAN]
        <5>1. CASE event' = [event EXCEPT ![m] = FALSE]
          BY <5>1 DEF IInv, TypeOK
        <5> QED
          BY <3>3, <5>1 DEF LoopResumes, IInv, TypeOK
      <4>2. loop[m] # "none" /\ loop' = [loop EXCEPT ![m] = "acquire"]
        BY <3>3 DEF LoopResumes
      <4>3. UNCHANGED <<running, sched, queue, permits, task, batch, retry, aged,
                        silent, pending>>
        BY <3>3 DEF LoopResumes
      <4>4. /\ loop' \in [Model -> {"none", "acquire", "yield", "wait"}]
            /\ \A k \in Model : loop'[k] = "none" <=> loop[k] = "none"
        BY <4>2 DEF IInv, TypeOK
      <4> QED
        BY <4>1, <4>3, <4>4
    <3> QED
      BY <1>2, <3>1, <3>2, <3>3
  <2>2. Permits'
    BY <2>1, PermitsSame
  <2>3. TypeOK'
    BY <2>1 DEF IInv, TypeOK
  <2>4. OneHome'
    BY <2>1 DEF IInv, OneHome
  <2> QED
    BY <2>2, <2>3, <2>4 DEF IInv, Permits
<1> QED
  BY <1>1, <1>2 DEF LoopStep

LEMMA TaskKeeps ==
  ASSUME IInv, NEW r \in Request, TaskStep(r)
  PROVE  IInv'
<1>1. CASE TaskSucceeds(r)
  <2>1. /\ task[r] = "dispatch" /\ task' = [task EXCEPT ![r] = "send"]
        /\ UNCHANGED <<running, sched, queue, loop, permits, event, batch, retry,
                       aged, silent, pending>>
    BY <1>1 DEF TaskSucceeds, loopVars
  <2>2. \A x \in Request : task'[x] = "none" <=> task[x] = "none"
    BY <2>1 DEF IInv, TypeOK
  <2>3. Permits'
    BY <2>1, <2>2, PermitsSame
  <2>4. TypeOK'
    BY <2>1 DEF IInv, TypeOK
  <2>5. OneHome'
    BY <2>1, <2>2 DEF IInv, OneHome
  <2> QED
    BY <2>3, <2>4, <2>5 DEF IInv, Permits
<1>2. CASE TaskFails(r)
  <2>1. /\ Fail(r) /\ task[r] # "none" /\ task' = [task EXCEPT ![r] = "none"]
        /\ Release(ModelOf[r])
        /\ UNCHANGED <<running, sched, loop, event, batch, silent>>
    BY <1>2 DEF TaskFails
  <2>2. r \notin queue /\ batch[r] = "none" /\ r \in pending
    BY <2>1 DEF IInv, OneHome
  <2>3. Permits' /\ permits' \in [Model -> Nat]
    BY <2>1, PermitReleased
  <2>4. TypeOK'
    BY <2>1, <2>3, FailFacts DEF IInv, TypeOK
  <2>5. \/ queue' = queue \union {r} /\ pending' = pending
        \/ queue' = queue /\ pending' = pending \ {r}
    BY <2>1, FailFacts DEF IInv
  <2>6. task'[r] = "none" /\ \A x \in Request \ {r} : task'[x] = task[x]
    BY <2>1 DEF IInv, TypeOK
  <2>7. OneHome'
    BY <2>1, <2>2, <2>5, <2>6 DEF IInv, OneHome
  <2> QED
    BY <2>3, <2>4, <2>7 DEF IInv, Permits
<1>3. ASSUME task[r] # "none", TaskEnds(r)
      PROVE  IInv'
  <2>1. /\ End({r}) /\ task' = [task EXCEPT ![r] = "none"]
        /\ Release(ModelOf[r])
        /\ UNCHANGED <<running, sched, queue, loop, event, batch, silent>>
    BY <1>3 DEF TaskEnds
  <2>2. r \notin queue /\ batch[r] = "none"
    BY <1>3 DEF IInv, OneHome
  <2>3. Permits' /\ permits' \in [Model -> Nat]
    BY <1>3, <2>1, PermitReleased
  <2>4. TypeOK'
    BY <2>1, <2>3, EndFacts DEF IInv, TypeOK
  <2>5. pending' = pending \ {r}
    BY <2>1, EndFacts DEF IInv
  <2>6. task'[r] = "none" /\ \A x \in Request \ {r} : task'[x] = task[x]
    BY <2>1 DEF IInv, TypeOK
  <2>7. OneHome'
    BY <2>1, <2>2, <2>5, <2>6 DEF IInv, OneHome
  <2> QED
    BY <2>3, <2>4, <2>7 DEF IInv, Permits
<1> QED
  BY <1>1, <1>2, <1>3 DEF TaskStep, TaskRaises, TaskSends

LEMMA LegacyKeeps ==
  ASSUME IInv, LegacyStep
  PROVE  IInv'
<1>1. CASE LegacyTakes
  <2>1. PICK B \in SUBSET queue :
          /\ queue' = queue \ B
          /\ batch' = [r \in Request |-> IF r \in B THEN "dispatch" ELSE batch[r]]
    BY <1>1 DEF LegacyTakes
  <2>2. UNCHANGED <<running, sched, loop, permits, event, task, retry, aged, silent,
                    pending>>
    BY <1>1 DEF LegacyTakes, loopVars
  <2>3. Permits'
    BY <2>2, PermitsSame
  <2>4. TypeOK'
    BY <2>1, <2>2 DEF IInv, TypeOK
  <2>5. OneHome'
    BY <2>1, <2>2 DEF IInv, OneHome
  <2> QED
    BY <2>3, <2>4, <2>5 DEF IInv, Permits
<1>2. CASE LegacyReturns
  <2>1. PICK good \in SUBSET Batch :
          batch' = [r \in Request |-> IF r \notin Batch THEN "none"
                                      ELSE IF r \in good THEN "ok" ELSE "error"]
    BY <1>2 DEF LegacyReturns
  <2>2. UNCHANGED <<running, sched, queue, loop, permits, event, task, retry, aged,
                    silent, pending>>
    BY <1>2 DEF LegacyReturns, loopVars
  <2>3. Permits'
    BY <2>2, PermitsSame
  <2>4. \A r \in Request : batch'[r] = "none" <=> batch[r] = "none"
    BY <2>1 DEF Batch
  <2>5. TypeOK'
    BY <2>1, <2>2 DEF IInv, TypeOK
  <2>6. OneHome'
    BY <2>2, <2>4 DEF IInv, OneHome
  <2> QED
    BY <2>3, <2>5, <2>6 DEF IInv, Permits
<1>3. CASE LegacyRaises
  <2>1. /\ running' = FALSE
        /\ End(Batch)
        /\ batch' = [r \in Request |-> "none"]
        /\ UNCHANGED <<sched, queue, loop, permits, event, task, silent>>
    BY <1>3 DEF LegacyRaises, loopVars
  <2>2. Permits'
    BY <2>1, PermitsSame
  <2>3. TypeOK'
    BY <2>1, EndFacts DEF IInv, TypeOK
  <2>4. \A r \in Request : r \in pending' <=> r \in pending /\ batch[r] = "none"
    BY <2>1, EndFacts DEF IInv, Batch
  <2>5. OneHome'
    BY <2>1, <2>4 DEF IInv, OneHome
  <2> QED
    BY <2>2, <2>3, <2>5 DEF IInv, Permits
<1>4. ASSUME NEW r \in Request, LegacyFails(r)
      PROVE  IInv'
  <2>1. /\ Fail(r) /\ batch[r] # "none" /\ batch' = [batch EXCEPT ![r] = "none"]
        /\ UNCHANGED <<running, sched, loop, permits, event, task, silent>>
    BY <1>4 DEF LegacyFails, loopVars
  <2>2. r \notin queue /\ task[r] = "none" /\ r \in pending
    BY <2>1 DEF IInv, OneHome, TypeOK
  <2>3. Permits'
    BY <2>1, PermitsSame
  <2>4. TypeOK'
    BY <2>1, FailFacts DEF IInv, TypeOK
  <2>5. \/ queue' = queue \union {r} /\ pending' = pending
        \/ queue' = queue /\ pending' = pending \ {r}
    BY <2>1, FailFacts DEF IInv
  <2>6. batch'[r] = "none" /\ \A x \in Request \ {r} : batch'[x] = batch[x]
    BY <2>1 DEF IInv, TypeOK
  <2>7. OneHome'
    BY <2>1, <2>2, <2>5, <2>6 DEF IInv, OneHome
  <2> QED
    BY <2>3, <2>4, <2>7 DEF IInv, Permits
<1>5. ASSUME NEW r \in Request, LegacySends(r)
      PROVE  IInv'
  <2>1. /\ batch[r] # "none" /\ batch' = [batch EXCEPT ![r] = "send"]
        /\ UNCHANGED <<running, sched, queue, loop, permits, event, task, retry, aged,
                       silent, pending>>
    BY <1>5 DEF LegacySends, loopVars
  <2>2. Permits'
    BY <2>1, PermitsSame
  <2>3. \A x \in Request : batch'[x] = "none" <=> batch[x] = "none"
    BY <2>1 DEF IInv, TypeOK
  <2>4. TypeOK'
    BY <2>1 DEF IInv, TypeOK
  <2>5. OneHome'
    BY <2>1, <2>3 DEF IInv, OneHome
  <2> QED
    BY <2>2, <2>4, <2>5 DEF IInv, Permits
<1>6. ASSUME NEW r \in Request, LegacySent(r)
      PROVE  IInv'
  <2>1. End({r})
    BY <1>6 DEF LegacySent
  <2>2. /\ batch[r] # "none" /\ batch' = [batch EXCEPT ![r] = "none"]
        /\ UNCHANGED <<running, sched, queue, loop, permits, event, task, silent>>
    BY <1>6 DEF LegacySent, loopVars
  <2>3. r \notin queue /\ task[r] = "none"
    BY <2>2 DEF IInv, OneHome, TypeOK
  <2>4. Permits'
    BY <2>2, PermitsSame
  <2>5. TypeOK'
    BY <2>1, <2>2, EndFacts DEF IInv, TypeOK
  <2>6. pending' = pending \ {r}
    BY <2>1, EndFacts DEF IInv
  <2>7. batch'[r] = "none" /\ \A x \in Request \ {r} : batch'[x] = batch[x]
    BY <2>2 DEF IInv, TypeOK
  <2>8. OneHome'
    BY <2>2, <2>3, <2>6, <2>7 DEF IInv, OneHome
  <2> QED
    BY <2>4, <2>5, <2>8 DEF IInv, Permits
<1> QED
  BY <1>1, <1>2, <1>3, <1>4, <1>5, <1>6 DEF LegacyStep

LEMMA TickKeeps ==
  ASSUME IInv, Tick
  PROVE  IInv'
<1>1. PICK purging \in BOOLEAN :
        LET expired == queue \intersect aged
            purged == IF purging
                        THEN {r \in queue \ expired : ClientOf[r] \in silent} ELSE {}
            gone == expired \union purged
        IN  queue' = queue \ gone /\ End(gone)
  BY DEF Tick
<1>2. UNCHANGED <<running, sched, loop, permits, event, task, batch, silent>>
  BY DEF Tick, loopVars
<1> DEFINE expired == queue \intersect aged
           purged == IF purging
                       THEN {r \in queue \ expired : ClientOf[r] \in silent} ELSE {}
           gone == expired \union purged
<1>3. gone \subseteq queue
  OBVIOUS
<1>4. queue' = queue \ gone /\ End(gone)
  BY <1>1
<1> HIDE DEF gone
<1>5. Permits'
  BY <1>2, PermitsSame
<1>6. TypeOK'
  BY <1>2, <1>4, EndFacts DEF IInv, TypeOK
<1>7. OneHome'
  BY <1>2, <1>3, <1>4, EndFacts DEF IInv, OneHome
<1> QED
  BY <1>5, <1>6, <1>7 DEF IInv, Permits

(* A swap ends exactly what is queued; tasks and batch keep their requests.  *)
LEMMA SwapKeeps ==
  ASSUME IInv, UseScheduler
  PROVE  IInv'
<1>1. /\ sched' \in {"aware", "plain"} /\ End(queue) /\ queue' = {}
      /\ UNCHANGED <<running, loop, permits, event, task, batch, silent>>
  BY DEF UseScheduler, loopVars
<1>2. Permits'
  BY <1>1, PermitsSame
<1>3. TypeOK'
  BY <1>1, EndFacts DEF IInv, TypeOK
<1>4. OneHome'
  BY <1>1, EndFacts DEF IInv, OneHome
<1> QED
  BY <1>2, <1>3, <1>4 DEF IInv, Permits

\* Age, Silence, PredictiveWake: requests and permits stay where they are.
LEMMA OthersKeep ==
  ASSUME IInv,
         \/ \E r \in Request : Age(r)
         \/ \E c \in Client : Silence(c) \/ PredictiveWake(c)
  PROVE  IInv'
<1>1. /\ UNCHANGED <<running, sched, queue, loop, permits, task, batch, retry, pending>>
      /\ event' \in [Model -> BOOLEAN] /\ aged' \subseteq Request
      /\ silent' \subseteq Client
  <2>1. CASE \E r \in Request : Age(r)
    BY <2>1 DEF Age, loopVars, IInv, TypeOK
  <2>2. CASE \E c \in Client : Silence(c)
    BY <2>2 DEF Silence, loopVars, IInv, TypeOK
  <2>3. ASSUME NEW c \in Client, PredictiveWake(c)
        PROVE  /\ UNCHANGED <<running, sched, queue, loop, permits, task, batch, retry,
                              aged, silent, pending>>
               /\ event' \in [Model -> BOOLEAN]
    <3>1. PICK M : event' = [m \in Model |-> m \in M \/ event[m]]
      BY <2>3 DEF PredictiveWake
    <3>2. \A m \in Model : (m \in M \/ event[m]) \in BOOLEAN
      BY Zenon DEF IInv, TypeOK
    <3>3. event' \in [Model -> BOOLEAN]
      BY <3>1, <3>2
    <3> QED
      BY <2>3, <3>3 DEF PredictiveWake
  <2> QED
    BY <2>1, <2>2, <2>3 DEF IInv, TypeOK
<1>2. Permits'
  BY <1>1, PermitsSame
<1>3. TypeOK'
  BY <1>1 DEF IInv, TypeOK
<1>4. OneHome'
  BY <1>1 DEF IInv, OneHome
<1> QED
  BY <1>2, <1>3, <1>4 DEF IInv, Permits

LEMMA NextIInv ==
  ASSUME IInv, [Next]_vars
  PROVE  IInv'
<1>1. ASSUME NEW r \in Request, Receive(r) \/ TaskStep(r) \/ Age(r)
      PROVE  IInv'
  BY <1>1, ReceiveKeeps, TaskKeeps, OthersKeep
<1>2. ASSUME NEW m \in Model, LoopStep(m)
      PROVE  IInv'
  BY <1>2, LoopKeeps
<1>3. CASE LegacyStep \/ Tick \/ UseScheduler
  BY <1>3, LegacyKeeps, TickKeeps, SwapKeeps
<1>4. ASSUME NEW c \in Client, Silence(c) \/ PredictiveWake(c)
      PROVE  IInv'
  BY <1>4, OthersKeep
<1>5. CASE UNCHANGED vars
  <2>1. UNCHANGED <<running, sched, queue, loop, permits, event, task, batch, retry,
                    aged, silent, pending>>
    BY <1>5 DEF vars
  <2>2. Permits'
    BY <2>1, PermitsSame
  <2>3. TypeOK' /\ OneHome'
    BY <2>1 DEF IInv, TypeOK, OneHome
  <2> QED
    BY <2>2, <2>3 DEF IInv, Permits
<1> QED
  BY <1>1, <1>2, <1>3, <1>4, <1>5 DEF Next, Steady

-----------------------------------------------------------------------------
(* Theorems.                                                                 *)

(* The inductive invariant holds, with the scheduler swapped at any time.    *)
THEOREM IInvAlways == Spec => []IInv
<1>1. IInv /\ [Next]_vars => IInv'
  BY NextIInv
<1> QED
  BY InitIInv, <1>1, PTL DEF Spec

(* Every variable of the server keeps its type; in particular no request is  *)
(* handed back more than max_retries times (server.py:313, 442).             *)
THEOREM TypeCorrect == Spec => []TypeOK
<1>1. IInv => TypeOK
  BY DEF IInv
<1> QED
  BY IInvAlways, <1>1, PTL

(* Semaphores conserve their permits: available permits and dispatch tasks   *)
(* of a model always add up to its max_inflight (server.py:231-265, 334).    *)
THEOREM PermitsAlwaysConserved == Spec => []PermitsConserved
<1>1. IInv => PermitsConserved
  BY DEF IInv
<1> QED
  BY IInvAlways, <1>1, PTL

(* A pending request is always in exactly one place, however the two kinds   *)
(* of dispatch loop, retries and swaps interleave.                           *)
THEOREM OneHomeAlways == Spec => []OneHome
<1>1. IInv => OneHome
  BY DEF IInv
<1> QED
  BY IInvAlways, <1>1, PTL

-----------------------------------------------------------------------------
(* No wake-up is lost, and the server implements Lifecycle: every request    *)
(* lives the promised life.                                                  *)

LEMMA EndResets ==
  ASSUME TypeOK, NEW R, End(R)
  PROVE  /\ \A r \in R \intersect Request : retry'[r] = 0
         /\ \A r \in Request \ R : retry'[r] = retry[r]
BY DEF End, TypeOK

(* A retry is not fresh, so whoever enters the queue by Fail needs no event. *)
LEMMA FailEnqueues ==
  ASSUME TypeOK, NEW r \in Request, Fail(r)
  PROVE  /\ \A x \in Request \ {r} : retry'[x] = retry[x]
         /\ \/ queue' = queue \union {r} /\ retry[r] < MaxRetries
               /\ retry'[r] = retry[r] + 1
            \/ queue' = queue /\ retry'[r] = 0
<1>1. retry[r] \in Nat
  BY DEF TypeOK
<1>2. CASE /\ retry' = [retry EXCEPT ![r] = @ + 1]
           /\ retry[r] < MaxRetries
           /\ queue' = queue \union {r}
  BY <1>2 DEF TypeOK
<1>3. CASE End({r}) /\ queue' = queue
  BY <1>3, EndResets
<1> QED
  BY <1>2, <1>3 DEF Fail

(* What keeps wake-ups: loops and events as they are, and nobody fresh in    *)
(* the queue who was not there before.                                       *)
LEMMA NobodyFresh ==
  ASSUME NoLostWakeup, queue \subseteq Request, loop' = loop, event' = event,
         sched' = sched,
         \A r \in queue' : (r \in queue /\ retry'[r] = retry[r]) \/ retry'[r] # 0
  PROVE  NoLostWakeup'
BY DEF NoLostWakeup, OfModel

LEMMA ReceiveWakes ==
  ASSUME IInv, NoLostWakeup, NEW r \in Request, Receive(r)
  PROVE  NoLostWakeup'
<1>1. sched' = sched /\ queue \subseteq Request /\ r \notin pending /\ r \notin queue
  BY DEF Receive, IInv, TypeOK, OneHome
<1>2. CASE UNCHANGED <<queue, loopVars, retry, aged, pending>>
  BY <1>1, <1>2, NobodyFresh DEF loopVars
<1>3. CASE /\ queue' \in AfterSubmit(queue, r)
           /\ retry' = [x \in Request |-> IF x \in (queue \ queue') \union {r}
                                            THEN 0 ELSE retry[x]]
           /\ EnsureAndWake(ModelOf[r])
  <2> DEFINE m == ModelOf[r]
  <2>1. queue' \subseteq queue \union {r}
    BY <1>3, AfterSubmitHolds
  <2>2. \A x \in queue' \ {r} : x \in queue /\ retry'[x] = retry[x]
    BY <1>1, <1>3, <2>1
  <2>3. CASE sched = "aware"
    <3>1. m \in Model /\ event \in [Model -> BOOLEAN]
      BY DEF IInv, TypeOK
    <3>2. event' = [event EXCEPT ![m] = TRUE]
      BY <1>3, <2>3 DEF EnsureAndWake
    <3> HIDE DEF m
    <3>3. event'[m] = TRUE /\ \A k \in Model \ {m} : event'[k] = event[k]
      BY <3>1, <3>2, Zenon
    <3>4. \A k \in Model \ {m} : loop'[k] = loop[k]
      BY <1>3, <2>3 DEF m, EnsureAndWake, loopVars, IInv, TypeOK
    <3>5. ASSUME NEW k \in Model \ {m}, NEW x \in Request, x \in OfModel(queue', k)
          PROVE  x # r /\ x \in OfModel(queue, k) /\ retry'[x] = retry[x]
      BY <2>2, <3>5 DEF OfModel, m
    <3> QED
      BY <1>1, <3>1, <3>3, <3>4, <3>5 DEF NoLostWakeup
  <2>4. CASE sched # "aware"
    BY <1>1, <2>4 DEF NoLostWakeup
  <2> QED
    BY <2>3, <2>4
<1> QED
  BY <1>2, <1>3 DEF Receive

LEMMA LoopWakes ==
  ASSUME IInv, NoLostWakeup, NEW m \in Model, LoopStep(m)
  PROVE  NoLostWakeup'
<1>1. queue \subseteq Request
  BY DEF IInv, TypeOK
<1>2. CASE LoopTakes(m)
  BY <1>1, <1>2, NobodyFresh DEF LoopTakes
<1>3. CASE LoopFindsNone(m)
  BY <1>3 DEF LoopFindsNone, NoLostWakeup, IInv, TypeOK
<1>4. CASE LoopYields(m)
  BY <1>4 DEF LoopYields, NoLostWakeup, IInv, TypeOK
<1>5. CASE LoopResumes(m)
  <2>1. loop'[m] = "acquire" /\ \A k \in Model \ {m} : loop'[k] = loop[k]
    BY <1>5 DEF LoopResumes, IInv, TypeOK
  <2>2. \A k \in Model \ {m} : event'[k] = event[k]
    BY <1>5 DEF LoopResumes, IInv, TypeOK
  <2> QED
    BY <1>5, <2>1, <2>2 DEF LoopResumes, NoLostWakeup
<1> QED
  BY <1>2, <1>3, <1>4, <1>5 DEF LoopStep

LEMMA TaskWakes ==
  ASSUME IInv, NoLostWakeup, NEW r \in Request, TaskStep(r)
  PROVE  NoLostWakeup'
<1>1. queue \subseteq Request /\ TypeOK /\ task[r] # "none" /\ r \notin queue
  BY DEF TaskStep, TaskSucceeds, TaskFails, TaskRaises, TaskSends, IInv, TypeOK, OneHome
<1>2. CASE TaskSucceeds(r)
  BY <1>1, <1>2, NobodyFresh DEF TaskSucceeds, loopVars
<1>3. CASE TaskFails(r)
  <2>1. Fail(r) /\ UNCHANGED <<sched, loop, event>>
    BY <1>3 DEF TaskFails
  <2>2. retry[r] \in Nat
    BY <1>1 DEF TypeOK
  <2> QED
    BY <1>1, <2>1, <2>2, FailEnqueues, NobodyFresh
<1>4. CASE TaskEnds(r)
  <2>1. End({r}) /\ UNCHANGED <<sched, queue, loop, event>>
    BY <1>4 DEF TaskEnds
  <2> QED
    BY <1>1, <2>1, EndResets, NobodyFresh
<1> QED
  BY <1>2, <1>3, <1>4 DEF TaskStep, TaskRaises, TaskSends

LEMMA LegacyWakes ==
  ASSUME IInv, NoLostWakeup, LegacyStep
  PROVE  NoLostWakeup'
<1>1. queue \subseteq Request /\ TypeOK
  BY DEF IInv, TypeOK
<1>2. CASE LegacyTakes \/ LegacyReturns \/ \E r \in Request : LegacySends(r)
  BY <1>1, <1>2, NobodyFresh DEF LegacyTakes, LegacyReturns, LegacySends, loopVars
<1>3. CASE LegacyRaises
  <2>1. End(Batch) /\ UNCHANGED <<sched, queue, loop, event>>
    BY <1>3 DEF LegacyRaises, loopVars
  <2>2. queue \intersect Batch = {}
    BY <1>1 DEF IInv, OneHome, Batch
  <2> QED
    BY <1>1, <2>1, <2>2, EndResets, NobodyFresh
<1>4. ASSUME NEW r \in Request, LegacyFails(r)
      PROVE  NoLostWakeup'
  <2>1. Fail(r) /\ r \notin queue /\ UNCHANGED <<sched, loop, event>>
    BY <1>4 DEF LegacyFails, loopVars, IInv, OneHome
  <2>2. retry[r] \in Nat
    BY <1>1 DEF TypeOK
  <2> QED
    BY <1>1, <2>1, <2>2, FailEnqueues, NobodyFresh
<1>5. ASSUME NEW r \in Request, LegacySent(r)
      PROVE  NoLostWakeup'
  <2>1. End({r}) /\ r \notin queue /\ UNCHANGED <<sched, queue, loop, event>>
    BY <1>5 DEF LegacySent, loopVars, IInv, OneHome
  <2> QED
    BY <1>1, <2>1, EndResets, NobodyFresh
<1> QED
  BY <1>2, <1>3, <1>4, <1>5 DEF LegacyStep

LEMMA OthersWake ==
  ASSUME IInv, NoLostWakeup,
         \/ Tick \/ UseScheduler
         \/ \E r \in Request : Age(r)
         \/ \E c \in Client : Silence(c) \/ PredictiveWake(c)
  PROVE  NoLostWakeup'
<1>1. queue \subseteq Request /\ TypeOK
  BY DEF IInv, TypeOK
<1>2. CASE Tick
  <2>1. PICK gone : queue' = queue \ gone /\ End(gone)
    BY <1>2 DEF Tick
  <2>2. UNCHANGED <<sched, loop, event>>
    BY <1>2 DEF Tick, loopVars
  <2> QED
    BY <1>1, <2>1, <2>2, EndResets, NobodyFresh
<1>3. CASE UseScheduler
  BY <1>3 DEF UseScheduler, NoLostWakeup, OfModel
<1>4. CASE (\E r \in Request : Age(r)) \/ \E c \in Client : Silence(c)
  BY <1>1, <1>4, NobodyFresh DEF Age, Silence, loopVars
<1>5. ASSUME NEW c \in Client, PredictiveWake(c)
      PROVE  NoLostWakeup'
  <2>1. \A m \in Model : event[m] => event'[m]
    BY <1>5 DEF PredictiveWake
  <2>2. UNCHANGED <<sched, queue, loop, retry>>
    BY <1>5 DEF PredictiveWake
  <2> QED
    BY <2>1, <2>2 DEF NoLostWakeup
<1> QED
  BY <1>2, <1>3, <1>4, <1>5

(* No model loop sleeps on a clear event while a fresh request of its model  *)
(* is queued (server.py:192, 244-245).                                       *)
THEOREM NoWakeupLost == Spec => []NoLostWakeup
<1>1. Init => NoLostWakeup
  BY DEF Init, NoLostWakeup
<1>2. IInv /\ NoLostWakeup /\ [Next]_vars => NoLostWakeup'
  <2> SUFFICES ASSUME IInv, NoLostWakeup, [Next]_vars
               PROVE  NoLostWakeup'
    OBVIOUS
  <2>1. CASE UNCHANGED vars
    BY <2>1 DEF vars, NoLostWakeup
  <2> QED
    BY <2>1, ReceiveWakes, LoopWakes, TaskWakes, LegacyWakes, OthersWake
       DEF Next, Steady
<1> QED
  BY <1>1, <1>2, IInvAlways, PTL DEF Spec

-----------------------------------------------------------------------------
(* The life of a request.                                                    *)

\* The ways a step may treat x, which are those of Lifecycle.
Received(x) == x \notin queue \union InDispatch /\ x \in queue' /\ retry'[x] = 0
Dispatched(x) ==
  x \in queue /\ x \notin queue' /\ x \in InDispatch' /\ retry'[x] = retry[x]
Retried(x) ==
  /\ x \notin queue /\ x \in InDispatch /\ x \in queue'
  /\ retry[x] < MaxRetries /\ retry'[x] = retry[x] + 1
Settled(x) ==
  x \in queue \union InDispatch /\ x \notin queue' \union InDispatch' /\ retry'[x] = 0
Rested(x) ==
  /\ x \in queue <=> x \in queue'
  /\ x \in InDispatch <=> x \in InDispatch'
  /\ retry'[x] = retry[x]

Lives(x) == Received(x) \/ Dispatched(x) \/ Retried(x) \/ Settled(x) \/ Rested(x)

LEMMA LivesMaps ==
  ASSUME IInv, IInv', \A x \in Request : Lives(x)
  PROVE  L!Next
<1>1. retry' \in [Request -> 0 .. MaxRetries]
  BY DEF IInv, TypeOK
<1>2. ASSUME NEW x \in Request
      PROVE  L!Receive(x) \/ L!Dispatch(x) \/ L!Retry(x) \/ L!Settle(x) \/ L!Rests(x)
  <2>1. CASE Received(x)
    BY <2>1 DEF Received, L!Receive, L!Moves
  <2>2. CASE Dispatched(x)
    <3>1. x \in queue /\ x \notin queue' /\ x \in InDispatch' /\ retry'[x] = retry[x]
      BY <2>2 DEF Dispatched
    <3> QED
      BY <3>1 DEF L!Dispatch, L!Moves
  <2>3. CASE Retried(x)
    BY <2>3 DEF Retried, L!Retry, L!Moves
  <2>4. CASE Settled(x)
    BY <2>4 DEF Settled, L!Settle, L!Moves
  <2>5. CASE Rested(x)
    BY <2>5 DEF Rested, L!Rests
  <2> QED
    BY <2>1, <2>2, <2>3, <2>4, <2>5 DEF Lives
<1> QED
  BY <1>1, <1>2 DEF L!Next

(* The request x leaves a task or the batch by End or Fail; the others rest. *)
LEMMA EndLives ==
  ASSUME IInv, NEW R, End(R), R \subseteq queue \union InDispatch, queue' = queue \ R,
         InDispatch' = InDispatch \ R
  PROVE  \A x \in Request : Lives(x)
<1>1. /\ \A x \in R \intersect Request : retry'[x] = 0
      /\ \A x \in Request \ R : retry'[x] = retry[x]
  BY EndResets DEF IInv
<1>2. ASSUME NEW x \in Request, x \in R
      PROVE  Settled(x)
  BY <1>1, <1>2 DEF Settled
<1>3. ASSUME NEW x \in Request, x \notin R
      PROVE  Rested(x)
  BY <1>1, <1>3 DEF Rested
<1> QED
  BY <1>2, <1>3 DEF Lives

LEMMA FailLives ==
  ASSUME IInv, NEW r \in Request, Fail(r), r \in InDispatch, r \notin queue,
         InDispatch' = InDispatch \ {r}
  PROVE  \A x \in Request : Lives(x)
<1>1. /\ \A x \in Request \ {r} : retry'[x] = retry[x]
      /\ \/ queue' = queue \union {r} /\ retry[r] < MaxRetries
            /\ retry'[r] = retry[r] + 1
         \/ queue' = queue /\ retry'[r] = 0
  BY FailEnqueues DEF IInv
<1>2. Retried(r) \/ Settled(r)
  BY <1>1 DEF Retried, Settled
<1>3. ASSUME NEW x \in Request \ {r}
      PROVE  Rested(x)
  BY <1>1, <1>3 DEF Rested
<1> QED
  BY <1>2, <1>3 DEF Lives

LEMMA RestLives ==
  ASSUME UNCHANGED <<queue, retry>>, InDispatch' = InDispatch
  PROVE  \A x \in Request : Lives(x)
BY DEF Lives, Rested

(* The requests of B are taken from the queue.                               *)
LEMMA TakeLives ==
  ASSUME NEW B, B \subseteq queue, queue' = queue \ B, retry' = retry,
         InDispatch' = InDispatch \union B
  PROVE  \A x \in Request : Lives(x)
BY DEF Lives, Dispatched, Rested

LEMMA ReceiveLives ==
  ASSUME IInv, NEW r \in Request, Receive(r)
  PROVE  \A x \in Request : Lives(x)
<1>1. r \notin queue \union InDispatch /\ InDispatch' = InDispatch
  BY DEF Receive, IInv, OneHome, InDispatch
<1>2. CASE UNCHANGED <<queue, loopVars, retry, aged, pending>>
  BY <1>1, <1>2, RestLives
<1>3. CASE /\ queue' \in AfterSubmit(queue, r)
           /\ retry' = [x \in Request |-> IF x \in (queue \ queue') \union {r}
                                            THEN 0 ELSE retry[x]]
  <2>1. r \in queue' /\ queue' \subseteq queue \union {r}
    BY <1>3, AfterSubmitHolds
  <2>2. Received(r)
    BY <1>1, <1>3, <2>1 DEF Received
  <2>3. ASSUME NEW x \in Request, x \in queue \ queue'
        PROVE  Settled(x)
    <3>1. x \notin InDispatch
      BY <2>3 DEF IInv, OneHome, InDispatch
    <3> QED
      BY <1>1, <1>3, <2>3, <3>1 DEF Settled
  <2>4. ASSUME NEW x \in Request, x # r, x \notin queue \ queue'
        PROVE  Rested(x)
    BY <1>1, <1>3, <2>1, <2>4 DEF Rested
  <2> QED
    BY <2>2, <2>3, <2>4 DEF Lives
<1> QED
  BY <1>2, <1>3 DEF Receive

LEMMA LoopLives ==
  ASSUME IInv, NEW m \in Model, LoopStep(m)
  PROVE  \A x \in Request : Lives(x)
<1>1. CASE LoopTakes(m)
  <2>1. PICK r \in OfModel(queue, m) :
          queue' = queue \ {r} /\ task' = [task EXCEPT ![r] = "dispatch"]
    BY <1>1 DEF LoopTakes
  <2>2. r \in queue /\ r \in Request /\ UNCHANGED <<batch, retry>>
    BY <1>1 DEF LoopTakes, OfModel, IInv, TypeOK
  <2>3. InDispatch' = InDispatch \union {r}
    BY <2>1, <2>2 DEF InDispatch, IInv, TypeOK
  <2>4. {r} \subseteq queue /\ retry' = retry
    BY <2>2
  <2> QED
    BY <2>1, <2>3, <2>4, TakeLives
<1>2. CASE LoopFindsNone(m) \/ LoopYields(m) \/ LoopResumes(m)
  <2>1. UNCHANGED <<queue, retry, task, batch>>
    BY <1>2 DEF LoopFindsNone, LoopYields, LoopResumes
  <2> QED
    BY <2>1, RestLives DEF InDispatch
<1> QED
  BY <1>1, <1>2 DEF LoopStep

LEMMA TaskLives ==
  ASSUME IInv, NEW r \in Request, TaskStep(r)
  PROVE  \A x \in Request : Lives(x)
<1>1. task[r] # "none"
  BY DEF TaskStep, TaskSucceeds, TaskFails, TaskRaises, TaskSends
<1>2. r \in InDispatch /\ r \notin queue /\ batch[r] = "none"
  BY <1>1 DEF InDispatch, IInv, OneHome
<1>3. CASE TaskSucceeds(r)
  <2>1. UNCHANGED <<queue, retry>> /\ InDispatch' = InDispatch
    BY <1>1, <1>3 DEF TaskSucceeds, InDispatch, IInv, TypeOK
  <2> QED
    BY <2>1, RestLives
<1>4. ASSUME task' = [task EXCEPT ![r] = "none"], batch' = batch
      PROVE  InDispatch' = InDispatch \ {r}
  BY <1>2, <1>4 DEF InDispatch, IInv, TypeOK
<1>5. CASE TaskFails(r)
  <2>1. Fail(r) /\ task' = [task EXCEPT ![r] = "none"] /\ batch' = batch
    BY <1>5 DEF TaskFails
  <2> QED
    BY <1>2, <1>4, <2>1, FailLives
<1>6. CASE TaskEnds(r)
  <2>1. /\ End({r}) /\ task' = [task EXCEPT ![r] = "none"]
        /\ batch' = batch /\ queue' = queue
    BY <1>6 DEF TaskEnds
  <2>2. queue' = queue \ {r} /\ {r} \subseteq queue \union InDispatch
    BY <1>2, <2>1
  <2> QED
    BY <1>4, <2>1, <2>2, EndLives
<1> QED
  BY <1>3, <1>5, <1>6 DEF TaskStep, TaskRaises, TaskSends

LEMMA LegacyLives ==
  ASSUME IInv, LegacyStep
  PROVE  \A x \in Request : Lives(x)
<1>1. ASSUME NEW r \in Request, batch[r] # "none"
      PROVE  /\ r \in InDispatch /\ r \notin queue
             /\ task' = task /\ batch' = [batch EXCEPT ![r] = "none"]
                  => InDispatch' = InDispatch \ {r}
  BY <1>1 DEF InDispatch, IInv, OneHome, TypeOK
<1>2. CASE LegacyTakes
  <2>1. PICK B \in SUBSET queue :
          /\ queue' = queue \ B
          /\ batch' = [r \in Request |-> IF r \in B THEN "dispatch" ELSE batch[r]]
    BY <1>2 DEF LegacyTakes
  <2>2. UNCHANGED <<task, retry>>
    BY <1>2 DEF LegacyTakes
  <2>3. InDispatch' = InDispatch \union B
    BY <2>1, <2>2 DEF InDispatch, IInv, TypeOK
  <2> QED
    BY <2>1, <2>2, <2>3, TakeLives
<1>3. CASE LegacyReturns
  <2>1. \A r \in Request : batch'[r] = "none" <=> batch[r] = "none"
    BY <1>3 DEF LegacyReturns, Batch
  <2>2. UNCHANGED <<queue, task, retry>>
    BY <1>3 DEF LegacyReturns
  <2> QED
    BY <2>1, <2>2, RestLives DEF InDispatch
<1>4. CASE LegacyRaises
  <2>1. End(Batch) /\ batch' = [r \in Request |-> "none"] /\ UNCHANGED <<queue, task>>
    BY <1>4 DEF LegacyRaises
  <2>2. Batch \subseteq InDispatch /\ Batch \intersect queue = {}
    BY DEF Batch, InDispatch, IInv, OneHome
  <2>3. InDispatch' = InDispatch \ Batch
    BY <2>1 DEF Batch, InDispatch, IInv, OneHome
  <2>4. queue' = queue \ Batch /\ Batch \subseteq queue \union InDispatch
    BY <2>1, <2>2
  <2> QED
    BY <2>1, <2>3, <2>4, EndLives
<1>5. ASSUME NEW r \in Request, LegacyFails(r)
      PROVE  \A x \in Request : Lives(x)
  <2>1. /\ Fail(r) /\ batch[r] # "none"
        /\ task' = task /\ batch' = [batch EXCEPT ![r] = "none"]
    BY <1>5 DEF LegacyFails
  <2> QED
    BY <1>1, <2>1, FailLives
<1>6. ASSUME NEW r \in Request, LegacySends(r)
      PROVE  \A x \in Request : Lives(x)
  <2>1. UNCHANGED <<queue, retry>> /\ InDispatch' = InDispatch
    BY <1>6 DEF LegacySends, InDispatch, IInv, TypeOK
  <2> QED
    BY <2>1, RestLives
<1>7. ASSUME NEW r \in Request, LegacySent(r)
      PROVE  \A x \in Request : Lives(x)
  <2>1. /\ End({r}) /\ batch[r] # "none" /\ queue' = queue
        /\ task' = task /\ batch' = [batch EXCEPT ![r] = "none"]
    BY <1>7 DEF LegacySent
  <2>2. queue' = queue \ {r} /\ {r} \subseteq queue \union InDispatch
    BY <1>1, <2>1
  <2> QED
    BY <1>1, <2>1, <2>2, EndLives
<1> QED
  BY <1>2, <1>3, <1>4, <1>5, <1>6, <1>7 DEF LegacyStep

LEMMA OthersLive ==
  ASSUME IInv,
         \/ Tick \/ UseScheduler
         \/ \E r \in Request : Age(r)
         \/ \E c \in Client : Silence(c) \/ PredictiveWake(c)
         \/ UNCHANGED vars
  PROVE  \A x \in Request : Lives(x)
<1>1. task' = task /\ batch' = batch
  BY DEF Tick, UseScheduler, Age, Silence, PredictiveWake, vars
<1>2. InDispatch' = InDispatch
  BY <1>1 DEF InDispatch
<1>3. \A x \in queue : x \notin InDispatch
  BY DEF IInv, OneHome, InDispatch
<1>4. CASE Tick \/ UseScheduler
  <2>1. PICK gone : gone \subseteq queue /\ queue' = queue \ gone /\ End(gone)
    <3>1. CASE Tick
      <4>1. PICK purged : /\ purged \subseteq queue
                          /\ queue' = queue \ ((queue \intersect aged) \union purged)
                          /\ End((queue \intersect aged) \union purged)
        BY <3>1 DEF Tick
      <4> QED
        BY <4>1
    <3>2. CASE UseScheduler
      <4>1. End(queue) /\ queue' = queue \ queue
        BY <3>2 DEF UseScheduler
      <4> QED
        BY <4>1
    <3> QED
      BY <1>4, <3>1, <3>2
  <2>2. InDispatch' = InDispatch \ gone
    BY <1>2, <1>3, <2>1
  <2> QED
    BY <2>1, <2>2, EndLives
<1>5. CASE UNCHANGED <<queue, retry>>
  BY <1>2, <1>5, RestLives
<1> QED
  BY <1>4, <1>5 DEF Age, Silence, PredictiveWake, vars

(* The server implements Lifecycle: through receipts, both dispatch modes,   *)
(* failures, ticks and swaps each request is queued, dispatched, handed back *)
(* at most max_retries times and settled once.                               *)
THEOREM ImplementsLifecycle == Spec => KeepsLifecycle
<1>1. Init => L!Init
  BY DEF Init, L!Init, InDispatch
<1>2. IInv /\ IInv' /\ [Next]_vars => [L!Next]_(L!vars)
  <2> SUFFICES ASSUME IInv, IInv', [Next]_vars
               PROVE  L!Next
    OBVIOUS
  <2>1. \A x \in Request : Lives(x)
    BY ReceiveLives, LoopLives, TaskLives, LegacyLives, OthersLive DEF Next, Steady
  <2> QED
    BY <2>1, LivesMaps
<1> QED
  BY <1>1, <1>2, IInvAlways, PTL DEF Spec, KeepsLifecycle, L!Spec

-----------------------------------------------------------------------------
(* The dispatch limits bound what is in dispatch, the server is the caller   *)
(* the Scheduler ABC expects, and queue and dispatch together are bounded,   *)
(* whatever is retried and whenever schedulers swap.                         *)

(* Counting what is in dispatch.                                             *)

(* A set that is no larger than n fits into 1 .. n.                          *)
LEMMA Fits ==
  ASSUME NEW A, IsFiniteSet(A), NEW n \in Nat, Cardinality(A) <= n
  PROVE  \E g \in [A -> 1 .. n] : \A a, b \in A : g[a] = g[b] => a = b
<1>1. Cardinality(A) \in Nat /\ ExistsBijection(1 .. Cardinality(A), A)
  BY FS_CardinalityType
<1>2. ExistsBijection(A, 1 .. Cardinality(A))
  BY <1>1, Fun_ExistsBijSymmetric
<1>3. PICK g : g \in Bijection(A, 1 .. Cardinality(A))
  BY <1>2, Fun_ExistsBij
<1>4. g \in [A -> 1 .. Cardinality(A)] /\ \A a, b \in A : g[a] = g[b] => a = b
  BY <1>3 DEF Bijection, Injection, IsInjective
<1>5. 1 .. Cardinality(A) \subseteq 1 .. n
  BY <1>1
<1> QED
  BY <1>4, <1>5

LEMMA PermitFinite == IsFiniteSet(Permit)
<1> DEFINE P(m) == {m} \X (1 .. MaxInflight[m])
           All == {P(m) : m \in Model}
           f == [m \in Model |-> P(m)]
<1>1. f \in Surjection(Model, All)
  BY DEF Surjection
<1>2. IsFiniteSet(All)
  BY <1>1, FS_Surjection, ModelsAssumption
<1>3. ASSUME NEW m \in Model PROVE IsFiniteSet(P(m))
  <2>1. IsFiniteSet({m}) /\ IsFiniteSet(1 .. MaxInflight[m])
    <3>1. 1 \in Int /\ MaxInflight[m] \in Int
      OBVIOUS
    <3> QED
      BY <3>1, FS_Singleton, FS_Interval
  <2> QED
    BY <2>1, FS_Product
<1>4. \A T \in All : IsFiniteSet(T)
  BY <1>3
<1>5. Permit = UNION All
  BY DEF Permit
<1> HIDE DEF All
<1> QED
  BY <1>2, <1>4, <1>5, FS_UNION

\* The requests that have a dispatch task.
Tasks == {r \in Request : task[r] # "none"}

(* Each dispatch task holds a permit of its own: they are no more than the   *)
(* permits of all models.                                                    *)
LEMMA TasksBounded ==
  ASSUME IInv
  PROVE  IsFiniteSet(Tasks) /\ Cardinality(Tasks) <= Cardinality(Permit)
<1> DEFINE Fit(m, g) == /\ g \in [TasksOf(m) -> 1 .. MaxInflight[m]]
                        /\ \A a, b \in TasksOf(m) : g[a] = g[b] => a = b
           slot == [m \in Model |-> CHOOSE g : Fit(m, g)]
           f == [r \in Tasks |-> <<ModelOf[r], slot[ModelOf[r]][r]>>]
<1>1. ASSUME NEW m \in Model PROVE Fit(m, slot[m])
  <2>1. IsFiniteSet(TasksOf(m)) /\ permits[m] \in Nat /\ MaxInflight[m] \in Nat
    BY DEF IInv, TypeOK
  <2>2. Cardinality(TasksOf(m)) \in Nat /\ (TasksOf(m) = {} => Cardinality(TasksOf(m)) = 0)
    BY <2>1, FS_CardinalityType, FS_EmptySet
  <2>3. Cardinality(TasksOf(m)) <= MaxInflight[m]
    BY <2>1, <2>2 DEF IInv, PermitsConserved
  <2>4. \E g : Fit(m, g)
    BY <2>1, <2>3, Fits
  <2> HIDE DEF Fit
  <2> QED
    BY <2>4
<1>2. ASSUME NEW r \in Tasks
      PROVE  /\ ModelOf[r] \in Model /\ r \in TasksOf(ModelOf[r])
             /\ slot[ModelOf[r]][r] \in 1 .. MaxInflight[ModelOf[r]]
  <2>1. ModelOf[r] \in Model /\ r \in TasksOf(ModelOf[r])
    BY DEF Tasks, TasksOf
  <2>2. Fit(ModelOf[r], slot[ModelOf[r]])
    BY <1>1, <2>1
  <2> HIDE DEF slot
  <2> QED
    BY <2>1, <2>2
<1> HIDE DEF slot
<1>3. f \in [Tasks -> Permit]
  BY <1>2 DEF Permit
<1>4. ASSUME NEW a \in Tasks, NEW b \in Tasks, f[a] = f[b] PROVE a = b
  <2>1. ModelOf[a] = ModelOf[b] /\ slot[ModelOf[a]][a] = slot[ModelOf[b]][b]
    BY <1>4
  <2>2. Fit(ModelOf[a], slot[ModelOf[a]])
    BY <1>1, <1>2
  <2> QED
    BY <1>2, <2>1, <2>2
<1>5. f \in Injection(Tasks, Permit)
  BY <1>3, <1>4, Fun_IsInj
<1> HIDE DEF f
<1> QED
  BY <1>5, PermitFinite, FS_Injection

(* What is to be known of the legacy loop's batch: it is no larger than      *)
(* max_concurrent_dispatch.                                                  *)
BatchBound == IsFiniteSet(Batch) /\ Cardinality(Batch) <= MaxConcurrent

(* Both limits together bound what is in dispatch.                           *)
LEMMA DispatchBounded ==
  ASSUME IInv, BatchBound
  PROVE  /\ IsFiniteSet(InDispatch)
         /\ Cardinality(InDispatch) <= Capacity
         /\ Capacity \in Nat
<1>1. InDispatch = Tasks \union Batch
  BY DEF InDispatch, Tasks, Batch
<1>2. IsFiniteSet(Tasks) /\ Cardinality(Tasks) <= Cardinality(Permit)
  BY TasksBounded
<1>3. Cardinality(Permit) \in Nat
  BY PermitFinite, FS_CardinalityType
<1>4. /\ IsFiniteSet(Tasks \union Batch)
      /\ Cardinality(Tasks \union Batch)
           = Cardinality(Tasks) + Cardinality(Batch) - Cardinality(Tasks \intersect Batch)
  BY <1>2, FS_Union DEF BatchBound
<1>5. IsFiniteSet(Tasks \intersect Batch)
  BY <1>2, FS_Intersection
<1>6. /\ Cardinality(Tasks) \in Nat /\ Cardinality(Batch) \in Nat
      /\ Cardinality(Tasks \intersect Batch) \in Nat
  BY <1>2, <1>5, FS_CardinalityType DEF BatchBound
<1> QED
  BY <1>1, <1>2, <1>3, <1>4, <1>6 DEF Capacity, BatchBound

-----------------------------------------------------------------------------
(* The batch of the legacy loop.                                             *)

LEMMA MinFacts ==
  ASSUME NEW a \in Int, NEW b \in Int
  PROVE  Min({a, b}) \in {a, b} /\ Min({a, b}) <= a /\ Min({a, b}) <= b
<1>1. \E x \in {a, b} : \A y \in {a, b} : x <= y
  <2>1. CASE a <= b
    BY <2>1
  <2>2. CASE b <= a
    BY <2>2
  <2> QED
    BY <2>1, <2>2
<1> QED
  BY <1>1 DEF Min

(* What holds beside IInv: the queue is finite and the batch is bounded.     *)
LInv == IInv /\ IsFiniteSet(queue) /\ BatchBound

(* Whatever leaves the batch, or only changes what is to be done with it,    *)
(* keeps its bound.                                                          *)
LEMMA BatchShrinks ==
  ASSUME BatchBound, Batch' \subseteq Batch
  PROVE  BatchBound'
<1>1. IsFiniteSet(Batch') /\ Cardinality(Batch') <= Cardinality(Batch)
  BY FS_Subset DEF BatchBound
<1>2. Cardinality(Batch) \in Nat /\ Cardinality(Batch') \in Nat
  BY <1>1, FS_CardinalityType DEF BatchBound
<1> QED
  BY <1>1, <1>2 DEF BatchBound

(* Every step keeps the queue finite: it grows by one request at most.       *)
LEMMA QueueGrowsByOne ==
  ASSUME IInv, [Next]_vars
  PROVE  \E r : queue' \subseteq queue \union {r}
<1>1. ASSUME NEW r \in Request, Receive(r) PROVE queue' \subseteq queue \union {r}
  BY <1>1, AfterSubmitHolds DEF Receive
<1>2. ASSUME NEW r \in Request, Fail(r) PROVE queue' \subseteq queue \union {r}
  BY <1>2 DEF Fail
<1>3. ASSUME NEW r \in Request, TaskStep(r) PROVE queue' \subseteq queue \union {r}
  BY <1>2, <1>3 DEF TaskStep, TaskSucceeds, TaskFails, TaskRaises, TaskSends, TaskEnds
<1>4. CASE LegacyStep
  BY <1>2, <1>4 DEF LegacyStep, LegacyTakes, LegacyReturns, LegacyRaises,
                    LegacyFails, LegacySends, LegacySent
<1>5. CASE Tick \/ UseScheduler
  BY <1>5 DEF Tick, UseScheduler
<1>6. ASSUME NEW m \in Model, LoopStep(m) PROVE queue' \subseteq queue
  BY <1>6 DEF LoopStep, LoopTakes, LoopFindsNone, LoopYields, LoopResumes
<1>7. CASE \/ \E r \in Request : Age(r)
           \/ \E c \in Client : Silence(c) \/ PredictiveWake(c)
           \/ UNCHANGED vars
  BY <1>7 DEF Age, Silence, PredictiveWake, vars
<1> QED
  BY <1>1, <1>3, <1>4, <1>5, <1>6, <1>7 DEF Next, Steady

(* Only LegacyTakes puts requests into the batch, and only an empty one.     *)
LEMMA BatchKept ==
  ASSUME LInv, [Next]_vars
  PROVE  BatchBound'
<1>1. CASE LegacyTakes
  <2>1. PICK B \in SUBSET queue :
          /\ Cardinality(B) = Min({MaxConcurrent, Cardinality(queue)})
          /\ batch' = [r \in Request |-> IF r \in B THEN "dispatch" ELSE batch[r]]
    BY <1>1 DEF LegacyTakes
  <2>2. Batch' = B
    BY <1>1, <2>1 DEF LegacyTakes, Batch, LInv, IInv, TypeOK
  <2>3. IsFiniteSet(B) /\ Cardinality(queue) \in Nat
    BY FS_Subset, FS_CardinalityType DEF LInv
  <2>4. Cardinality(B) <= MaxConcurrent
    BY <2>1, <2>3, MinFacts
  <2> QED
    BY <2>2, <2>3, <2>4 DEF BatchBound
<1>2. CASE LegacyReturns \/ LegacyRaises
  BY <1>2, BatchShrinks DEF LegacyReturns, LegacyRaises, Batch, LInv
<1>3. ASSUME NEW r \in Request, LegacyFails(r) \/ LegacySends(r) \/ LegacySent(r)
      PROVE  BatchBound'
  <2>1. Batch' \subseteq Batch
    BY <1>3 DEF LegacyFails, LegacySends, LegacySent, Batch, LInv, IInv, TypeOK
  <2> QED
    BY <2>1, BatchShrinks DEF LInv
<1>4. CASE batch' = batch
  BY <1>4, BatchShrinks DEF Batch, LInv
<1>5. ASSUME NEW r \in Request, Receive(r) \/ TaskStep(r) \/ Age(r)
      PROVE  batch' = batch
  BY <1>5 DEF Receive, TaskStep, TaskSucceeds, TaskFails, TaskRaises, TaskSends,
              TaskEnds, Age
<1>6. ASSUME NEW m \in Model, LoopStep(m) PROVE batch' = batch
  BY <1>6 DEF LoopStep, LoopTakes, LoopFindsNone, LoopYields, LoopResumes
<1>7. CASE \/ Tick \/ UseScheduler \/ UNCHANGED vars
           \/ \E c \in Client : Silence(c) \/ PredictiveWake(c)
  BY <1>4, <1>7 DEF Tick, UseScheduler, Silence, PredictiveWake, vars
<1> QED
  BY <1>1, <1>2, <1>3, <1>4, <1>5, <1>6, <1>7 DEF Next, Steady, LegacyStep

LEMMA InitLInv == Init => LInv
<1> SUFFICES ASSUME Init PROVE LInv
  OBVIOUS
<1>1. Batch = {} /\ queue = {}
  BY DEF Init, Batch
<1> QED
  BY <1>1, InitIInv, FS_EmptySet DEF LInv, BatchBound

LEMMA NextLInv ==
  ASSUME LInv, [Next]_vars
  PROVE  LInv'
<1>1. IInv'
  BY NextIInv DEF LInv
<1>2. BatchBound'
  BY BatchKept
<1>3. PICK r : queue' \subseteq queue \union {r}
  BY QueueGrowsByOne DEF LInv
<1>4. IsFiniteSet(queue \union {r})
  BY FS_AddElement DEF LInv
<1>5. IsFiniteSet(queue')
  BY <1>3, <1>4, FS_Subset
<1> QED
  BY <1>1, <1>2, <1>5 DEF LInv

-----------------------------------------------------------------------------
(* The server as the caller of Scheduler.                                    *)

(* The instance speaks of the same finite sets and sizes.                    *)
LEMMA SameSizes ==
  ASSUME NEW A
  PROVE  /\ S!IsFiniteSet(A) <=> IsFiniteSet(A)
         /\ S!Cardinality(A) = Cardinality(A)
<1>1. S!IsFiniteSet(A) <=> IsFiniteSet(A)
  BY DEF S!IsFiniteSet, IsFiniteSet
<1>2. S!Cardinality(A) = Cardinality(A)
  BY DEF S!Cardinality, Cardinality
<1> QED
  BY <1>1, <1>2

LEMMA InitUses == Init => S!Init
BY DEF Init, S!Init, InDispatch

(* Taking B from the queue into dispatch is a NextBatch: the limits that     *)
(* hold after the step leave room for it.                                    *)
LEMMA TakeUses ==
  ASSUME LInv', NEW B \in SUBSET queue, B # {},
         queue' = queue \ B, InDispatch' = InDispatch \union B
  PROVE  S!Next
<1>1. IsFiniteSet(InDispatch') /\ Cardinality(InDispatch') <= Capacity
  <2>1. IInv' /\ BatchBound'
    BY DEF LInv
  <2>2. (IInv /\ BatchBound => IsFiniteSet(InDispatch) /\ Cardinality(InDispatch) <= Capacity)'
    BY DispatchBounded, PTL
  <2>3. Capacity' = Capacity
    BY DEF Capacity, Permit
  <2> QED
    BY <2>1, <2>2, <2>3
<1>2. /\ S!IsFiniteSet(InDispatch \union B)
      /\ S!Cardinality(InDispatch \union B) <= Capacity
  BY <1>1, SameSizes
<1>3. S!NextBatch(B)
  BY <1>2 DEF S!NextBatch
<1> QED
  BY <1>3 DEF S!Next

LEMMA SettleUses ==
  ASSUME NEW R \in SUBSET InDispatch, InDispatch' = InDispatch \ R, queue' = queue
  PROVE  S!Next
BY DEF S!Next, S!Settle

LEMMA LoseUses ==
  ASSUME NEW E \in SUBSET queue, queue' = queue \ E, InDispatch' = InDispatch
  PROVE  S!Next
BY DEF S!Next, S!Tick

(* A failed request in dispatch is handed back or settled.                   *)
LEMMA FailUses ==
  ASSUME NEW r \in InDispatch, Fail(r), InDispatch' = InDispatch \ {r}
  PROVE  S!Next
<1>1. CASE queue' = queue \union {r}
  BY <1>1 DEF S!Next, S!Resubmit
<1>2. CASE queue' = queue
  <2>1. {r} \in SUBSET InDispatch
    OBVIOUS
  <2> QED
    BY <1>2, <2>1, SettleUses
<1> QED
  BY <1>1, <1>2 DEF Fail

LEMMA ReceiveUses ==
  ASSUME LInv, NEW r \in Request, Receive(r)
  PROVE  [S!Next]_(S!vars)
<1>1. InDispatch' = InDispatch
  BY DEF Receive, InDispatch
<1>2. r \notin queue \union InDispatch
  BY DEF Receive, LInv, IInv, OneHome, InDispatch
<1>3. CASE queue' = queue
  BY <1>1, <1>3 DEF S!vars
<1>4. CASE queue' \in AfterSubmit(queue, r)
  <2>1. S!AfterSubmit(queue, r) = AfterSubmit(queue, r)
    BY SameSizes DEF S!AfterSubmit, AfterSubmit
  <2>2. S!Submit(r)
    BY <1>1, <1>2, <1>4, <2>1 DEF S!Submit
  <2> QED
    BY <2>2 DEF S!Next
<1> QED
  BY <1>3, <1>4 DEF Receive

LEMMA LoopUses ==
  ASSUME LInv, LInv', NEW m \in Model, LoopStep(m)
  PROVE  [S!Next]_(S!vars)
<1>1. CASE LoopTakes(m)
  <2>1. PICK r \in queue : queue' = queue \ {r} /\ task' = [task EXCEPT ![r] = "dispatch"]
    BY <1>1 DEF LoopTakes, OfModel
  <2>2. batch' = batch /\ r \in Request
    BY <1>1 DEF LoopTakes, LInv, IInv, TypeOK
  <2>3. InDispatch' = InDispatch \union {r}
    BY <2>1, <2>2 DEF InDispatch, LInv, IInv, TypeOK
  <2>4. {r} \in SUBSET queue /\ {r} # {}
    OBVIOUS
  <2> QED
    BY <2>1, <2>3, <2>4, TakeUses
<1>2. CASE LoopFindsNone(m) \/ LoopYields(m) \/ LoopResumes(m)
  BY <1>2 DEF LoopFindsNone, LoopYields, LoopResumes, S!vars, InDispatch
<1> QED
  BY <1>1, <1>2 DEF LoopStep

LEMMA TaskUses ==
  ASSUME LInv, NEW r \in Request, TaskStep(r)
  PROVE  [S!Next]_(S!vars)
<1>1. CASE TaskSucceeds(r)
  <2>1. InDispatch' = InDispatch
    BY <1>1 DEF TaskSucceeds, InDispatch, LInv, IInv, TypeOK
  <2> QED
    BY <1>1, <2>1 DEF TaskSucceeds, S!vars
<1>2. ASSUME task[r] # "none", task' = [task EXCEPT ![r] = "none"], batch' = batch
      PROVE  r \in InDispatch /\ InDispatch' = InDispatch \ {r}
  BY <1>2 DEF InDispatch, LInv, IInv, TypeOK, OneHome
<1>3. CASE TaskFails(r)
  <2>1. r \in InDispatch /\ InDispatch' = InDispatch \ {r}
    BY <1>2, <1>3 DEF TaskFails
  <2> QED
    BY <1>3, <2>1, FailUses DEF TaskFails
<1>4. CASE TaskRaises(r) \/ TaskSends(r)
  <2>1. r \in InDispatch /\ InDispatch' = InDispatch \ {r}
    BY <1>2, <1>4 DEF TaskRaises, TaskSends, TaskEnds
  <2>2. queue' = queue
    BY <1>4 DEF TaskRaises, TaskSends, TaskEnds
  <2>3. {r} \in SUBSET InDispatch
    BY <2>1
  <2> QED
    BY <2>1, <2>2, <2>3, SettleUses
<1> QED
  BY <1>1, <1>3, <1>4 DEF TaskStep

LEMMA LegacyUses ==
  ASSUME LInv, LInv', LegacyStep
  PROVE  [S!Next]_(S!vars)
<1>1. CASE LegacyTakes
  <2>1. PICK B \in SUBSET queue :
          /\ Cardinality(B) = Min({MaxConcurrent, Cardinality(queue)})
          /\ queue' = queue \ B
          /\ batch' = [r \in Request |-> IF r \in B THEN "dispatch" ELSE batch[r]]
    BY <1>1 DEF LegacyTakes
  <2>2. Cardinality(queue) \in Nat \ {0}
    BY <1>1, FS_CardinalityType, FS_EmptySet DEF LegacyTakes, LInv
  <2>3. Cardinality(B) # 0
    <3>1. MaxConcurrent \in Int /\ Cardinality(queue) \in Int
      BY <2>2
    <3>2. Min({MaxConcurrent, Cardinality(queue)}) \in {MaxConcurrent, Cardinality(queue)}
      BY <3>1, MinFacts, Zenon
    <3>3. Cardinality(B) = MaxConcurrent \/ Cardinality(B) = Cardinality(queue)
      BY <2>1, <3>2
    <3> QED
      BY <2>2, <3>3
  <2>4. B # {}
    BY <2>3, FS_EmptySet
  <2>5. task' = task /\ queue \subseteq Request
    BY <1>1 DEF LegacyTakes, LInv, IInv, TypeOK
  <2>6. InDispatch' = InDispatch \union B
    BY <2>1, <2>5 DEF InDispatch
  <2> QED
    BY <2>1, <2>4, <2>6, TakeUses
<1>2. CASE LegacyReturns
  <2>1. InDispatch' = InDispatch
    BY <1>2 DEF LegacyReturns, InDispatch, Batch
  <2> QED
    BY <1>2, <2>1 DEF LegacyReturns, S!vars
<1>3. CASE LegacyRaises
  <2>1. Batch \in SUBSET InDispatch /\ InDispatch' = InDispatch \ Batch /\ queue' = queue
    BY <1>3 DEF LegacyRaises, InDispatch, Batch, LInv, IInv, OneHome
  <2> QED
    BY <2>1, SettleUses
<1>4. ASSUME NEW r \in Request, LegacySends(r)
      PROVE  [S!Next]_(S!vars)
  <2>1. InDispatch' = InDispatch
    BY <1>4 DEF LegacySends, InDispatch, LInv, IInv, TypeOK
  <2> QED
    BY <1>4, <2>1 DEF LegacySends, S!vars
<1>5. ASSUME NEW r \in Request, batch[r] # "none",
             batch' = [batch EXCEPT ![r] = "none"], task' = task
      PROVE  r \in InDispatch /\ InDispatch' = InDispatch \ {r}
  BY <1>5 DEF InDispatch, LInv, IInv, TypeOK, OneHome
<1>6. ASSUME NEW r \in Request, LegacyFails(r)
      PROVE  S!Next
  <2>1. r \in InDispatch /\ InDispatch' = InDispatch \ {r}
    BY <1>5, <1>6 DEF LegacyFails
  <2> QED
    BY <1>6, <2>1, FailUses DEF LegacyFails
<1>7. ASSUME NEW r \in Request, LegacySent(r)
      PROVE  S!Next
  <2>1. {r} \in SUBSET InDispatch /\ InDispatch' = InDispatch \ {r}
    BY <1>5, <1>7 DEF LegacySent
  <2> QED
    BY <1>7, <2>1, SettleUses DEF LegacySent
<1> QED
  BY <1>1, <1>2, <1>3, <1>4, <1>6, <1>7 DEF LegacyStep

LEMMA NextUses ==
  ASSUME LInv, LInv', [Next]_vars
  PROVE  [S!Next]_(S!vars)
<1>1. ASSUME NEW r \in Request, Receive(r) \/ TaskStep(r) PROVE [S!Next]_(S!vars)
  BY <1>1, ReceiveUses, TaskUses
<1>2. ASSUME NEW m \in Model, LoopStep(m) PROVE [S!Next]_(S!vars)
  BY <1>2, LoopUses
<1>3. CASE LegacyStep
  BY <1>3, LegacyUses
<1>4. CASE Tick
  <2>1. \E E \in SUBSET queue : queue' = queue \ E
    BY <1>4 DEF Tick
  <2>2. InDispatch' = InDispatch
    BY <1>4 DEF Tick, InDispatch
  <2> QED
    BY <2>1, <2>2, LoseUses
<1>5. CASE UseScheduler
  <2>1. queue \in SUBSET queue /\ queue' = queue \ queue /\ InDispatch' = InDispatch
    BY <1>5 DEF UseScheduler, InDispatch
  <2> QED
    BY <2>1, LoseUses
<1>6. CASE \/ \E r \in Request : Age(r)
           \/ \E c \in Client : Silence(c) \/ PredictiveWake(c)
           \/ UNCHANGED vars
  <2>1. queue' = queue /\ task' = task /\ batch' = batch
    BY <1>6 DEF Age, Silence, PredictiveWake, vars
  <2> QED
    BY <2>1 DEF InDispatch, S!vars
<1> QED
  BY <1>1, <1>2, <1>3, <1>4, <1>5, <1>6 DEF Next, Steady

-----------------------------------------------------------------------------
(* The bound on queue and dispatch together.                                 *)

Limited ==
  /\ IsFiniteSet(queue) /\ IsFiniteSet(InDispatch)
  /\ Cardinality(InDispatch) <= Capacity /\ Capacity \in Nat
  /\ queue \intersect InDispatch = {}

LEMMA LimitsHold == LInv => Limited
BY DispatchBounded DEF LInv, Limited, IInv, OneHome, InDispatch

(* A step of Scheduler keeps it: only a submission with room adds a request. *)
LEMMA BoundKept ==
  ASSUME LInv, LInv', QueueBound, [S!Next]_(S!vars)
  PROVE  QueueBound'
<1>1. (LInv => Limited)'
  BY LimitsHold, PTL
<1>2. Limited /\ Limited'
  BY <1>1, LimitsHold
<1> USE DEF Limited
<1>3. /\ Cardinality(queue) \in Nat /\ Cardinality(queue') \in Nat
      /\ Cardinality(InDispatch) \in Nat /\ Cardinality(InDispatch') \in Nat
      /\ Capacity' = Capacity /\ MaxQueue \in Nat
  BY <1>2, FS_CardinalityType DEF Capacity, Permit
<1>4. ASSUME NEW r \in Request, S!Submit(r) PROVE QueueBound'
  <2>1. InDispatch' = InDispatch /\ r \notin queue
    BY <1>4 DEF S!Submit
  <2>2. queue' \in AfterSubmit(queue, r)
    BY <1>4, SameSizes DEF S!Submit, S!AfterSubmit, AfterSubmit
  <2>3. CASE Cardinality(queue) < MaxQueue
    <3>1. Cardinality(queue') = Cardinality(queue) + 1
      BY <1>2, <2>1, <2>2, <2>3, FS_AddElement DEF AfterSubmit
    <3> QED
      BY <1>2, <1>3, <2>1, <2>3, <3>1 DEF QueueBound
  <2>4. CASE ~(Cardinality(queue) < MaxQueue)
    <3>1. PICK d \in queue : queue' = (queue \ {d}) \union {r}
      BY <2>2, <2>4 DEF AfterSubmit
    <3>2. IsFiniteSet(queue \ {d}) /\ Cardinality(queue \ {d}) = Cardinality(queue) - 1
      BY <1>2, FS_RemoveElement
    <3>3. Cardinality(queue') = Cardinality(queue \ {d}) + 1
      BY <2>1, <3>1, <3>2, FS_AddElement
    <3> QED
      BY <1>3, <2>1, <3>2, <3>3 DEF QueueBound
  <2> QED
    BY <2>3, <2>4
<1>5. ASSUME NEW B \in SUBSET queue, S!NextBatch(B) PROVE QueueBound'
  <2>1. queue' = queue \ B /\ InDispatch' = InDispatch \union B
    BY <1>5 DEF S!NextBatch
  <2>2. IsFiniteSet(B) /\ Cardinality(B) \in Nat
    BY <1>2, FS_Subset, FS_CardinalityType
  <2>3. queue \intersect B = B /\ InDispatch \intersect B = {}
    BY <1>2
  <2>4. Cardinality(queue') = Cardinality(queue) - Cardinality(B)
    BY <1>2, <2>1, <2>3, FS_Difference
  <2>5. Cardinality(InDispatch') = Cardinality(InDispatch) + Cardinality(B)
    <3>1. Cardinality(InDispatch \intersect B) = 0
      BY <2>3, FS_EmptySet
    <3>2. Cardinality(InDispatch \union B)
            = Cardinality(InDispatch) + Cardinality(B) - Cardinality(InDispatch \intersect B)
      BY <1>2, <2>2, FS_Union
    <3> QED
      BY <1>3, <2>1, <2>2, <3>1, <3>2
  <2> QED
    BY <1>3, <2>2, <2>4, <2>5 DEF QueueBound
<1>6. ASSUME NEW r \in InDispatch, S!Resubmit(r) PROVE QueueBound'
  <2>1. queue' = queue \union {r} /\ InDispatch' = InDispatch \ {r}
    BY <1>6 DEF S!Resubmit
  <2>2. Cardinality(queue') = Cardinality(queue) + 1
    BY <1>2, <2>1, FS_AddElement
  <2>3. Cardinality(InDispatch') = Cardinality(InDispatch) - 1
    BY <1>2, <2>1, FS_RemoveElement
  <2> QED
    BY <1>3, <2>2, <2>3 DEF QueueBound
<1>7. ASSUME queue' \subseteq queue, InDispatch' \subseteq InDispatch PROVE QueueBound'
  <2>1. Cardinality(queue') <= Cardinality(queue)
    BY <1>2, <1>7, FS_Subset
  <2>2. Cardinality(InDispatch') <= Cardinality(InDispatch)
    BY <1>2, <1>7, FS_Subset
  <2>3. Cardinality(queue) + Cardinality(InDispatch) <= MaxQueue + Capacity
    BY DEF QueueBound
  <2>4. Cardinality(queue') + Cardinality(InDispatch') <= MaxQueue + Capacity'
    BY <1>2, <1>3, <2>1, <2>2, <2>3
  <2> QED
    BY <2>4 DEF QueueBound
<1> QED
  BY <1>4, <1>5, <1>6, <1>7 DEF S!Next, S!Settle, S!Tick, S!OnClientDisconnected, S!vars

LEMMA InitBound == Init => QueueBound
<1> SUFFICES ASSUME Init PROVE QueueBound
  OBVIOUS
<1>1. queue = {} /\ InDispatch = {}
  BY DEF Init, InDispatch
<1>2. Capacity \in Nat
  BY InitLInv, DispatchBounded DEF LInv
<1> QED
  BY <1>1, <1>2, FS_EmptySet DEF QueueBound

-----------------------------------------------------------------------------
(* Theorems.                                                                 *)

THEOREM LInvAlways == Spec => []LInv
<1>1. LInv /\ [Next]_vars => LInv'
  BY NextLInv
<1> QED
  BY InitLInv, <1>1, PTL DEF Spec

(* The server implements the caller of the Scheduler ABC: it resubmits and   *)
(* settles only what it was handed, and never holds more than its permits    *)
(* and max_concurrent_dispatch allow (server.py:231, 384).                   *)
THEOREM AlwaysUsesScheduler == Spec => UsesScheduler
<1>1. LInv /\ LInv' /\ [Next]_vars => [S!Next]_(S!vars)
  BY NextUses
<1> QED
  BY InitUses, <1>1, LInvAlways, PTL DEF Spec, UsesScheduler, S!Spec

(* Queue and dispatch together never exceed max_queue_size and the dispatch  *)
(* limits, although retries bypass the overflow check (server.py:314, 443).  *)
THEOREM QueueAlwaysBounded == Spec => []QueueBound
<1>1. LInv /\ LInv' /\ QueueBound /\ [Next]_vars => QueueBound'
  BY NextUses, BoundKept
<1> QED
  BY InitBound, <1>1, LInvAlways, PTL DEF Spec

=============================================================================
