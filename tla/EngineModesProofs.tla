-------------------------- MODULE EngineModesProofs --------------------------
(***************************************************************************)
(* The jobs of the queue stay in sequence, and are of one queue, whatever  *)
(* options are set between them, for any places and any number of jobs.    *)
(***************************************************************************)
EXTENDS EngineModes, TLAPS, SequenceTheorems, FiniteSetTheorems

\* What is needed of the variables' types.
QueueTypes ==
    /\ entered \in Nat
    /\ net \in Nat
    /\ queue \in Seq(Job)
    /\ working \subseteq Job
    /\ retiring \subseteq Job

\* Jobs have the numbers of the tokens that brought them, in order.
InOrder ==
    /\ \A i \in 1..Len(queue) : queue[i].number <= entered
    /\ \A job \in working : job.number <= entered
    /\ \A i, j \in 1..Len(queue) : i < j => queue[i].number < queue[j].number
    /\ \A job \in working, i \in 1..Len(queue) : job.number < queue[i].number

\* A worker of an old queue runs only while the call that destroys that queue
\* waits for it, and then there is no other job, nor anybody to bring one.
OneWorker ==
    /\ \A job, other \in working : job = other
    /\ \A job, other \in retiring : job = other
    /\ retiring # {} => call \in {"replace", "destroyed"}
    /\ call \in {"replace", "destroyed"} => queue = <<>> /\ working = {}
    /\ call \in {"replace", "destroy", "destroyed"} => ~running

SequenceInv == QueueTypes /\ InOrder /\ OneWorker /\ QueueFollowsOption

queueVars == <<option, running, net, queue, working, retiring, call, entered>>

-----------------------------------------------------------------------------
LEMMA Numbers ==
    ASSUME QueueTypes
    PROVE  /\ \A i \in 1..Len(queue) : queue[i].number \in Nat
           /\ \A job \in working : job.number \in Nat
<1>1. \A i \in 1..Len(queue) : queue[i] \in Job
  BY ElementOfSeq DEF QueueTypes
<1> QED
  BY <1>1 DEF QueueTypes, Job

LEMMA Untouched ==
    ASSUME SequenceInv, UNCHANGED queueVars
    PROVE  SequenceInv'
  BY DEF SequenceInv, QueueTypes, InOrder, OneWorker, QueueFollowsOption, queueVars

\* A token whose action does not go to the queue.
LEMMA EnteredElsewhere ==
    ASSUME SequenceInv, entered' = entered + 1, call' \in {call, "increment"},
           call \notin {"replace", "destroy", "destroyed"},
           UNCHANGED <<option, running, net, queue, working, retiring>>
    PROVE  SequenceInv'
<1>1. /\ \A i \in 1..Len(queue) : queue[i].number \in Nat
      /\ \A job \in working : job.number \in Nat
  BY Numbers DEF SequenceInv, QueueTypes
<1>2. QueueTypes' /\ OneWorker' /\ QueueFollowsOption'
  BY DEF SequenceInv, QueueTypes, OneWorker, QueueFollowsOption
<1>3. InOrder'
  BY <1>1 DEF SequenceInv, QueueTypes, InOrder
<1> QED
  BY <1>2, <1>3 DEF SequenceInv

\* A job that is queued comes last and has the greatest number.
LEMMA EnteredQueue ==
    ASSUME SequenceInv, NEW p \in Place, Enqueue(p), entered' = entered + 1, call' = call,
           call \notin {"replace", "destroy", "destroyed"},
           UNCHANGED <<option, running, net, working, retiring>>
    PROVE  SequenceInv'
<1>1. queue' = Append(queue, NewJob(p)) /\ NewJob(p) \in Job
      /\ NewJob(p).number = entered + 1
  BY DEF Enqueue, NewJob, Job, SequenceInv, QueueTypes
<1>2. /\ Len(queue) \in Nat
      /\ Len(queue') = Len(queue) + 1
      /\ queue' \in Seq(Job)
      /\ \A i \in 1..Len(queue) : queue'[i] = queue[i]
      /\ queue'[Len(queue) + 1] = NewJob(p)
  BY <1>1, AppendProperties DEF SequenceInv, QueueTypes
<1>3. \A i \in 1..Len(queue') :
         \/ i \in 1..Len(queue) /\ queue'[i] = queue[i]
         \/ i = Len(queue) + 1 /\ queue'[i].number = entered + 1
  BY <1>1, <1>2
<1>4. /\ \A i \in 1..Len(queue) : queue[i].number \in Nat
      /\ \A job \in working : job.number \in Nat
      /\ entered \in Nat
  BY Numbers DEF SequenceInv, QueueTypes
<1>5. InOrder
  BY DEF SequenceInv
<1>6. InOrder'
  <2>1. \A i \in 1..Len(queue') : queue'[i].number <= entered'
    BY <1>3, <1>4, <1>5 DEF InOrder
  <2>2. \A job \in working' : job.number <= entered'
    BY <1>4, <1>5 DEF InOrder
  <2>3. ASSUME NEW i \in 1..Len(queue'), NEW j \in 1..Len(queue'), i < j
        PROVE  queue'[i].number < queue'[j].number
    <3>1. i \in 1..Len(queue) /\ queue'[i] = queue[i]
      BY <1>2, <1>3, <2>3
    <3>2. CASE j \in 1..Len(queue) /\ queue'[j] = queue[j]
      BY <1>5, <2>3, <3>1, <3>2 DEF InOrder
    <3>3. CASE j = Len(queue) + 1 /\ queue'[j].number = entered + 1
      BY <1>4, <1>5, <3>1, <3>3 DEF InOrder
    <3> QED
      BY <1>3, <3>2, <3>3
  <2>4. ASSUME NEW job \in working', NEW i \in 1..Len(queue')
        PROVE  job.number < queue'[i].number
    <3>1. CASE i \in 1..Len(queue) /\ queue'[i] = queue[i]
      BY <1>5, <3>1 DEF InOrder
    <3>2. CASE i = Len(queue) + 1 /\ queue'[i].number = entered + 1
      BY <1>4, <1>5, <3>2 DEF InOrder
    <3> QED
      BY <1>3, <3>1, <3>2
  <2> QED
    BY <2>1, <2>2, <2>3, <2>4 DEF InOrder
<1>7. QueueTypes'
  BY <1>2 DEF SequenceInv, QueueTypes
<1>8. OneWorker' /\ QueueFollowsOption'
  BY DEF SequenceInv, OneWorker, QueueFollowsOption, Enqueue
<1> QED
  BY <1>6, <1>7, <1>8 DEF SequenceInv

\* The worker takes the oldest job; all the others have greater numbers.
LEMMA Taken ==
    ASSUME SequenceInv, TakeJob
    PROVE  SequenceInv'
<1>1. /\ queue \in Seq(Job) /\ queue # <<>>
      /\ queue' = Tail(queue) /\ working' = {Head(queue)}
      /\ UNCHANGED <<option, running, net, retiring, call, entered>>
  BY DEF TakeJob, SequenceInv, QueueTypes, calls
<1>2. /\ Len(queue) \in Nat \ {0} /\ Len(queue') = Len(queue) - 1
      /\ queue' \in Seq(Job)
      /\ \A i \in 1..Len(queue') : i + 1 \in 1..Len(queue) /\ queue'[i] = queue[i + 1]
      /\ Head(queue) = queue[1] /\ 1 \in 1..Len(queue) /\ Head(queue) \in Job
  BY <1>1, HeadTailProperties, EmptySeq
<1>3. /\ \A i \in 1..Len(queue) : queue[i].number \in Nat
      /\ InOrder
  BY Numbers DEF SequenceInv, QueueTypes
<1>4. InOrder'
  <2>1. \A i \in 1..Len(queue') : queue'[i].number <= entered'
    BY <1>1, <1>2, <1>3 DEF InOrder
  <2>2. \A job \in working' : job.number <= entered'
    BY <1>1, <1>2, <1>3 DEF InOrder
  <2>3. \A i, j \in 1..Len(queue') : i < j => queue'[i].number < queue'[j].number
    BY <1>2, <1>3 DEF InOrder
  <2>4. \A job \in working', i \in 1..Len(queue') : job.number < queue'[i].number
    <3>1. \A i \in 1..Len(queue') : 1 < i + 1
      BY <1>2
    <3> QED
      BY <1>1, <1>2, <1>3, <3>1 DEF InOrder
  <2> QED
    BY <2>1, <2>2, <2>3, <2>4 DEF InOrder
<1>5. QueueTypes'
  BY <1>1, <1>2 DEF SequenceInv, QueueTypes
<1>6. OneWorker' /\ QueueFollowsOption'
  BY <1>1 DEF SequenceInv, OneWorker, QueueFollowsOption
<1> QED
  BY <1>4, <1>5, <1>6 DEF SequenceInv

\* A token enters in whatever way.
LEMMA Entered ==
    ASSUME SequenceInv, Entering
    PROVE  SequenceInv'
<1>1. ASSUME NEW p \in Place, LoopEnters(p)
      PROVE  SequenceInv'
  <2>1. /\ call \notin {"replace", "destroy", "destroyed"} /\ call' = call
        /\ entered' = entered + 1
        /\ UNCHANGED <<option, running, net, working, retiring>>
    BY <1>1 DEF LoopEnters, MayEnter, calls, SequenceInv, OneWorker
  <2>2. CASE Enqueue(p)
    BY <2>1, <2>2, EnteredQueue
  <2>3. CASE UNCHANGED queue
    BY <2>1, <2>3, EnteredElsewhere
  <2> QED
    BY <1>1, <2>2, <2>3 DEF LoopEnters, RunInline, Detach
<1>2. ASSUME NEW p \in Place, CallerEnters(p) \/ \E job \in Threads : ActionCalls(job, p)
      PROVE  SequenceInv'
  <2>1. /\ call = "none"
        /\ entered' = entered + 1
        /\ UNCHANGED <<option, running, net, working, retiring>>
    BY <1>2 DEF CallerEnters, ActionCalls, MayEnter
  <2>2. CASE Enqueue(p) /\ call' = call
    BY <2>1, <2>2, EnteredQueue
  <2>3. CASE UNCHANGED queue /\ call' \in {call, "increment"}
    BY <2>1, <2>3, EnteredElsewhere
  <2> QED
    BY <1>2, <2>2, <2>3 DEF CallerEnters, ActionCalls, RunInline, Detach, DetachFails
<1> QED
  BY <1>1, <1>2 DEF Entering

LEMMA Acted ==
    ASSUME SequenceInv, Acting
    PROVE  SequenceInv'
<1>1. CASE FinishWorking
  <2>1. working' = {} /\ UNCHANGED <<option, running, net, queue, retiring, call, entered>>
    BY <1>1 DEF FinishWorking, calls
  <2> QED
    BY <2>1 DEF SequenceInv, QueueTypes, InOrder, OneWorker, QueueFollowsOption
<1>2. CASE FinishRetiring
  <2>1. retiring' = {} /\ UNCHANGED <<option, running, net, queue, working, call, entered>>
    BY <1>2 DEF FinishRetiring, calls
  <2> QED
    BY <2>1 DEF SequenceInv, QueueTypes, InOrder, OneWorker, QueueFollowsOption
<1>3. CASE FinishInLoop \/ \E job \in detached : FinishDetached(job)
  <2>1. UNCHANGED queueVars
    BY <1>3 DEF FinishInLoop, FinishDetached, queueVars, calls
  <2> QED
    BY <2>1, Untouched
<1>4. CASE FinishInCall \/ ThrowInCall \/ ThrowInExecute
  <2>1. call \in {"increment", "execute"} /\ call' = "none"
        /\ UNCHANGED <<option, running, net, queue, working, retiring, entered>>
    BY <1>4 DEF FinishInCall, ThrowInCall, ThrowInExecute
  <2> QED
    BY <2>1 DEF SequenceInv, QueueTypes, InOrder, OneWorker, QueueFollowsOption
<1>5. CASE \E job \in Threads : ActionDoesNotCall(job) \/ ActionCallsTooLate(job)
  <2>1. UNCHANGED queueVars
    BY <1>5 DEF ActionDoesNotCall, ActionCallsTooLate, queueVars, calls, jobs
  <2> QED
    BY <2>1, Untouched
<1> QED
  BY <1>1, <1>2, <1>3, <1>4, <1>5, Taken DEF Acting

LEMMA Managed ==
    ASSUME SequenceInv, Managing
    PROVE  SequenceInv'
<1> USE DEF SequenceInv, QueueTypes, InOrder, OneWorker, QueueFollowsOption
<1>1. CASE Execute \/ ExecuteHere \/ ExecuteReturns \/ Stop
  BY <1>1 DEF Execute, ExecuteHere, ExecuteReturns, Stop, jobs, calls
<1>2. ASSUME NEW o \in Option, SetActionsThreadOption(o)
      PROVE  SequenceInv'
  <2>1. retiring = {} /\ retiring' = working /\ queue' = <<>> /\ working' = {}
        /\ call' = "replace" /\ ~running
        /\ UNCHANGED <<option, running, net, entered>>
    BY <1>2 DEF SetActionsThreadOption, DestroyExecutor
  <2> QED
    BY <2>1
<1>3. CASE Installed
  <2>1. retiring = {} /\ queue = <<>> /\ working = {} /\ call' = "none"
        /\ UNCHANGED <<running, net, queue, working, retiring, entered>>
    BY <1>3 DEF Installed, Joined, jobs
  <2> QED
    BY <2>1
<1>4. CASE ClearNet \/ DestroyPlaces
  <2>1. net' \in Nat /\ UNCHANGED <<option, running, queue, working, retiring, entered>>
        /\ call = "none" /\ ~running /\ call' \in {"none", "destroy"}
    BY <1>4 DEF ClearNet, DestroyPlaces, RemovePlaces, jobs, calls
  <2> QED
    BY <2>1
<1>5. ASSUME NEW p \in Place, CreatePlace(p)
      PROVE  SequenceInv'
  BY <1>5 DEF CreatePlace, jobs, calls
<1>6. CASE DestroyEngine
  <2>1. retiring = {} /\ retiring' = working /\ queue' = <<>> /\ working' = {}
        /\ call' = "destroyed" /\ ~running
        /\ UNCHANGED <<option, running, net, entered>>
    BY <1>6 DEF DestroyEngine, DestroyExecutor
  <2> QED
    BY <2>1
<1> QED
  BY <1>1, <1>2, <1>3, <1>4, <1>5, <1>6 DEF Managing

LEMMA Sequenced == Spec => []SequenceInv
<1>1. Init => SequenceInv
  BY EngineModesAssumption
     DEF Init, SequenceInv, QueueTypes, InOrder, OneWorker, QueueFollowsOption
<1>2. SequenceInv /\ [Next]_vars => SequenceInv'
  <2> SUFFICES ASSUME SequenceInv, [Next]_vars
               PROVE  SequenceInv'
    OBVIOUS
  <2>1. CASE UNCHANGED vars
    BY <2>1, Untouched DEF vars, jobs, calls, queueVars
  <2> QED
    BY <2>1, Entered, Acted, Managed DEF Next
<1> QED
  BY <1>1, <1>2, PTL DEF Spec

-----------------------------------------------------------------------------
(***************************************************************************)
(* The actions of the queue are executed one at a time, in the order in    *)
(* which they were triggered, whenever the option is changed.              *)
(***************************************************************************)
THEOREM ActionsStaySequential == Spec => []SequentialActions
<1>1. SequenceInv => SequentialActions
  <2> SUFFICES ASSUME SequenceInv
               PROVE  SequentialActions
    OBVIOUS
  <2>1. CASE retiring = {}
    BY <2>1 DEF SequenceInv, InOrder, OneWorker, SequentialActions
  <2>2. CASE retiring # {}
    <3>1. queue = <<>> /\ working = {}
      BY <2>2 DEF SequenceInv, OneWorker
    <3> QED
      BY <3>1 DEF SequenceInv, InOrder, OneWorker, SequentialActions
  <2> QED
    BY <2>1, <2>2
<1> QED
  BY <1>1, Sequenced, PTL

(***************************************************************************)
(* Once another option is set nothing of the queue waits or runs.          *)
(***************************************************************************)
THEOREM OldQueueIsDone == Spec => []QueueFollowsOption
<1>1. SequenceInv => QueueFollowsOption
  BY DEF SequenceInv
<1> QED
  BY <1>1, Sequenced, PTL

-----------------------------------------------------------------------------
(***************************************************************************)
(* The counters.  The jobs there are form one set, of which every step     *)
(* adds one, takes one away, or drops those that wait.                     *)
(***************************************************************************)
Everywhere == ToSet(queue) \cup UnderWay

\* A job is in one place at a time.
PoolsApart ==
    /\ ToSet(queue) \cap UnderWay = {}
    /\ working \cap (retiring \cup detached \cup inLoop \cup inCall) = {}
    /\ retiring \cap (detached \cup inLoop \cup inCall) = {}
    /\ detached \cap (inLoop \cup inCall) = {}
    /\ inLoop \cap inCall = {}
    /\ \A job, other \in inLoop : job = other
    /\ \A job, other \in inCall : job = other
    /\ call # "increment" => inCall = {}

JobsCounted ==
    /\ IsFiniteSet(Everywhere)
    /\ Everywhere \subseteq Job
    /\ \A job \in Everywhere : job.number <= entered /\ job.net <= net
    /\ counter \in [Place -> Nat]
    /\ lost \in [Place -> Nat]
    /\ CountersAreExact

CountInv == SequenceInv /\ PoolsApart /\ JobsCounted

LEMMA OfSubset == \A p, S : Of(p, S) \subseteq S
  BY DEF Of

\* One job more.
LEMMA CountAdd ==
    ASSUME NEW S, IsFiniteSet(S), NEW j, j \notin S, NEW p
    PROVE  /\ Cardinality(Of(p, S)) \in Nat
           /\ Cardinality(Of(p, S \cup {j})) =
                 Cardinality(Of(p, S)) + (IF j.place = p /\ ~Orphan(j) THEN 1 ELSE 0)
<1>1. IsFiniteSet(Of(p, S)) /\ Cardinality(Of(p, S)) \in Nat
  BY FS_Subset, FS_CardinalityType, OfSubset
<1>2. CASE j.place = p /\ ~Orphan(j)
  <2>1. Of(p, S \cup {j}) = Of(p, S) \cup {j} /\ j \notin Of(p, S)
    BY <1>2 DEF Of
  <2> QED
    BY <1>1, <1>2, <2>1, FS_AddElement
<1>3. CASE ~(j.place = p /\ ~Orphan(j))
  <2>1. Of(p, S \cup {j}) = Of(p, S)
    BY <1>3 DEF Of
  <2> QED
    BY <1>1, <1>3, <2>1
<1> QED
  BY <1>2, <1>3, <1>1

\* One job less.
LEMMA CountRemove ==
    ASSUME NEW S, IsFiniteSet(S), NEW j \in S, NEW p
    PROVE  /\ Cardinality(Of(p, S)) \in Nat
           /\ Cardinality(Of(p, S \ {j})) \in Nat
           /\ Cardinality(Of(p, S)) =
                 Cardinality(Of(p, S \ {j})) + (IF j.place = p /\ ~Orphan(j) THEN 1 ELSE 0)
<1>1. IsFiniteSet(S \ {j}) /\ j \notin S \ {j} /\ S = (S \ {j}) \cup {j}
  BY FS_RemoveElement
<1>2. IsFiniteSet(Of(p, S)) /\ Cardinality(Of(p, S)) \in Nat
  BY FS_Subset, FS_CardinalityType, OfSubset
<1> QED
  BY <1>1, <1>2, CountAdd

\* The jobs that wait and the others.
LEMMA CountBoth ==
    ASSUME NEW S, NEW T, IsFiniteSet(S \cup T), S \cap T = {}, NEW p
    PROVE  /\ Cardinality(Of(p, S)) \in Nat /\ Cardinality(Of(p, T)) \in Nat
           /\ Cardinality(Of(p, S \cup T)) = Cardinality(Of(p, S)) + Cardinality(Of(p, T))
<1>1. IsFiniteSet(Of(p, S)) /\ IsFiniteSet(Of(p, T))
  <2>1. IsFiniteSet(S) /\ IsFiniteSet(T)
    BY FS_Subset
  <2> QED
    BY <2>1, FS_Subset, OfSubset
<1>2. Of(p, S \cup T) = Of(p, S) \cup Of(p, T) /\ Of(p, S) \cap Of(p, T) = {}
  BY DEF Of
<1>3. Cardinality(Of(p, S)) \in Nat /\ Cardinality(Of(p, T)) \in Nat
  BY <1>1, FS_CardinalityType
<1>4. Cardinality(Of(p, S) \cap Of(p, T)) = 0
  BY <1>2, FS_EmptySet
<1>5. Cardinality(Of(p, S) \cup Of(p, T)) =
        Cardinality(Of(p, S)) + Cardinality(Of(p, T)) - Cardinality(Of(p, S) \cap Of(p, T))
  BY <1>1, FS_Union
<1>6. Cardinality(Of(p, S \cup T)) = Cardinality(Of(p, S) \cup Of(p, T))
  BY <1>2
<1> QED
  BY <1>3, <1>4, <1>5, <1>6

LEMMA OutstandingOf == \A p : Outstanding(p) = Of(p, Everywhere)
  BY DEF Outstanding, Everywhere

\* The job of a token that enters is like no other.
LEMMA NewIsNew ==
    ASSUME QueueTypes, JobsCounted, NEW p \in Place
    PROVE  NewJob(p) \in Job /\ NewJob(p) \notin Everywhere
  BY DEF NewJob, Job, JobsCounted, QueueTypes

\* An action is counted when its job is handed over,
LEMMA CountedUp ==
    ASSUME QueueTypes, JobsCounted, NEW p \in Place, CountUp(p),
           Everywhere' = Everywhere \cup {NewJob(p)}, entered' = entered + 1,
           UNCHANGED <<net, lost>>
    PROVE  JobsCounted'
<1> DEFINE new == NewJob(p)
<1>1. new \in Job /\ new \notin Everywhere /\ new.place = p /\ ~Orphan(new)
      /\ new.number = entered + 1 /\ new.net = net
  BY NewIsNew DEF NewJob, Orphan
<1>2. IsFiniteSet(Everywhere') /\ Everywhere' \subseteq Job
  BY <1>1, FS_AddElement DEF JobsCounted
<1>3. \A job \in Everywhere' : job.number <= entered' /\ job.net <= net'
  BY <1>1 DEF JobsCounted, QueueTypes, Job
<1>4. counter' \in [Place -> Nat] /\ lost' \in [Place -> Nat]
  BY DEF JobsCounted, CountUp
<1>5. ASSUME NEW q \in Place
      PROVE  counter'[q] = Cardinality(Outstanding(q)') + lost'[q]
  <2>1. Outstanding(q)' = Of(q, Everywhere \cup {new})
    BY OutstandingOf DEF Outstanding, Everywhere, Of, Orphan
  <2>2. counter[q] = Cardinality(Of(q, Everywhere)) + lost[q]
    BY OutstandingOf DEF JobsCounted, CountersAreExact
  <2>3. /\ Cardinality(Of(q, Everywhere)) \in Nat
        /\ Cardinality(Of(q, Everywhere \cup {new})) =
              Cardinality(Of(q, Everywhere)) + (IF q = p THEN 1 ELSE 0)
    BY <1>1, CountAdd DEF JobsCounted
  <2>4. counter'[q] = counter[q] + (IF q = p THEN 1 ELSE 0) /\ lost'[q] = lost[q]
        /\ counter[q] \in Nat /\ lost[q] \in Nat
    BY DEF CountUp, JobsCounted
  <2> QED
    BY <2>1, <2>2, <2>3, <2>4
<1> QED
  BY <1>2, <1>3, <1>4, <1>5 DEF JobsCounted, CountersAreExact

\* and again when it has ended.
LEMMA CountedDown ==
    ASSUME JobsCounted, NEW job \in Everywhere, CountDown(job),
           Everywhere' = Everywhere \ {job}, UNCHANGED <<net, lost, entered>>
    PROVE  JobsCounted'
<1>1. IsFiniteSet(Everywhere') /\ Everywhere' \subseteq Job
  BY FS_RemoveElement DEF JobsCounted
<1>2. \A other \in Everywhere' : other.number <= entered' /\ other.net <= net'
  BY DEF JobsCounted
<1>3. ASSUME NEW q \in Place
      PROVE  /\ counter'[q] \in Nat
             /\ counter'[q] = Cardinality(Outstanding(q)') + lost'[q]
  <2>1. Outstanding(q)' = Of(q, Everywhere \ {job})
    BY OutstandingOf DEF Outstanding, Everywhere, Of, Orphan
  <2>2. counter[q] = Cardinality(Of(q, Everywhere)) + lost[q]
    BY OutstandingOf DEF JobsCounted, CountersAreExact
  <2>3. /\ Cardinality(Of(q, Everywhere)) \in Nat
        /\ Cardinality(Of(q, Everywhere \ {job})) \in Nat
        /\ Cardinality(Of(q, Everywhere)) =
              Cardinality(Of(q, Everywhere \ {job}))
              + (IF job.place = q /\ ~Orphan(job) THEN 1 ELSE 0)
    BY CountRemove DEF JobsCounted
  <2>4. counter'[q] = counter[q] - (IF job.place = q /\ ~Orphan(job) THEN 1 ELSE 0)
        /\ lost'[q] = lost[q] /\ counter[q] \in Nat /\ lost[q] \in Nat
    BY DEF CountDown, JobsCounted
  <2> QED
    BY <2>1, <2>2, <2>3, <2>4
<1>4. counter' \in [Place -> Nat] /\ lost' \in [Place -> Nat]
  <2>1. counter' = [q \in Place |-> counter'[q]]
    BY DEF CountDown, JobsCounted
  <2> QED
    BY <1>3, <2>1 DEF JobsCounted
<1> QED
  BY <1>1, <1>2, <1>3, <1>4 DEF JobsCounted, CountersAreExact

\* An action that ends by an exception stays counted.
LEMMA CountedThrown ==
    ASSUME JobsCounted, NEW job \in Everywhere, NeverCountDown(job),
           Everywhere' = Everywhere \ {job}, UNCHANGED <<net, counter, entered>>
    PROVE  JobsCounted'
<1>1. IsFiniteSet(Everywhere') /\ Everywhere' \subseteq Job
  BY FS_RemoveElement DEF JobsCounted
<1>2. \A other \in Everywhere' : other.number <= entered' /\ other.net <= net'
  BY DEF JobsCounted
<1>3. counter' \in [Place -> Nat] /\ lost' \in [Place -> Nat]
  <2>1. job.place \in Place /\ counter \in [Place -> Nat] /\ lost \in [Place -> Nat]
    BY DEF JobsCounted, Job
  <2> QED
    BY <2>1 DEF NeverCountDown
<1>4. ASSUME NEW q \in Place
      PROVE  counter'[q] = Cardinality(Outstanding(q)') + lost'[q]
  <2>1. Outstanding(q)' = Of(q, Everywhere \ {job})
    BY OutstandingOf DEF Outstanding, Everywhere, Of, Orphan
  <2>2. counter[q] = Cardinality(Of(q, Everywhere)) + lost[q]
    BY OutstandingOf DEF JobsCounted, CountersAreExact
  <2>3. /\ Cardinality(Of(q, Everywhere)) \in Nat
        /\ Cardinality(Of(q, Everywhere \ {job})) \in Nat
        /\ Cardinality(Of(q, Everywhere)) =
              Cardinality(Of(q, Everywhere \ {job}))
              + (IF job.place = q /\ ~Orphan(job) THEN 1 ELSE 0)
    BY CountRemove DEF JobsCounted
  <2>4. lost'[q] = lost[q] + (IF job.place = q /\ ~Orphan(job) THEN 1 ELSE 0)
        /\ counter'[q] = counter[q] /\ counter[q] \in Nat /\ lost[q] \in Nat
    BY DEF NeverCountDown, JobsCounted
  <2> QED
    BY <2>1, <2>2, <2>3, <2>4
<1> QED
  BY <1>1, <1>2, <1>3, <1>4 DEF JobsCounted, CountersAreExact

\* The jobs that wait are dropped with their queue, the counters are not.
LEMMA CountedLost ==
    ASSUME JobsCounted, PoolsApart, Everywhere' = UnderWay,
           lost' = [p \in Place |-> lost[p] + Cardinality(Of(p, ToSet(queue)))],
           UNCHANGED <<net, counter, entered>>
    PROVE  JobsCounted'
<1>1. IsFiniteSet(Everywhere') /\ Everywhere' \subseteq Job
  BY FS_Subset DEF JobsCounted, Everywhere
<1>2. \A other \in Everywhere' : other.number <= entered' /\ other.net <= net'
  BY DEF JobsCounted, Everywhere
<1>3. ASSUME NEW q \in Place
      PROVE  /\ lost'[q] \in Nat
             /\ counter'[q] = Cardinality(Outstanding(q)') + lost'[q]
  <2>1. Outstanding(q)' = Of(q, UnderWay)
    BY DEF Outstanding, Everywhere, Of, Orphan
  <2>2. counter[q] = Cardinality(Of(q, Everywhere)) + lost[q]
    BY OutstandingOf DEF JobsCounted, CountersAreExact
  <2>3. /\ Cardinality(Of(q, ToSet(queue))) \in Nat
        /\ Cardinality(Of(q, UnderWay)) \in Nat
        /\ Cardinality(Of(q, Everywhere)) =
              Cardinality(Of(q, ToSet(queue))) + Cardinality(Of(q, UnderWay))
    BY CountBoth DEF JobsCounted, PoolsApart, Everywhere
  <2>4. counter'[q] = counter[q] /\ lost[q] \in Nat
        /\ lost'[q] = lost[q] + Cardinality(Of(q, ToSet(queue)))
    BY DEF JobsCounted
  <2> QED
    BY <2>1, <2>2, <2>3, <2>4
<1> QED
  BY <1>1, <1>2, <1>3 DEF JobsCounted, CountersAreExact

\* New places have no actions, the jobs there are go with the old ones.
LEMMA CountedAnew ==
    ASSUME QueueTypes, JobsCounted, RemovePlaces, UNCHANGED <<jobs, entered>>
    PROVE  JobsCounted' /\ \A job \in Everywhere' : Orphan(job)'
<1>1. Everywhere' = Everywhere
  BY DEF Everywhere, UnderWay, Threads, jobs
<1>2. net \in Nat /\ net' = net + 1
  BY DEF QueueTypes, RemovePlaces
<1>3. \A job \in Everywhere' : job.number <= entered' /\ job.net <= net' /\ Orphan(job)'
  BY <1>1, <1>2 DEF JobsCounted, Job, Orphan
<1>4. \A q \in Place : counter'[q] = Cardinality(Outstanding(q)') + lost'[q]
  <2>1. \A q \in Place : Outstanding(q)' = {}
    BY <1>3 DEF Outstanding, Of, Everywhere
  <2> QED
    BY <2>1, FS_EmptySet DEF RemovePlaces
<1> QED
  BY <1>1, <1>3, <1>4 DEF JobsCounted, CountersAreExact, RemovePlaces

-----------------------------------------------------------------------------
(***************************************************************************)
(* Each step keeps the jobs apart.                                         *)
(***************************************************************************)
\* The queue as a set, when a job joins or leaves it.
LEMMA QueueGrows ==
    ASSUME QueueTypes, NEW job \in Job, queue' = Append(queue, job)
    PROVE  ToSet(queue') = ToSet(queue) \cup {job}
<1>1. /\ Len(queue) \in Nat /\ Len(queue') = Len(queue) + 1
      /\ \A i \in 1..Len(queue) : queue'[i] = queue[i]
      /\ queue'[Len(queue) + 1] = job
      /\ DOMAIN queue = 1..Len(queue) /\ DOMAIN queue' = 1..(Len(queue) + 1)
  BY AppendProperties, LenProperties DEF QueueTypes
<1>2. \A i \in 1..(Len(queue) + 1) : i \in 1..Len(queue) \/ i = Len(queue) + 1
  BY <1>1
<1>3. Len(queue) + 1 \in 1..(Len(queue) + 1)
      /\ 1..Len(queue) \subseteq 1..(Len(queue) + 1)
  BY <1>1
<1> QED
  BY <1>1, <1>2, <1>3 DEF ToSet

LEMMA QueueShrinks ==
    ASSUME QueueTypes, InOrder, queue # <<>>, queue' = Tail(queue)
    PROVE  /\ Head(queue) \in ToSet(queue)
           /\ ToSet(queue') = ToSet(queue) \ {Head(queue)}
<1>1. /\ Len(queue) \in Nat \ {0} /\ Len(queue') = Len(queue) - 1
      /\ \A i \in 1..Len(queue') : queue'[i] = queue[i + 1]
      /\ Head(queue) = queue[1]
      /\ DOMAIN queue = 1..Len(queue) /\ DOMAIN queue' = 1..(Len(queue) - 1)
  BY HeadTailProperties, LenProperties, EmptySeq DEF QueueTypes
<1>2. /\ 1 \in 1..Len(queue)
      /\ \A i \in 1..(Len(queue) - 1) : i + 1 \in 1..Len(queue) /\ 1 < i + 1
      /\ \A i \in 1..Len(queue) : i # 1 => i - 1 \in 1..(Len(queue) - 1) /\ i - 1 + 1 = i
                                           /\ 1 < i
  BY <1>1
<1>3. \A i \in 1..Len(queue) : queue[i].number \in Nat
  BY Numbers
<1>4. \A i \in 1..Len(queue) : 1 < i => queue[i] # queue[1]
  BY <1>2, <1>3 DEF InOrder
<1>5. ASSUME NEW job \in ToSet(queue')
      PROVE  job \in ToSet(queue) \ {Head(queue)}
  <2>1. PICK i \in 1..(Len(queue) - 1) : job = queue[i + 1]
    BY <1>1, <1>5 DEF ToSet
  <2> QED
    BY <1>1, <1>2, <1>4, <2>1 DEF ToSet
<1>6. ASSUME NEW job \in ToSet(queue) \ {Head(queue)}
      PROVE  job \in ToSet(queue')
  <2>1. PICK i \in 1..Len(queue) : job = queue[i]
    BY <1>1, <1>6 DEF ToSet
  <2>2. i - 1 \in 1..(Len(queue) - 1) /\ queue'[i - 1] = queue[i]
    BY <1>1, <1>2, <1>6, <2>1
  <2> QED
    BY <1>1, <2>1, <2>2 DEF ToSet
<1> QED
  BY <1>1, <1>2, <1>5, <1>6 DEF ToSet

ByOneMore(p) ==
    /\ Everywhere' = Everywhere \cup {NewJob(p)}
    /\ PoolsApart'

\* The three ways of an action to be executed.
LEMMA GoesToQueue ==
    ASSUME QueueTypes, JobsCounted, PoolsApart, NEW p \in Place, Enqueue(p), call' = call,
           UNCHANGED <<working, retiring, inLoop, inCall>>
    PROVE  ByOneMore(p)
<1>1. NewJob(p) \in Job /\ NewJob(p) \notin Everywhere
  BY NewIsNew
<1>2. ToSet(queue') = ToSet(queue) \cup {NewJob(p)}
  BY <1>1, QueueGrows DEF Enqueue
<1> QED
  BY <1>1, <1>2 DEF ByOneMore, Everywhere, UnderWay, Threads, PoolsApart, Enqueue

LEMMA GoesToThread ==
    ASSUME QueueTypes, JobsCounted, PoolsApart, NEW p \in Place, Detach(p), call' = call,
           UNCHANGED <<working, retiring, inLoop, inCall>>
    PROVE  ByOneMore(p)
<1>1. NewJob(p) \notin Everywhere
  BY NewIsNew
<1> QED
  BY <1>1 DEF ByOneMore, Everywhere, UnderWay, Threads, PoolsApart, Detach

LEMMA StaysInLoop ==
    ASSUME QueueTypes, JobsCounted, PoolsApart, NEW p \in Place,
           inLoop = {}, RunInline(p, inLoop), call' = call,
           UNCHANGED <<working, retiring, inCall>>
    PROVE  ByOneMore(p)
<1>1. NewJob(p) \notin Everywhere
  BY NewIsNew
<1> QED
  BY <1>1 DEF ByOneMore, Everywhere, UnderWay, Threads, PoolsApart, RunInline

LEMMA StaysInCall ==
    ASSUME QueueTypes, JobsCounted, PoolsApart, NEW p \in Place,
           call = "none", RunInline(p, inCall), call' = "increment",
           UNCHANGED <<working, retiring, inLoop>>
    PROVE  ByOneMore(p)
<1>1. NewJob(p) \notin Everywhere
  BY NewIsNew
<1> QED
  BY <1>1 DEF ByOneMore, Everywhere, UnderWay, Threads, PoolsApart, RunInline

\* A job leaves, and no other is touched.
ByOneLess(job) ==
    /\ job \in Everywhere
    /\ Everywhere' = Everywhere \ {job}
    /\ PoolsApart'

LEMMA LeavesQueue ==
    ASSUME SequenceInv, PoolsApart, NEW job \in working,
           working' = {}, call' = call, UNCHANGED <<queue, retiring, detached, inLoop, inCall>>
    PROVE  ByOneLess(job)
<1>1. working = {job}
  BY DEF SequenceInv, OneWorker
<1> QED
  BY <1>1 DEF ByOneLess, Everywhere, UnderWay, Threads, PoolsApart

LEMMA LeavesOldQueue ==
    ASSUME SequenceInv, PoolsApart, NEW job \in retiring,
           retiring' = {}, call' = call, UNCHANGED <<queue, working, detached, inLoop, inCall>>
    PROVE  ByOneLess(job)
<1>1. retiring = {job}
  BY DEF SequenceInv, OneWorker
<1> QED
  BY <1>1 DEF ByOneLess, Everywhere, UnderWay, Threads, PoolsApart

LEMMA LeavesThread ==
    ASSUME PoolsApart, NEW job \in detached,
           detached' = detached \ {job}, call' = call,
           UNCHANGED <<queue, working, retiring, inLoop, inCall>>
    PROVE  ByOneLess(job)
  BY DEF ByOneLess, Everywhere, UnderWay, Threads, PoolsApart

LEMMA LeavesLoop ==
    ASSUME PoolsApart, NEW job \in inLoop,
           inLoop' = {}, call' = call \/ call = "execute",
           UNCHANGED <<queue, working, retiring, detached, inCall>>
    PROVE  ByOneLess(job)
<1>1. inLoop = {job}
  BY DEF PoolsApart
<1> QED
  BY <1>1 DEF ByOneLess, Everywhere, UnderWay, Threads, PoolsApart

LEMMA LeavesCall ==
    ASSUME PoolsApart, NEW job \in inCall,
           inCall' = {}, UNCHANGED <<queue, working, retiring, detached, inLoop>>
    PROVE  ByOneLess(job)
<1>1. inCall = {job}
  BY DEF PoolsApart
<1> QED
  BY <1>1 DEF ByOneLess, Everywhere, UnderWay, Threads, PoolsApart

-----------------------------------------------------------------------------
(***************************************************************************)
(* Jobs whose place went away are there only if a counter was up when it   *)
(* did; once the engine is destroyed all jobs are such.                    *)
(***************************************************************************)
CutInv ==
    /\ cutShort \in BOOLEAN /\ undefined \in BOOLEAN
    /\ UndefinedOnlyIfCutShort
    /\ \A job \in Everywhere : Orphan(job) => cutShort
    /\ call \in {"destroy", "destroyed"} => \A job \in Everywhere : Orphan(job)

EngineInv == SequenceInv /\ PoolsApart /\ JobsCounted /\ CutInv

\* A step that neither touches a job nor a counter.
LEMMA Idle ==
    ASSUME PoolsApart, JobsCounted, CutInv,
           UNCHANGED <<net, counter, jobs, entered, history, undefined>>,
           call' \in {call, "none", "execute", "replace"}, call # "increment" \/ call' = call
    PROVE  PoolsApart' /\ JobsCounted' /\ CutInv'
<1>1. UNCHANGED <<Everywhere, UnderWay>>
  BY DEF Everywhere, UnderWay, Threads, jobs
<1>2. PoolsApart'
  BY <1>1 DEF PoolsApart, jobs
<1>3. JobsCounted'
  BY <1>1 DEF JobsCounted, CountersAreExact, Outstanding, Of, Orphan, Everywhere, history
<1>4. CutInv'
  BY <1>1 DEF CutInv, UndefinedOnlyIfCutShort, Orphan, history
<1> QED
  BY <1>2, <1>3, <1>4

\* A token enters and its action is handed over.
LEMMA OneMore ==
    ASSUME QueueTypes, JobsCounted, CutInv, NEW p \in Place, ByOneMore(p), CountUp(p),
           entered' = entered + 1, UNCHANGED <<net, lost, cutShort, undefined>>,
           call \notin {"destroy", "destroyed"}, call' \in {call, "increment"}
    PROVE  PoolsApart' /\ JobsCounted' /\ CutInv'
<1>1. JobsCounted'
  BY CountedUp DEF ByOneMore
<1>2. CutInv'
  BY DEF CutInv, UndefinedOnlyIfCutShort, Orphan, ByOneMore, NewJob
<1> QED
  BY <1>1, <1>2 DEF ByOneMore

\* A token enters and the thread for its action cannot be created.
LEMMA NoneMore ==
    ASSUME PoolsApart, JobsCounted, CutInv, NEW p \in Place, CountUp(p),
           lost' = [lost EXCEPT ![p] = @ + 1], entered \in Nat, entered' = entered + 1,
           call' = call, UNCHANGED <<net, jobs, cutShort, undefined>>
    PROVE  PoolsApart' /\ JobsCounted' /\ CutInv'
<1>1. UNCHANGED <<Everywhere, UnderWay>>
  BY DEF Everywhere, UnderWay, Threads, jobs
<1>2. PoolsApart' /\ CutInv'
  BY <1>1 DEF PoolsApart, jobs, CutInv, UndefinedOnlyIfCutShort, Orphan
<1>3. /\ IsFiniteSet(Everywhere') /\ Everywhere' \subseteq Job
      /\ \A job \in Everywhere' : job.number <= entered' /\ job.net <= net'
  BY <1>1 DEF JobsCounted, Job
<1>4. counter' \in [Place -> Nat] /\ lost' \in [Place -> Nat]
  BY DEF JobsCounted, CountUp
<1>5. ASSUME NEW q \in Place
      PROVE  counter'[q] = Cardinality(Outstanding(q)') + lost'[q]
  <2>1. Outstanding(q)' = Outstanding(q)
    BY <1>1 DEF Outstanding, Of, Orphan, Everywhere
  <2>2. counter[q] = Cardinality(Outstanding(q)) + lost[q]
        /\ counter[q] \in Nat /\ lost[q] \in Nat
    BY DEF JobsCounted, CountersAreExact
  <2>3. Cardinality(Outstanding(q)) \in Nat
    <3>1. IsFiniteSet(Outstanding(q))
      BY OutstandingOf, OfSubset, FS_Subset DEF JobsCounted
    <3> QED
      BY <3>1, FS_CardinalityType
  <2>4. counter'[q] = counter[q] + (IF q = p THEN 1 ELSE 0)
        /\ lost'[q] = lost[q] + (IF q = p THEN 1 ELSE 0)
    BY DEF CountUp, JobsCounted
  <2> QED
    BY <2>1, <2>2, <2>3, <2>4
<1> QED
  BY <1>2, <1>3, <1>4, <1>5 DEF JobsCounted, CountersAreExact

\* An action ends.
LEMMA OneLess ==
    ASSUME JobsCounted, CutInv, NEW job, ByOneLess(job), Use(job), CountDown(job),
           UNCHANGED <<net, entered, history>>,
           call' \in {call, "none"}
    PROVE  PoolsApart' /\ JobsCounted' /\ CutInv'
<1>1. JobsCounted'
  BY CountedDown DEF ByOneLess, history
<1>2. CutInv'
  BY DEF CutInv, UndefinedOnlyIfCutShort, Orphan, ByOneLess, Use, history
<1> QED
  BY <1>1, <1>2 DEF ByOneLess

LEMMA OneThrown ==
    ASSUME JobsCounted, CutInv, NEW job, ByOneLess(job), NeverCountDown(job),
           UNCHANGED <<net, counter, entered, cutShort, undefined>>, call' = "none"
    PROVE  PoolsApart' /\ JobsCounted' /\ CutInv'
<1>1. JobsCounted'
  BY CountedThrown DEF ByOneLess
<1>2. CutInv'
  BY DEF CutInv, UndefinedOnlyIfCutShort, Orphan, ByOneLess
<1> QED
  BY <1>1, <1>2 DEF ByOneLess

LEMMA EnteredCounted ==
    ASSUME EngineInv, Entering
    PROVE  PoolsApart' /\ JobsCounted' /\ CutInv'
<1>1. QueueTypes /\ PoolsApart /\ JobsCounted /\ CutInv /\ entered \in Nat
  BY DEF EngineInv, SequenceInv, QueueTypes
<1>2. ASSUME NEW p \in Place, LoopEnters(p)
      PROVE  PoolsApart' /\ JobsCounted' /\ CutInv'
  <2>1. /\ call \notin {"destroy", "destroyed"} /\ call' = call /\ inLoop = {}
        /\ entered' = entered + 1
        /\ UNCHANGED <<net, working, retiring, inCall, cutShort, undefined>>
    BY <1>2 DEF LoopEnters, MayEnter, calls, EngineInv, SequenceInv, OneWorker
  <2>2. CASE RunInline(p, inLoop)
    <3>1. ByOneMore(p)
      BY <1>1, <2>1, <2>2, StaysInLoop
    <3>2. CountUp(p) /\ lost' = lost
      BY <2>2 DEF RunInline
    <3> QED
      BY <1>1, <2>1, <3>1, <3>2, OneMore
  <2>3. CASE (Enqueue(p) \/ Detach(p)) /\ UNCHANGED inLoop
    <3>1. ByOneMore(p)
      BY <1>1, <2>1, <2>3, GoesToQueue, GoesToThread
    <3>2. CountUp(p) /\ lost' = lost
      BY <2>3 DEF Enqueue, Detach
    <3> QED
      BY <1>1, <2>1, <3>1, <3>2, OneMore
  <2> QED
    BY <1>2, <2>2, <2>3 DEF LoopEnters
<1>3. ASSUME NEW p \in Place, CallerEnters(p) \/ \E job \in Threads : ActionCalls(job, p)
      PROVE  PoolsApart' /\ JobsCounted' /\ CutInv'
  <2>1. /\ call = "none"
        /\ entered' = entered + 1
        /\ UNCHANGED <<net, working, retiring, inLoop, cutShort, undefined>>
    BY <1>3 DEF CallerEnters, ActionCalls, MayEnter
  <2>2. CASE RunInline(p, inCall) /\ call' = "increment"
    <3>1. ByOneMore(p)
      BY <1>1, <2>1, <2>2, StaysInCall
    <3>2. CountUp(p) /\ lost' = lost
      BY <2>2 DEF RunInline
    <3> QED
      BY <1>1, <2>1, <2>2, <3>1, <3>2, OneMore
  <2>3. CASE (Enqueue(p) \/ Detach(p)) /\ UNCHANGED <<inCall, call>>
    <3>1. ByOneMore(p)
      BY <1>1, <2>1, <2>3, GoesToQueue, GoesToThread
    <3>2. CountUp(p) /\ lost' = lost
      BY <2>3 DEF Enqueue, Detach
    <3> QED
      BY <1>1, <2>1, <2>3, <3>1, <3>2, OneMore
  <2>4. CASE DetachFails(p) /\ UNCHANGED <<inCall, call>>
    <3>1. /\ CountUp(p) /\ lost' = [lost EXCEPT ![p] = @ + 1]
          /\ UNCHANGED jobs
      BY <2>1, <2>4 DEF DetachFails, jobs
    <3> QED
      BY <1>1, <2>1, <2>4, <3>1, NoneMore
  <2> QED
    BY <1>3, <2>2, <2>3, <2>4 DEF CallerEnters, ActionCalls
<1> QED
  BY <1>2, <1>3 DEF Entering

LEMMA ActedCounted ==
    ASSUME EngineInv, Acting
    PROVE  PoolsApart' /\ JobsCounted' /\ CutInv'
<1>1. SequenceInv /\ QueueTypes /\ InOrder /\ PoolsApart /\ JobsCounted /\ CutInv
  BY DEF EngineInv, SequenceInv
<1>2. CASE TakeJob
  <2>1. /\ Head(queue) \in ToSet(queue) /\ ToSet(queue') = ToSet(queue) \ {Head(queue)}
        /\ working = {} /\ working' = {Head(queue)}
        /\ UNCHANGED <<retiring, detached, inLoop, inCall, call>>
        /\ UNCHANGED <<net, counter, entered, lost, cutShort>>
        /\ undefined' = Orphan(Head(queue))
    BY <1>1, <1>2, QueueShrinks DEF TakeJob, calls, history, Use
  <2>2. Everywhere' = Everywhere /\ PoolsApart'
    BY <1>1, <2>1 DEF Everywhere, UnderWay, Threads, PoolsApart
  <2>3. JobsCounted'
    BY <1>1, <2>1, <2>2
       DEF JobsCounted, CountersAreExact, Outstanding, Of, Orphan, Everywhere
  <2>4. CutInv'
    BY <1>1, <2>1, <2>2 DEF CutInv, UndefinedOnlyIfCutShort, Orphan, Everywhere
  <2> QED
    BY <2>2, <2>3, <2>4
<1>3. CASE FinishWorking
  <2>1. PICK job \in working :
           /\ working' = {} /\ Use(job) /\ CountDown(job) /\ call' = call
           /\ UNCHANGED <<queue, retiring, detached, inLoop, inCall>>
           /\ UNCHANGED <<net, entered, history>>
    BY <1>3 DEF FinishWorking, calls
  <2>2. ByOneLess(job)
    BY <1>1, <2>1, LeavesQueue
  <2> QED
    BY <1>1, <2>1, <2>2, OneLess
<1>4. CASE FinishRetiring
  <2>1. PICK job \in retiring :
           /\ retiring' = {} /\ Use(job) /\ CountDown(job) /\ call' = call
           /\ UNCHANGED <<queue, working, detached, inLoop, inCall>>
           /\ UNCHANGED <<net, entered, history>>
    BY <1>4 DEF FinishRetiring, calls
  <2>2. ByOneLess(job)
    BY <1>1, <2>1, LeavesOldQueue
  <2> QED
    BY <1>1, <2>1, <2>2, OneLess
<1>5. ASSUME NEW job \in detached, FinishDetached(job)
      PROVE  PoolsApart' /\ JobsCounted' /\ CutInv'
  <2>1. /\ detached' = detached \ {job} /\ Use(job) /\ CountDown(job) /\ call' = call
        /\ UNCHANGED <<queue, working, retiring, inLoop, inCall>>
        /\ UNCHANGED <<net, entered, history>>
    BY <1>5 DEF FinishDetached, calls
  <2>2. ByOneLess(job)
    BY <1>1, <2>1, LeavesThread
  <2> QED
    BY <1>1, <2>1, <2>2, OneLess
<1>6. CASE FinishInLoop
  <2>1. PICK job \in inLoop :
           /\ inLoop' = {} /\ Use(job) /\ CountDown(job) /\ call' = call
           /\ UNCHANGED <<queue, working, retiring, detached, inCall>>
           /\ UNCHANGED <<net, entered, history>>
    BY <1>6 DEF FinishInLoop, calls
  <2>2. ByOneLess(job)
    BY <1>1, <2>1, LeavesLoop
  <2> QED
    BY <1>1, <2>1, <2>2, OneLess
<1>7. CASE FinishInCall
  <2>1. PICK job \in inCall :
           /\ inCall' = {} /\ Use(job) /\ CountDown(job) /\ call' = "none"
           /\ UNCHANGED <<queue, working, retiring, detached, inLoop>>
           /\ UNCHANGED <<net, entered, history>>
    BY <1>7 DEF FinishInCall
  <2>2. ByOneLess(job)
    BY <1>1, <2>1, LeavesCall
  <2> QED
    BY <1>1, <2>1, <2>2, OneLess
<1>8. CASE ThrowInCall
  <2>1. PICK job \in inCall :
           /\ inCall' = {} /\ NeverCountDown(job) /\ call' = "none"
           /\ UNCHANGED <<queue, working, retiring, detached, inLoop>>
           /\ UNCHANGED <<net, counter, entered, cutShort, undefined>>
    BY <1>8 DEF ThrowInCall
  <2>2. ByOneLess(job)
    BY <1>1, <2>1, LeavesCall
  <2> QED
    BY <1>1, <2>1, <2>2, OneThrown
<1>9. CASE ThrowInExecute
  <2>1. PICK job \in inLoop :
           /\ inLoop' = {} /\ NeverCountDown(job) /\ call = "execute" /\ call' = "none"
           /\ UNCHANGED <<queue, working, retiring, detached, inCall>>
           /\ UNCHANGED <<net, counter, entered, cutShort, undefined>>
    BY <1>9 DEF ThrowInExecute
  <2>2. ByOneLess(job)
    BY <1>1, <2>1, LeavesLoop
  <2> QED
    BY <1>1, <2>1, <2>2, OneThrown
<1>10. ASSUME NEW job \in Threads, ActionDoesNotCall(job)
      PROVE  PoolsApart' /\ JobsCounted' /\ CutInv'
  <2>1. UNCHANGED <<net, counter, jobs, entered, history, undefined>> /\ call' = call
    BY <1>10 DEF ActionDoesNotCall, calls
  <2> QED
    BY <1>1, <2>1, Idle
<1>11. ASSUME NEW job \in Threads, ActionCallsTooLate(job)
      PROVE  PoolsApart' /\ JobsCounted' /\ CutInv'
  <2>1. /\ UNCHANGED <<net, counter, jobs, entered, history, call>>
        /\ undefined' = TRUE /\ call \in {"destroy", "destroyed"}
    BY <1>11 DEF ActionCallsTooLate, calls
  <2>2. UNCHANGED <<Everywhere, UnderWay>> /\ job \in Everywhere
    BY <2>1 DEF Everywhere, UnderWay, Threads, jobs
  <2>3. PoolsApart' /\ JobsCounted'
    BY <1>1, <2>1, <2>2
       DEF PoolsApart, jobs, JobsCounted, CountersAreExact, Outstanding, Of, Orphan, Everywhere,
           history
  <2>4. CutInv'
    BY <1>1, <2>1, <2>2 DEF CutInv, UndefinedOnlyIfCutShort, Orphan, history
  <2> QED
    BY <2>3, <2>4
<1> QED
  BY <1>2, <1>3, <1>4, <1>5, <1>6, <1>7, <1>8, <1>9, <1>10, <1>11 DEF Acting

\* The places go, with what is outstanding.
LEMMA PlacesGo ==
    ASSUME EngineInv, RemovePlaces, UNCHANGED <<jobs, entered, undefined>>,
           call = "none", call' \in {"none", "destroy"}
    PROVE  PoolsApart' /\ JobsCounted' /\ CutInv'
<1>1. UNCHANGED <<Everywhere, UnderWay>>
  BY DEF Everywhere, UnderWay, Threads, jobs
<1>2. JobsCounted' /\ \A job \in Everywhere' : Orphan(job)'
  BY CountedAnew DEF EngineInv, SequenceInv
<1>3. PoolsApart'
  BY <1>1 DEF EngineInv, PoolsApart, jobs
<1>4. /\ cutShort' \in BOOLEAN
      /\ cutShort => cutShort'
      /\ \A q \in Place : counter[q] > 0 => cutShort'
  BY DEF RemovePlaces, EngineInv, CutInv
<1>5. ASSUME NEW job \in Everywhere, ~Orphan(job)
      PROVE  cutShort'
  <2>1. job.place \in Place /\ job \in Of(job.place, Everywhere)
    BY <1>5 DEF Of, EngineInv, JobsCounted, Job
  <2>2. /\ IsFiniteSet(Of(job.place, Everywhere))
        /\ Cardinality(Of(job.place, Everywhere)) \in Nat
    BY OfSubset, FS_Subset, FS_CardinalityType DEF EngineInv, JobsCounted
  <2>3. Cardinality(Of(job.place, Everywhere)) # 0
    BY <2>1, <2>2, FS_EmptySet
  <2>4. counter[job.place] = Cardinality(Of(job.place, Everywhere)) + lost[job.place]
        /\ lost[job.place] \in Nat
    BY <2>1, OutstandingOf DEF EngineInv, JobsCounted, CountersAreExact
  <2> QED
    BY <1>4, <2>1, <2>2, <2>3, <2>4
<1>6. \A job \in Everywhere : cutShort'
  <2> SUFFICES ASSUME NEW job \in Everywhere
               PROVE  cutShort'
    OBVIOUS
  <2>1. CASE Orphan(job)
    <3>1. cutShort
      BY <2>1 DEF EngineInv, CutInv
    <3> QED
      BY <1>4, <3>1
  <2> QED
    BY <1>5, <2>1
<1>7. undefined => cutShort'
  <2>1. undefined => cutShort
    BY DEF EngineInv, CutInv, UndefinedOnlyIfCutShort
  <2> QED
    BY <1>4, <2>1
<1>8. cutShort' \in BOOLEAN /\ undefined' \in BOOLEAN /\ UndefinedOnlyIfCutShort'
  BY <1>4, <1>7 DEF EngineInv, CutInv, UndefinedOnlyIfCutShort
<1>9. CutInv'
  BY <1>1, <1>2, <1>6, <1>8 DEF CutInv
<1> QED
  BY <1>2, <1>3, <1>9

\* The executor goes, with the jobs that wait.
LEMMA ExecutorGoes ==
    ASSUME EngineInv, DestroyExecutor, call # "increment", call' # "increment",
           call' \in {"destroy", "destroyed"} => call \in {"destroy", "destroyed"},
           UNCHANGED <<net, counter, detached, inLoop, inCall, entered, cutShort, undefined>>
    PROVE  PoolsApart' /\ JobsCounted' /\ CutInv'
<1>1. /\ Everywhere' = UnderWay /\ UnderWay' = UnderWay
      /\ ToSet(queue') = {} /\ working' = {} /\ retiring' = retiring \cup working
  <2>1. queue' = <<>> /\ working' = {} /\ retiring' = retiring \cup working
    BY DEF DestroyExecutor
  <2>2. ToSet(queue') = {}
    <3>1. ToSet(<<>>) = {}
      BY DEF ToSet
    <3> QED
      BY <2>1, <3>1
  <2> QED
    BY <2>1, <2>2 DEF Everywhere, UnderWay, Threads
<1>2. PoolsApart'
  BY <1>1 DEF EngineInv, PoolsApart
<1>3. JobsCounted'
  BY <1>1, CountedLost DEF EngineInv, DestroyExecutor
<1>4. CutInv'
  BY <1>1 DEF EngineInv, CutInv, UndefinedOnlyIfCutShort, Orphan, Everywhere
<1> QED
  BY <1>2, <1>3, <1>4

LEMMA ManagedCounted ==
    ASSUME EngineInv, Managing
    PROVE  PoolsApart' /\ JobsCounted' /\ CutInv'
<1>1. PoolsApart /\ JobsCounted /\ CutInv
  BY DEF EngineInv
<1>2. ASSUME \/ Execute \/ ExecuteHere \/ ExecuteReturns \/ Stop \/ Installed
             \/ \E p \in Place : CreatePlace(p)
      PROVE  PoolsApart' /\ JobsCounted' /\ CutInv'
  <2>1. /\ UNCHANGED <<net, counter, jobs, entered, history, undefined>>
        /\ call # "increment" /\ call' \in {call, "none", "execute"}
    BY <1>2 DEF Execute, ExecuteHere, ExecuteReturns, Stop, Installed, CreatePlace, calls
  <2> QED
    BY <1>1, <2>1, Idle
<1>3. ASSUME NEW o \in Option, SetActionsThreadOption(o)
      PROVE  PoolsApart' /\ JobsCounted' /\ CutInv'
  BY <1>3, ExecutorGoes DEF SetActionsThreadOption
<1>4. CASE ClearNet \/ DestroyPlaces
  BY <1>4, PlacesGo DEF ClearNet, DestroyPlaces, calls
<1>5. CASE DestroyEngine
  BY <1>5, ExecutorGoes DEF DestroyEngine
<1> QED
  BY <1>2, <1>3, <1>4, <1>5 DEF Managing

LEMMA Counted == Spec => []EngineInv
<1>1. Init => EngineInv
  <2> SUFFICES ASSUME Init
               PROVE  EngineInv
    OBVIOUS
  <2>1. SequenceInv
    BY EngineModesAssumption
       DEF Init, SequenceInv, QueueTypes, InOrder, OneWorker, QueueFollowsOption
  <2>2. ToSet(<<>>) = {}
    BY DEF ToSet
  <2>3. Everywhere = {} /\ PoolsApart
    BY <2>2 DEF Init, Everywhere, UnderWay, Threads, PoolsApart
  <2>4. \A p : Cardinality(Outstanding(p)) = 0
    <3>1. \A p : Outstanding(p) = {}
      BY <2>3 DEF Outstanding, Of, Everywhere
    <3> QED
      BY <3>1, FS_EmptySet
  <2>5. JobsCounted
    BY <2>3, <2>4, FS_EmptySet DEF Init, JobsCounted, CountersAreExact
  <2>6. CutInv
    BY <2>3 DEF Init, CutInv, UndefinedOnlyIfCutShort
  <2> QED
    BY <2>1, <2>3, <2>5, <2>6 DEF EngineInv
<1>2. EngineInv /\ [Next]_vars => EngineInv'
  <2> SUFFICES ASSUME EngineInv, [Next]_vars
               PROVE  EngineInv'
    OBVIOUS
  <2>1. SequenceInv'
    BY Untouched, Entered, Acted, Managed DEF EngineInv, Next, vars, jobs, calls, queueVars
  <2>2. CASE UNCHANGED vars
    <3>1. UNCHANGED <<net, counter, jobs, entered, history, undefined>> /\ call' = call
      BY <2>2 DEF vars, calls
    <3> QED
      BY <2>1, <3>1, Idle DEF EngineInv
  <2>3. CASE Next
    BY <2>1, <2>3, EnteredCounted, ActedCounted, ManagedCounted DEF EngineInv, Next
  <2> QED
    BY <2>2, <2>3
<1> QED
  BY <1>1, <1>2, PTL DEF Spec

(***************************************************************************)
(* A place's counter is the number of its actions that wait or run plus    *)
(* those that nobody will count down any more, whatever options are set    *)
(* meanwhile and however the actions end.                                  *)
(***************************************************************************)
THEOREM CountersStayExact == Spec => []CountersAreExact
<1>1. EngineInv => CountersAreExact
  BY DEF EngineInv, JobsCounted
<1> QED
  BY <1>1, Counted, PTL

(***************************************************************************)
(* No action outlives its place when the net is cleared, or the engine     *)
(* destroyed, while the counters are down.                                 *)
(***************************************************************************)
THEOREM OnlyCutShortIsUndefined == Spec => []UndefinedOnlyIfCutShort
<1>1. EngineInv => UndefinedOnlyIfCutShort
  BY DEF EngineInv, CutInv
<1> QED
  BY <1>1, Counted, PTL

-----------------------------------------------------------------------------
\* The types of the variables that the counters do not depend on.
RestTyped ==
    /\ option \in Option /\ target \in Option
    /\ running \in BOOLEAN
    /\ places \subseteq Place
    /\ call \in Call
    /\ called \subseteq Nat

(***************************************************************************)
(* Type correctness.                                                       *)
(***************************************************************************)
THEOREM TypesAreKept == Spec => []TypeOK
<1>1. Init => RestTyped
  BY EngineModesAssumption DEF Init, RestTyped, Call
<1>2. EngineInv /\ RestTyped /\ [Next]_vars => RestTyped'
  <2> SUFFICES ASSUME EngineInv, RestTyped, [Next]_vars
               PROVE  RestTyped'
    OBVIOUS
  <2> USE DEF RestTyped, Call
  <2>1. \A job \in Threads : job.number \in Nat
    BY DEF EngineInv, JobsCounted, Everywhere, UnderWay, Job
  <2>2. CASE UNCHANGED vars
    BY <2>2 DEF vars, calls
  <2>3. CASE Entering
    <3>1. \A p \in Place : LoopEnters(p) => RestTyped'
      BY DEF LoopEnters, MayEnter, calls
    <3>2. \A p \in Place : CallerEnters(p) => RestTyped'
      BY DEF CallerEnters, MayEnter
    <3>3. \A p \in Place, job \in Threads : ActionCalls(job, p) => RestTyped'
      BY <2>1 DEF ActionCalls, MayEnter
    <3> QED
      BY <2>3, <3>1, <3>2, <3>3 DEF Entering
  <2>4. CASE Acting
    <3>1. TakeJob \/ FinishWorking \/ FinishRetiring \/ FinishInLoop \/ FinishInCall => RestTyped'
      BY DEF TakeJob, FinishWorking, FinishRetiring, FinishInLoop, FinishInCall, calls
    <3>2. ThrowInCall \/ ThrowInExecute => RestTyped'
      BY DEF ThrowInCall, ThrowInExecute
    <3>3. \A job \in detached : FinishDetached(job) => RestTyped'
      BY DEF FinishDetached, calls
    <3>4. \A job \in Threads : ActionDoesNotCall(job) \/ ActionCallsTooLate(job) => RestTyped'
      BY <2>1 DEF ActionDoesNotCall, ActionCallsTooLate, calls
    <3> QED
      BY <2>4, <3>1, <3>2, <3>3, <3>4 DEF Acting
  <2>5. CASE Managing
    <3>1. Execute \/ Stop \/ Installed \/ ClearNet \/ DestroyPlaces \/ DestroyEngine => RestTyped'
      BY DEF Execute, Stop, Installed, ClearNet, DestroyPlaces, DestroyEngine, RemovePlaces, calls
    <3>2. ExecuteHere \/ ExecuteReturns => RestTyped'
      BY DEF ExecuteHere, ExecuteReturns
    <3>3. \A o \in Option : SetActionsThreadOption(o) => RestTyped'
      BY DEF SetActionsThreadOption
    <3>4. \A p \in Place : CreatePlace(p) => RestTyped'
      BY DEF CreatePlace, calls
    <3> QED
      BY <2>5, <3>1, <3>2, <3>3, <3>4 DEF Managing
  <2> QED
    BY <2>2, <2>3, <2>4, <2>5 DEF Next
<1>3. EngineInv /\ RestTyped => TypeOK
  BY DEF EngineInv, SequenceInv, QueueTypes, JobsCounted, Everywhere, UnderWay, Threads, CutInv,
         RestTyped, TypeOK
<1> QED
  BY <1>1, <1>2, <1>3, Counted, PTL DEF Spec
=============================================================================
