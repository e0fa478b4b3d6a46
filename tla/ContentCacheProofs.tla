------------------------- MODULE ContentCacheProofs -------------------------
(***************************************************************************)
(* Proofs about ContentCache, for any number of clients, workers, topics   *)
(* and commits and for any workload.                                       *)
(***************************************************************************)
EXTENDS ContentCache, TLAPS

\* The steps at which a request holds the document it adopts or builds.
DocSteps == {"adopt", "tail", "built", "set_cached", "store", "publish"}

\* TypeOK, strengthened by what ReadTail, the fills and the answers need: a
\* request at one of these steps has a document.
TypeInv ==
  /\ TypeOK
  /\ \A c \in Clients : pc[c] \in DocSteps => doc[c] \in Doc

-----------------------------------------------------------------------------
(* Lemmas about the operators the actions are built from.                  *)

\* The latest content is one of the committed contents.
LEMMA LatestType ==
  ASSUME commits \in Seq(Content), Len(commits) > 0
  PROVE  Latest \in Content
BY DEF Latest

\* A session without pending writes is well typed.
LEMMA NothingPending ==
  /\ IsPartial(NoDraft, Topics, TopicState)
  /\ IsPartial(NoRows, Keys, Doc \cup {None})
BY DEF IsPartial, NoDraft, NoRows

\* What a write makes of a topic's state is a topic state.
LEMMA ResultsType ==
  ASSUME NEW op, NEW s \in TopicState
  PROVE  Results(op, s) \subseteq TopicState
<1>1. Created(s) \subseteq TopicState
  BY DEF Created, TopicState, Phases
<1>2. Updated(s) \subseteq TopicState
  BY DEF Updated, TopicState, Phases
<1>3. Archived(s) \subseteq TopicState
  BY DEF Archived, TopicState, Phases
<1> QED BY <1>1, <1>2, <1>3 DEF Results

\* Rolling back keeps the pending writes of every session well typed.
LEMMA RollbackType ==
  ASSUME TypeOK, NEW c \in Clients, Rollback(c)
  PROVE  /\ DOMAIN draft' = Clients
         /\ \A o \in Clients : IsPartial(draft'[o], Topics, TopicState)
         /\ DOMAIN rows' = Clients
         /\ \A o \in Clients : IsPartial(rows'[o], Keys, Doc \cup {None})
BY NothingPending DEF TypeOK, Rollback

\* Adding a row to a transaction keeps the pending rows well typed.
LEMMA PutRowType ==
  ASSUME TypeOK, NEW c \in Clients, NEW k \in Keys, NEW d \in Doc \cup {None},
         PutRow(c, k, d)
  PROVE  /\ DOMAIN rows' = Clients
         /\ \A o \in Clients : IsPartial(rows'[o], Keys, Doc \cup {None})
BY DEF TypeOK, PutRow, IsPartial

\* After a statement on app_cache a request is at one of its program points,
\* with the document it had there.
LEMMA AfterType ==
  ASSUME NEW c \in Clients
  PROVE  /\ After(c) \in Steps \ {"idle"}
         /\ After(c) \in DocSteps => pc[c] = "set_cached"
         /\ After(c) = "raise" => job[c].op = "rebuild_topics"
BY DEF After, Steps, DocSteps

\* A commit appends at most one content, whose topics are the drafted ones or
\* those of the content before.
LEMMA CommitSessionType ==
  ASSUME TypeOK, NEW c \in Clients, CommitSession(c)
  PROVE  /\ commits' \in Seq(Content) /\ Len(commits') >= Len(commits)
         /\ \A i \in 1..Len(commits) : commits'[i] = commits[i]
         /\ app_cache' \in [Keys -> Doc \cup {None}]
         /\ todo' \in [Clients -> SUBSET Keys]
<1>1. Drafted(c) \in Content
  BY LatestType DEF TypeOK, Drafted, Content, IsPartial
<1>2. commits' = commits \/ commits' = Append(commits, Drafted(c))
  BY DEF CommitSession
<1>3. app_cache' \in [Keys -> Doc \cup {None}]
  BY DEF CommitSession, TypeOK, IsPartial
<1>t. todo' \in [Clients -> SUBSET Keys]
  BY DEF CommitSession, TypeOK
<1>4. CASE commits' = commits
  BY <1>3, <1>4, <1>t DEF TypeOK
<1>5. CASE commits' = Append(commits, Drafted(c))
  <2>1. commits' \in Seq(Content)
    BY <1>1, <1>5 DEF TypeOK
  <2>2. Len(commits') = Len(commits) + 1
    BY <1>1, <1>5 DEF TypeOK
  <2>3. \A i \in 1..Len(commits) : commits'[i] = commits[i]
    BY <1>1, <1>5 DEF TypeOK
  <2> QED BY <2>1, <2>2, <2>3, <1>3, <1>t DEF TypeOK
<1> QED BY <1>2, <1>4, <1>5

\* Answering a request keeps the types.
LEMMA CloseType ==
  ASSUME TypeInv, NEW c \in Clients, NEW answer \in Answers, NEW d \in Doc \cup {None},
         Close(c, answer, d), UNCHANGED migrated, todo' \in [Clients -> SUBSET Keys],
         commits' \in Seq(Content), Len(commits') >= Len(commits),
         app_cache' \in [Keys -> Doc \cup {None}],
         memory' \in [Workers -> [Keys -> Doc \cup {None}]]
  PROVE  TypeInv'
<1> USE DEF TypeInv, TypeOK
<1>1. /\ pc' \in [Clients -> Steps]
      /\ doc' \in [Clients -> Doc \cup {None}]
      /\ status' \in [Clients -> Answers]
  BY DEF Close, Goto, Steps
<1>2. /\ DOMAIN draft' = Clients
      /\ \A o \in Clients : IsPartial(draft'[o], Topics, TopicState)
      /\ DOMAIN rows' = Clients
      /\ \A o \in Clients : IsPartial(rows'[o], Keys, Doc \cup {None})
  BY RollbackType DEF Close
<1>3. DOMAIN job' = Clients /\ \A o \in Clients : IsJob(job[o])'
  BY DEF Close, IsJob
<1>4. \A o \in Clients : pc'[o] \in DocSteps => doc'[o] \in Doc
  BY DEF Close, Goto, DocSteps
<1> QED BY <1>1, <1>2, <1>3, <1>4 DEF IsPartial

\* A request built from well-typed parts is a job.
LEMMA RequestType ==
  ASSUME TypeOK, NEW op \in Reads \cup Writes \cup Admin, NEW w \in Workers,
         NEW k \in Keys, NEW copy \in Doc \cup {None}
  PROVE  IsJob(Request(op, w, k, copy))
<1>1. Len(commits) \in Nat /\ Len(commits) > 0
  BY DEF TypeOK
<1> QED BY <1>1, NothingPending DEF IsJob, Request

\* A job stays one when its key, its change or its mark is replaced.
LEMMA JobUpdate ==
  ASSUME NEW j, IsJob(j)
  PROVE  /\ \A k \in Keys : IsJob([j EXCEPT !.key = k])
         /\ \A change : IsPartial(change, Topics, TopicState)
                           => IsJob([j EXCEPT !.change = change])
         /\ \A b \in BOOLEAN : IsJob([j EXCEPT !.swallowed = b])
BY DEF IsJob

\* What a client holds is a document or nothing.
LEMMA HeldType ==
  ASSUME TypeOK, NEW c \in Clients, NEW k
  PROVE  Held(c, k) \in Doc \cup {None}
BY DEF Held, TypeOK, IsJob

\* Beginning a request keeps the types.
LEMMA BeginType ==
  ASSUME TypeInv, NEW c \in Clients, NEW j, IsJob(j), NEW step \in Steps \ DocSteps,
         Begin(c, j, step)
  PROVE  TypeInv'
BY DEF TypeInv, TypeOK, Begin, Goto, IsJob, database, pending, Answers

\* A request that looks in the memory cache first keeps the types.
LEMMA FetchType ==
  ASSUME TypeInv, NEW c \in Clients, NEW j, IsJob(j), NEW step \in Steps \ DocSteps,
         Fetch(c, j, step)
  PROVE  TypeInv'
<1>1. CASE MemoryHit(c, j)
  <2>1. /\ doc' \in [Clients -> Doc \cup {None}]
        /\ status' \in [Clients -> Answers]
        /\ DOMAIN job' = Clients /\ \A o \in Clients : IsJob(job'[o])
    BY <1>1 DEF TypeInv, TypeOK, MemoryHit, IsJob, Answers
  <2>2. UNCHANGED <<commits, app_cache, migrated, memory, pc, todo, draft, rows>>
    BY <1>1 DEF MemoryHit, database, pending
  <2>3. \A o \in Clients : pc'[o] \in DocSteps => doc'[o] \in Doc
    BY <1>1, <2>2 DEF TypeInv, TypeOK, MemoryHit, DocSteps
  <2> QED BY <2>1, <2>2, <2>3 DEF TypeInv, TypeOK, IsPartial, IsJob
<1>2. CASE Begin(c, j, step)
  BY <1>2, BeginType
<1> QED BY <1>1, <1>2 DEF Fetch

-----------------------------------------------------------------------------
(* Type correctness.                                                       *)

\* The initial states are well typed.
LEMMA TypeInit == Init => TypeInv
<1> SUFFICES ASSUME Init PROVE TypeInv
  OBVIOUS
<1>1. PICK start \in Content : commits = <<start>>
  BY DEF Init, Content, TopicState, Phases
<1>2. commits \in Seq(Content) /\ Len(commits) = 1
  BY <1>1
<1>3. (CHOOSE w \in Workers : TRUE) \in Workers
  BY KeysAssumption
<1>4. \A c \in Clients : IsJob(job[c])
  <2>1. ASSUME NEW c \in Clients, NEW w \in Workers
        PROVE  IsJob([op |-> "bootstrap", worker |-> w, key |-> Bootstrap,
                      copy |-> None, since |-> 1, change |-> NoDraft,
                      swallowed |-> FALSE])
    BY <1>2, NothingPending DEF IsJob, Reads, Keys
  <2>2. job = [c \in Clients |->
                [op |-> "bootstrap", worker |-> CHOOSE w \in Workers : TRUE,
                 key |-> Bootstrap, copy |-> None, since |-> 1, change |-> NoDraft,
                 swallowed |-> FALSE]]
    BY DEF Init
  <2> QED BY <2>1, <2>2, <1>3
<1> QED BY <1>2, <1>4, NothingPending, BoundsAssumption
      DEF Init, TypeInv, TypeOK, Steps, DocSteps, Answers

\* Starting a request keeps the types.
LEMMA StartType ==
  ASSUME TypeInv, NEW c \in Clients, Start(c)
  PROVE  TypeInv'
<1> USE DEF TypeInv
<1>1. CASE GetTopic(c)
  <2>1. PICK w \in Workers, t \in Topics : \E copy \in {None, Held(c, t)} :
          Fetch(c, Request("get_topic", w, t, copy), "get_cached")
    BY <1>1 DEF GetTopic
  <2>2. PICK copy \in {None, Held(c, t)} :
          Fetch(c, Request("get_topic", w, t, copy), "get_cached")
    BY <2>1
  <2>3. IsJob(Request("get_topic", w, t, copy))
    BY RequestType, HeldType DEF Reads, Keys
  <2> QED BY <2>2, <2>3, FetchType DEF Steps, DocSteps
<1>2. CASE TopicTree(c)
  <2>1. PICK w \in Workers : Fetch(c, Request("topic_tree", w, Tree, None), "head")
    BY <1>2 DEF TopicTree
  <2>2. IsJob(Request("topic_tree", w, Tree, None))
    BY RequestType DEF Reads, Keys
  <2> QED BY <2>1, <2>2, FetchType DEF Steps, DocSteps
<1>3. CASE GetBootstrap(c)
  <2>1. PICK w \in Workers, copy \in {None, Held(c, Bootstrap)} :
          \/ Fetch(c, Request("bootstrap", w, Bootstrap, copy), "get_cached")
          \/ Begin(c, Request("refresh_bootstrap", w, Bootstrap, copy), "head")
    BY <1>3 DEF GetBootstrap
  <2>2. /\ IsJob(Request("bootstrap", w, Bootstrap, copy))
        /\ IsJob(Request("refresh_bootstrap", w, Bootstrap, copy))
    BY RequestType, HeldType DEF Reads, Keys
  <2> QED BY <2>1, <2>2, FetchType, BeginType DEF Steps, DocSteps
<1>4. CASE WriteTopics(c)
  <2>1. PICK w \in Workers, op \in Writes : Begin(c, Request(op, w, Bootstrap, None), "write")
    BY <1>4 DEF WriteTopics
  <2>2. IsJob(Request(op, w, Bootstrap, None))
    BY RequestType DEF Keys
  <2> QED BY <2>1, <2>2, BeginType DEF Steps, DocSteps
<1>5. CASE RebuildBootstrap(c) \/ RebuildTopics(c) \/ ClearBootstrap(c)
  <2>1. PICK w \in Workers, op \in Admin, step \in Steps \ DocSteps :
          Begin(c, Request(op, w, Bootstrap, None), step)
    BY <1>5 DEF RebuildBootstrap, RebuildTopics, ClearBootstrap, Admin, Steps, DocSteps
  <2>2. IsJob(Request(op, w, Bootstrap, None))
    BY RequestType DEF Keys
  <2> QED BY <2>1, <2>2, BeginType
<1> QED BY <1>1, <1>2, <1>3, <1>4, <1>5 DEF Start

\* A step that commits nothing, answers nobody and keeps the other sessions'
\* types keeps TypeInv.
LEMMA QuietType ==
  ASSUME TypeInv, NEW c \in Clients, NEW step \in Steps, Goto(c, step),
         UNCHANGED <<database, status>>,
         memory' \in [Workers -> [Keys -> Doc \cup {None}]],
         doc' \in [Clients -> Doc \cup {None}],
         todo' \in [Clients -> SUBSET Keys],
         DOMAIN job' = Clients, \A o \in Clients : IsJob(job'[o]),
         DOMAIN draft' = Clients,
         \A o \in Clients : IsPartial(draft'[o], Topics, TopicState),
         DOMAIN rows' = Clients,
         \A o \in Clients : IsPartial(rows'[o], Keys, Doc \cup {None}),
         \A o \in Clients \ {c} : doc'[o] = doc[o],
         step \in DocSteps => doc'[c] \in Doc
  PROVE  TypeInv'
<1>1. pc' \in [Clients -> Steps] /\ \A o \in Clients \ {c} : pc'[o] = pc[o]
  BY DEF Goto, TypeInv, TypeOK
<1>2. pc'[c] = step
  BY DEF Goto, TypeInv, TypeOK
<1> QED BY <1>1, <1>2 DEF TypeInv, TypeOK, database, IsPartial, IsJob

\* Taking the snapshot of a DELETE keeps the types.
LEMMA InvalidateType ==
  ASSUME TypeInv, NEW c \in Clients, NEW K \in SUBSET Keys,
         NEW deleting \in Steps \ DocSteps, pc[c] # "set_cached", Invalidate(c, K, deleting)
  PROVE  TypeInv'
<1>1. PICK step \in Steps \ DocSteps : Goto(c, step)
  BY AfterType DEF Invalidate
<1>2. todo' \in [Clients -> SUBSET Keys]
  BY DEF Invalidate, TypeInv, TypeOK
<1>3. UNCHANGED <<database, memory, job, doc, pending, status>>
  BY DEF Invalidate
<1> QED BY <1>1, <1>2, <1>3, QuietType DEF TypeInv, TypeOK, pending, IsJob, database

\* Clearing keys of a worker's memory, and remembering a document, keep its
\* type.
LEMMA ForgetType ==
  ASSUME TypeOK, NEW w \in Workers, NEW K, Forget(w, K)
  PROVE  memory' \in [Workers -> [Keys -> Doc \cup {None}]]
<1>1. [k \in Keys |-> IF k \in K THEN None ELSE memory[w][k]] \in [Keys -> Doc \cup {None}]
  BY DEF TypeOK
<1> QED BY <1>1 DEF TypeOK, Forget

\* A worker's memory stays well typed when it remembers a document.
LEMMA RememberType ==
  ASSUME TypeOK, NEW w \in Workers, NEW k \in Keys, NEW d \in Doc \cup {None},
         Remember(w, k, d)
  PROVE  memory' \in [Workers -> [Keys -> Doc \cup {None}]]
<1>1. [memory[w] EXCEPT ![k] = d] \in [Keys -> Doc \cup {None}]
  BY DEF TypeOK
<1>2. memory' = [memory EXCEPT ![w] = [memory[w] EXCEPT ![k] = d]]
  BY DEF Remember
<1> QED BY <1>1, <1>2 DEF TypeOK

\* Answering without a commit keeps the types.
LEMMA AnswerType ==
  ASSUME TypeInv, NEW c \in Clients, NEW answer \in Answers, NEW d \in Doc \cup {None},
         Finish(c, answer, d), UNCHANGED database,
         memory' \in [Workers -> [Keys -> Doc \cup {None}]]
  PROVE  TypeInv'
<1>1. /\ commits' \in Seq(Content) /\ Len(commits') >= Len(commits)
      /\ app_cache' \in [Keys -> Doc \cup {None}] /\ UNCHANGED migrated
      /\ todo' \in [Clients -> SUBSET Keys] /\ Close(c, answer, d)
  BY DEF TypeInv, TypeOK, database, Finish
<1> QED BY <1>1, CloseType

\* So does serving a document from a worker that remembers it.
LEMMA ServeType ==
  ASSUME TypeInv, NEW c \in Clients, NEW d \in Doc \cup {None}, Serve(c, d),
         NEW w \in Workers, NEW k \in Keys, Remember(w, k, d), UNCHANGED database
  PROVE  TypeInv'
<1>1. memory' \in [Workers -> [Keys -> Doc \cup {None}]]
  BY RememberType DEF TypeInv
<1>2. "304" \in Answers /\ "200" \in Answers
  BY DEF Answers
<1> QED BY <1>1, <1>2, AnswerType DEF Serve

\* Every step of a request keeps the types.
LEMMA StepType ==
  ASSUME TypeInv, NEW c \in Clients, Step(c)
  PROVE  TypeInv'
<1> USE DEF TypeInv
<1>t. /\ job[c].worker \in Workers /\ job[c].key \in Keys
      /\ doc[c] \in Doc \cup {None} /\ Len(commits) \in Nat /\ Now \in Doc
  BY DEF TypeOK, IsJob, Now, Doc
<1>a. {"200", "304", "404", "done", "failed"} \subseteq Answers
  BY DEF Answers
<1>k. Tree \in Keys /\ Bootstrap \in Keys
  BY DEF Keys
<1>m. memory \in [Workers -> [Keys -> Doc \cup {None}]]
  BY DEF TypeOK
<1>1. CASE GetCached(c)
  <2>1. PICK row \in Doc \cup {None} :
          /\ doc' = [doc EXCEPT ![c] = row]
          /\ Goto(c, IF row = None THEN "head" ELSE "adopt")
    BY <1>1, <1>t DEF GetCached, After, TypeOK
  <2>2. UNCHANGED <<database, memory, job, todo, pending, status>>
    BY <1>1 DEF GetCached
  <2> QED BY <2>1, <2>2, QuietType DEF TypeOK, Steps, DocSteps, pending, IsJob, database
<1>2. CASE Adopt(c)
  BY <1>2, <1>t, ServeType DEF Adopt
<1>3. CASE ReadHead(c)
  <2>1. CASE Finish(c, "404", None) /\ UNCHANGED <<database, memory>>
    BY <2>1, <1>a, <1>m, AnswerType
  <2>2. CASE /\ doc' = [doc EXCEPT ![c] = Now] /\ Goto(c, "tail")
             /\ UNCHANGED <<database, memory, job, todo, status, pending>>
    BY <2>2, <1>t, QuietType DEF TypeOK, Steps, pending, IsJob, database
  <2>3. CASE Goto(c, "next") /\ UNCHANGED <<database, memory, request, status, pending>>
    BY <2>3, QuietType DEF TypeOK, Steps, DocSteps, request, pending, IsJob, database
  <2> QED BY <1>3, <2>1, <2>2, <2>3 DEF ReadHead
<1>4. CASE ReadTail(c)
  <2>1. doc' = [doc EXCEPT ![c].tail = Len(commits)] /\ doc[c] \in Doc
    BY <1>4 DEF ReadTail, TypeOK, DocSteps
  <2>2. doc'[c] \in Doc /\ doc' \in [Clients -> Doc \cup {None}]
    BY <2>1, <1>t DEF TypeOK, Doc
  <2>3. /\ Goto(c, IF job[c].op \in {"get_topic", "topic_tree"} THEN "built" ELSE "set_cached")
        /\ UNCHANGED <<database, memory, job, todo, pending, status>>
    BY <1>4 DEF ReadTail
  <2> QED BY <2>1, <2>2, <2>3, QuietType DEF TypeOK, Steps, pending, IsJob, database
<1>5. CASE Built(c)
  <2>1. CASE Finish(c, "304", doc[c]) /\ UNCHANGED <<memory, database>>
    BY <2>1, <1>t, <1>a, <1>m, AnswerType
  <2>2. CASE /\ Remember(job[c].worker, job[c].key, doc[c])
             /\ Goto(c, "set_cached")
             /\ UNCHANGED <<request, pending, status, database>>
             /\ pc[c] = "built"
    BY <2>2, <1>t, RememberType, ForgetType, QuietType
       DEF TypeOK, Steps, DocSteps, request, pending, IsJob, database
  <2>3. CASE /\ Remember(job[c].worker, Tree, doc[c])
             /\ Serve(c, doc[c])
             /\ UNCHANGED database
    BY <2>3, <1>t, <1>k, ServeType
  <2> QED BY <1>5, <2>1, <2>2, <2>3 DEF Built
<1>6. CASE SetCached(c)
  <2>1. /\ DOMAIN rows' = Clients
        /\ \A o \in Clients : IsPartial(rows'[o], Keys, Doc \cup {None})
    BY <1>6, <1>t, PutRowType DEF SetCached
  <2>2. PICK step \in Steps : Goto(c, step) /\ (step \in DocSteps => doc[c] \in Doc)
    BY <1>6, AfterType DEF SetCached, DocSteps
  <2>3. UNCHANGED <<database, memory, request, draft, status>>
    BY <1>6 DEF SetCached
  <2> QED BY <2>1, <2>2, <2>3, QuietType DEF TypeOK, request, IsJob, database
<1>7. CASE Store(c) \/ Commit(c)
  <2>1. CommitSession(c) /\ UNCHANGED <<migrated, memory>>
    BY <1>7 DEF Store, Commit
  <2>2. /\ commits' \in Seq(Content) /\ Len(commits') >= Len(commits)
        /\ app_cache' \in [Keys -> Doc \cup {None}]
        /\ todo' \in [Clients -> SUBSET Keys]
    BY <2>1, CommitSessionType
  <2>3. \/ \E d \in Doc \cup {None} : Close(c, "200", d) \/ Close(c, "done", d)
        \/ UNCHANGED <<job, doc, status>> /\ \E step \in {"drop", "publish", "head"} :
             Goto(c, step) /\ (step = "publish" => pc[c] = "store")
    BY <1>7, <1>t DEF Store, Commit
  <2>4. CASE \E d \in Doc \cup {None} : Close(c, "200", d) \/ Close(c, "done", d)
    BY <2>1, <2>2, <2>4, CloseType DEF TypeOK, Answers
  <2>5. ASSUME NEW step \in {"drop", "publish", "head"}, Goto(c, step),
               step = "publish" => pc[c] = "store", UNCHANGED <<job, doc, status>>
        PROVE  TypeInv'
    <3>1. /\ DOMAIN draft' = Clients
          /\ \A o \in Clients : IsPartial(draft'[o], Topics, TopicState)
          /\ DOMAIN rows' = Clients
          /\ \A o \in Clients : IsPartial(rows'[o], Keys, Doc \cup {None})
      BY <2>1, RollbackType DEF CommitSession
    <3>2. pc' \in [Clients -> Steps]
      BY <2>5 DEF Goto, TypeOK, Steps
    <3>3. \A o \in Clients : pc'[o] \in DocSteps => doc'[o] \in Doc
      BY <2>5 DEF Goto, TypeOK, DocSteps
    <3>4. DOMAIN job' = Clients /\ \A o \in Clients : IsJob(job[o])'
      BY <2>2, <2>5 DEF TypeOK, IsJob
    <3> QED BY <2>1, <2>2, <2>5, <3>1, <3>2, <3>3, <3>4 DEF TypeOK, IsPartial
  <2> QED BY <2>3, <2>4, <2>5
<1>8. CASE Publish(c)
  BY <1>8, <1>t, <1>k, ServeType DEF Publish
<1>9. CASE Write(c)
  <2>1. PICK S \in Targets(job[c].op) :
          \E change \in [S -> UNION {Results(job[c].op, Latest[t]) : t \in S}] :
            /\ \A t \in S : change[t] \in Results(job[c].op, Latest[t])
            /\ draft' = [draft EXCEPT ![c] = change]
            /\ job' = [job EXCEPT ![c].change = change]
    BY <1>9 DEF Write
  <2>2. PICK change \in [S -> UNION {Results(job[c].op, Latest[t]) : t \in S}] :
            /\ \A t \in S : change[t] \in Results(job[c].op, Latest[t])
            /\ draft' = [draft EXCEPT ![c] = change]
            /\ job' = [job EXCEPT ![c].change = change]
    BY <2>1
  <2>3. S \subseteq Topics
    BY <2>1 DEF Targets
  <2>4. IsPartial(change, Topics, TopicState)
    <3>1. \A t \in S : Latest[t] \in TopicState
      BY <2>3, LatestType DEF TypeOK, Content
    <3>2. \A t \in S : change[t] \in TopicState
      BY <3>1, <2>2, ResultsType
    <3> QED BY <2>2, <2>3, <3>2 DEF IsPartial
  <2>5. DOMAIN job' = Clients /\ \A o \in Clients : IsJob(job'[o])
    BY <2>2, <2>4, JobUpdate DEF TypeOK
  <2>6. DOMAIN draft' = Clients /\ \A o \in Clients : IsPartial(draft'[o], Topics, TopicState)
    BY <2>2, <2>4 DEF TypeOK
  <2> QED BY <1>9, <2>5, <2>6, QuietType DEF Write, TypeOK, Steps, DocSteps, database
<1>10. CASE Refuse(c)
  BY <1>10, <1>a, <1>m, AnswerType DEF Refuse
<1>11. CASE ClearMemory(c)
  BY <1>11, <1>t, RememberType, ForgetType, QuietType
     DEF ClearMemory, TypeOK, Steps, DocSteps, request, pending, IsJob, database
<1>12. CASE InvalidateBootstrap(c)
  BY <1>12, <1>k, InvalidateType DEF InvalidateBootstrap, Steps, DocSteps
<1>13. CASE InvalidateTopics(c)
  <2>1. Topics \cup {Tree} \in SUBSET Keys
    BY DEF Keys
  <2> QED BY <1>13, <2>1, InvalidateType DEF InvalidateTopics, Steps, DocSteps
<1>14. CASE DeleteRow(c)
  <2>1. /\ UNCHANGED <<database, memory, job, doc, draft, status>>
        /\ pc[c] \in Steps /\ pc[c] \notin DocSteps
    BY <1>14 DEF DeleteRow, Deleting, Steps, DocSteps
  <2>2. PICK step \in Steps \ DocSteps : Goto(c, step)
    BY <1>14, <2>1, AfterType DEF DeleteRow, DocSteps
  <2>3. todo' \in [Clients -> SUBSET Keys]
    BY <1>14 DEF DeleteRow, TypeOK
  <2>4. /\ DOMAIN rows' = Clients
        /\ \A o \in Clients : IsPartial(rows'[o], Keys, Doc \cup {None})
    <3>1. CASE UNCHANGED rows
      BY <3>1 DEF TypeOK
    <3>2. CASE \E k \in todo[c] : PutRow(c, k, None)
      <4>1. todo[c] \subseteq Keys
        BY DEF TypeOK
      <4> QED BY <3>2, <4>1, PutRowType
    <3> QED BY <1>14, <3>1, <3>2 DEF DeleteRow
  <2> QED BY <2>1, <2>2, <2>3, <2>4, QuietType DEF TypeOK, IsJob, database
<1>15. CASE DropMemory(c)
  <2>1. CASE Finish(c, "done", None)
    BY <1>15, <2>1, <1>t, <1>a, ForgetType, AnswerType DEF DropMemory
  <2>2. CASE ~Finish(c, "done", None)
    BY <1>15, <2>2, <1>t, RememberType, ForgetType, QuietType
       DEF DropMemory, TypeOK, Steps, DocSteps, request, pending, IsJob, database
  <2> QED BY <2>1, <2>2
<1>16. CASE ListTopics(c)
  BY <1>16, QuietType DEF ListTopics, Live, Keys, TypeOK, Steps, DocSteps, pending, IsJob, database
<1>17. CASE NextTopic(c)
  <2>1. CASE todo[c] = {} /\ Goto(c, "commit") /\ UNCHANGED <<job, todo>>
    BY <1>17, <2>1, QuietType DEF NextTopic, TypeOK, Steps, DocSteps, pending, IsJob, database
  <2>2. ASSUME NEW t \in todo[c], todo' = [todo EXCEPT ![c] = @ \ {t}],
               job' = [job EXCEPT ![c].key = t], Goto(c, "head")
        PROVE  TypeInv'
    <3>1. t \in Keys
      BY <2>2 DEF TypeOK
    <3>2. DOMAIN job' = Clients /\ \A o \in Clients : IsJob(job'[o])
      BY <2>2, <3>1, JobUpdate DEF TypeOK
    <3>3. todo' \in [Clients -> SUBSET Keys]
      BY <2>2 DEF TypeOK
    <3> QED BY <1>17, <2>2, <3>2, <3>3, QuietType
            DEF NextTopic, TypeOK, Steps, DocSteps, pending, database
  <2> QED BY <1>17, <2>1, <2>2 DEF NextTopic
<1>18. CASE Raise(c)
  BY <1>18, RollbackType, QuietType
     DEF Raise, TypeOK, Steps, DocSteps, request, IsJob, database
<1> QED BY <1>1, <1>2, <1>3, <1>4, <1>5, <1>6, <1>7, <1>8, <1>9, <1>10, <1>11,
           <1>12, <1>13, <1>15, <1>16, <1>17, <1>18, <1>14 DEF Step

\* A failed statement on app_cache keeps the types.
LEMMA SwallowType ==
  ASSUME TypeInv, NEW c \in Clients, Swallow(c)
  PROVE  TypeInv'
<1>1. PICK step \in Steps : Goto(c, step) /\ (step \in DocSteps => doc[c] \in Doc)
  BY AfterType DEF Swallow, DocSteps, TypeInv
<1>2. PICK b \in BOOLEAN : job' = [job EXCEPT ![c] = [job[c] EXCEPT !.swallowed = b]]
  BY DEF Swallow, TypeInv, TypeOK, IsJob
<1>3. DOMAIN job' = Clients /\ \A o \in Clients : IsJob(job'[o])
  BY <1>2, JobUpdate DEF TypeInv, TypeOK
<1>4. todo' \in [Clients -> SUBSET Keys] /\ UNCHANGED <<database, memory, doc, status>>
  BY DEF Swallow, TypeInv, TypeOK
<1>5. /\ DOMAIN draft' = Clients
      /\ \A o \in Clients : IsPartial(draft'[o], Topics, TopicState)
      /\ DOMAIN rows' = Clients
      /\ \A o \in Clients : IsPartial(rows'[o], Keys, Doc \cup {None})
  BY RollbackType DEF Swallow, TypeInv
<1>6. /\ memory' \in [Workers -> [Keys -> Doc \cup {None}]]
      /\ doc' \in [Clients -> Doc \cup {None}]
  BY <1>4 DEF TypeInv, TypeOK
<1> QED BY <1>1, <1>3, <1>4, <1>5, <1>6, QuietType

\* Expiry, restarts and the migration keep the types.
LEMMA EnvironmentType ==
  ASSUME TypeInv, Environment
  PROVE  TypeInv'
<1> USE DEF TypeInv
<1>1. ASSUME NEW w \in Workers, NEW k \in Keys, Expire(w, k) PROVE TypeInv'
  <2>1. memory' \in [Workers -> [Keys -> Doc \cup {None}]]
    BY <1>1, ForgetType DEF Expire
  <2>2. UNCHANGED <<database, pc, request, pending, status>>
    BY <1>1 DEF Expire
  <2> QED BY <2>1, <2>2 DEF TypeOK, database, request, pending, IsJob, IsPartial
<1>2. ASSUME NEW w \in Workers, Restart(w) PROVE TypeInv'
  <2>1. memory' \in [Workers -> [Keys -> Doc \cup {None}]]
    BY <1>2, ForgetType DEF Restart
  <2>2. /\ pc' \in [Clients -> Steps]
        /\ status' \in [Clients -> Answers]
        /\ doc' \in [Clients -> Doc \cup {None}]
        /\ todo' \in [Clients -> SUBSET Keys]
    BY <1>2 DEF Restart, TypeOK, Steps, Answers
  <2>3. /\ DOMAIN draft' = Clients
        /\ \A o \in Clients : IsPartial(draft'[o], Topics, TopicState)
        /\ DOMAIN rows' = Clients
        /\ \A o \in Clients : IsPartial(rows'[o], Keys, Doc \cup {None})
    BY <1>2, NothingPending DEF Restart, TypeOK
  <2>4. \A c \in Clients : pc'[c] \in DocSteps => doc'[c] \in Doc
    BY <1>2 DEF Restart, TypeOK, DocSteps
  <2> QED BY <1>2, <2>1, <2>2, <2>3, <2>4 DEF Restart, TypeOK, database, IsJob, IsPartial
<1>3. CASE Migrate
  BY <1>3 DEF Migrate, TypeOK, request, pending, IsJob, IsPartial
<1> QED BY <1>1, <1>2, <1>3 DEF Environment

\* Every step keeps the types.
LEMMA TypeNext == TypeInv /\ [Next]_vars => TypeInv'
<1> SUFFICES ASSUME TypeInv, [Next]_vars PROVE TypeInv'
  OBVIOUS
<1>1. CASE UNCHANGED vars
  BY <1>1 DEF vars, database, request, pending, TypeInv, TypeOK, IsJob, IsPartial
<1> QED BY <1>1, StartType, StepType, SwallowType, EnvironmentType DEF Next

\* Every variable keeps its type.
THEOREM TypeCorrect == Spec => []TypeOK
<1>1. TypeInv => TypeOK
  BY DEF TypeInv
<1> QED BY <1>1, TypeInit, TypeNext, PTL DEF Spec

-----------------------------------------------------------------------------
(* Only published rows are cached and served.                              *)

\* Only a rebuild runs the loop over the topics, and it carries no copy; that
\* matters because the loop changes the key of the request.
LoopShape(step, j) ==
  /\ step \in {"list", "next", "raise"} => j.op = "rebuild_topics"
  /\ j.op = "rebuild_topics" => j.copy = None

\* The inductive strengthening of OnlyPublishedRows: a request under way has no
\* answer yet, and the document it adopts or builds is genuine.
PublishedInv ==
  /\ TypeInv
  /\ OnlyPublishedRows
  /\ \A c \in Clients : pc[c] # "idle" => status[c] = "none"
  /\ \A c \in Clients : pc[c] \in DocSteps => Genuine(commits, job[c].key, doc[c])
  /\ \A c \in Clients : LoopShape(pc[c], job[c])

\* Nothing is genuine under any key, and a genuine document is genuine under
\* any key that is no topic's.
LEMMA GenuineElsewhere ==
  ASSUME NEW h, NEW k, NEW o
  PROVE  /\ Genuine(h, k, None)
         /\ o \notin Topics => \A d : Genuine(h, k, d) => Genuine(h, o, d)
BY DEF Genuine

\* A longer history keeps what was genuine.
LEMMA GenuineKept ==
  ASSUME NEW h, NEW g, Len(h) \in Nat, Len(g) \in Nat, Len(h) <= Len(g),
         \A i \in 1..Len(h) : g[i] = h[i],
         NEW k, NEW d \in Doc \cup {None}, Genuine(h, k, d)
  PROVE  Genuine(g, k, d)
BY DEF Genuine, Doc

\* At the start nothing is cached, pending or answered.
LEMMA PublishedInit == Init => PublishedInv
BY TypeInit, GenuineElsewhere
   DEF Init, PublishedInv, OnlyPublishedRows, DocSteps, NoRows, LoopShape

\* A step of client c that commits nothing: what it remembers, drafts, asks
\* with and answers with must be genuine.
LEMMA PublishedQuiet ==
  ASSUME PublishedInv, TypeInv', NEW c \in Clients, UNCHANGED <<commits, app_cache>>,
         \A w \in Workers, k \in Keys :
           memory'[w][k] = memory[w][k] \/ Genuine(commits, k, memory'[w][k]),
         \A k \in DOMAIN rows'[c] : Genuine(commits, k, rows'[c][k]),
         Genuine(commits, job'[c].key, job'[c].copy),
         pc'[c] # "idle" => status'[c] = "none",
         LoopShape(pc'[c], job'[c]),
         status'[c] \in {"200", "304"} \/ pc'[c] \in DocSteps
           => Genuine(commits, job'[c].key, doc'[c]),
         \A o \in Clients \ {c} :
           /\ rows'[o] = rows[o] /\ job'[o] = job[o] /\ pc'[o] = pc[o]
           /\ status'[o] = status[o] /\ doc'[o] = doc[o]
  PROVE  PublishedInv'
<1>1. \A w \in Workers, k \in Keys : Genuine(commits, k, memory'[w][k])
  BY DEF PublishedInv, OnlyPublishedRows
<1>2. \A k \in Keys : Genuine(commits, k, app_cache[k])
  BY DEF PublishedInv, OnlyPublishedRows
<1>3. ASSUME NEW o \in Clients
      PROVE  /\ \A k \in DOMAIN rows'[o] : Genuine(commits, k, rows'[o][k])
             /\ Genuine(commits, job'[o].key, job'[o].copy)
             /\ pc'[o] # "idle" => status'[o] = "none"
             /\ LoopShape(pc'[o], job'[o])
             /\ status'[o] \in {"200", "304"} \/ pc'[o] \in DocSteps
                  => Genuine(commits, job'[o].key, doc'[o])
  <2>1. CASE o = c
    BY <2>1
  <2>2. CASE o # c
    <3>1. /\ rows'[o] = rows[o] /\ job'[o] = job[o] /\ pc'[o] = pc[o]
          /\ status'[o] = status[o] /\ doc'[o] = doc[o]
      BY <2>2
    <3> QED BY <3>1 DEF PublishedInv, OnlyPublishedRows
  <2> QED BY <2>1, <2>2
<1> QED BY <1>1, <1>2, <1>3 DEF PublishedInv, OnlyPublishedRows

\* What a client holds is genuine.
LEMMA HeldGenuine ==
  ASSUME PublishedInv, NEW c \in Clients, NEW k
  PROVE  Genuine(commits, k, Held(c, k))
BY GenuineElsewhere DEF Held, PublishedInv, OnlyPublishedRows

\* A request that begins carries a copy that some answer gave its client.
LEMMA BeginPublished ==
  ASSUME PublishedInv, TypeInv', NEW c \in Clients, NEW op, NEW w, NEW k, NEW copy,
         Genuine(commits, k, copy), NEW step \in Steps \ DocSteps,
         step \notin {"list", "next", "raise"}, op = "rebuild_topics" => copy = None,
         Begin(c, Request(op, w, k, copy), step)
  PROVE  PublishedInv'
<1>1. /\ pc' = [pc EXCEPT ![c] = step]
      /\ job' = [job EXCEPT ![c] = Request(op, w, k, copy)]
      /\ doc' = [doc EXCEPT ![c] = None]
      /\ status' = [status EXCEPT ![c] = "none"]
      /\ UNCHANGED <<commits, app_cache, memory, rows>>
  BY DEF Begin, Goto, database, pending
<1>2. /\ pc'[c] = step /\ job'[c] = Request(op, w, k, copy) /\ status'[c] = "none"
      /\ \A o \in Clients \ {c} : /\ rows'[o] = rows[o] /\ job'[o] = job[o]
                                 /\ pc'[o] = pc[o] /\ status'[o] = status[o]
                                 /\ doc'[o] = doc[o]
  BY <1>1 DEF PublishedInv, TypeInv, TypeOK
<1>3. job'[c].key = k /\ job'[c].copy = copy /\ LoopShape(pc'[c], job'[c])
  BY <1>2 DEF Request, LoopShape
<1>4. \A x \in DOMAIN rows'[c] : Genuine(commits, x, rows'[c][x])
  BY <1>1 DEF PublishedInv, OnlyPublishedRows
<1> QED BY <1>1, <1>2, <1>3, <1>4, PublishedQuiet

\* A memory hit is answered with what the memory holds.
LEMMA FetchPublished ==
  ASSUME PublishedInv, TypeInv', NEW c \in Clients, NEW op, NEW w \in Workers,
         NEW k \in Keys, NEW copy, Genuine(commits, k, copy), NEW step \in Steps \ DocSteps,
         step \notin {"list", "next", "raise"}, op # "rebuild_topics",
         Fetch(c, Request(op, w, k, copy), step)
  PROVE  PublishedInv'
<1>1. CASE Begin(c, Request(op, w, k, copy), step)
  BY <1>1, BeginPublished
<1>2. CASE MemoryHit(c, Request(op, w, k, copy))
  <2> DEFINE j == Request(op, w, k, copy)
  <2>1. j.worker = w /\ j.key = k /\ j.copy = copy /\ j.op = op
    BY DEF Request
  <2>2. /\ job' = [job EXCEPT ![c] = j]
        /\ doc' = [doc EXCEPT ![c] = memory[w][k]]
        /\ status' = [status EXCEPT ![c] = IF Matches(j, memory[w][k]) THEN "304" ELSE "200"]
        /\ pc[c] = "idle"
        /\ UNCHANGED <<commits, app_cache, memory, rows, pc>>
    BY <1>2, <2>1 DEF MemoryHit, database, pending
  <2>3. /\ job'[c] = j /\ doc'[c] = memory[w][k] /\ pc'[c] = "idle"
        /\ \A o \in Clients \ {c} : /\ rows'[o] = rows[o] /\ job'[o] = job[o]
                                   /\ pc'[o] = pc[o] /\ status'[o] = status[o]
                                   /\ doc'[o] = doc[o]
    BY <2>2 DEF PublishedInv, TypeInv, TypeOK
  <2>4. Genuine(commits, k, memory[w][k])
    BY DEF PublishedInv, OnlyPublishedRows
  <2>5. \A x \in DOMAIN rows'[c] : Genuine(commits, x, rows'[c][x])
    BY <2>2 DEF PublishedInv, OnlyPublishedRows
  <2>6. LoopShape(pc'[c], job'[c])
    BY <2>1, <2>3 DEF LoopShape
  <2> HIDE DEF j
  <2> QED BY <2>1, <2>2, <2>3, <2>4, <2>5, <2>6, PublishedQuiet
<1> QED BY <1>1, <1>2 DEF Fetch

\* An answer without a commit: the document answered with must be genuine, and
\* what the worker remembers with it.
LEMMA AnswerPublished ==
  ASSUME PublishedInv, TypeInv', NEW c \in Clients, NEW answer, NEW d,
         Finish(c, answer, d), UNCHANGED database,
         answer \in {"200", "304"} => Genuine(commits, job[c].key, d),
         \A w \in Workers, k \in Keys :
           memory'[w][k] = memory[w][k] \/ Genuine(commits, k, memory'[w][k])
  PROVE  PublishedInv'
<1>1. /\ pc' = [pc EXCEPT ![c] = "idle"] /\ status' = [status EXCEPT ![c] = answer]
      /\ doc' = [doc EXCEPT ![c] = d] /\ job' = job
      /\ rows' = [rows EXCEPT ![c] = NoRows]
      /\ UNCHANGED <<commits, app_cache>>
  BY DEF Finish, Close, Goto, Rollback, database
<1>2. /\ pc'[c] = "idle" /\ status'[c] = answer /\ doc'[c] = d /\ rows'[c] = NoRows
      /\ \A o \in Clients \ {c} : /\ rows'[o] = rows[o] /\ job'[o] = job[o]
                                 /\ pc'[o] = pc[o] /\ status'[o] = status[o]
                                 /\ doc'[o] = doc[o]
  BY <1>1 DEF PublishedInv, TypeInv, TypeOK
<1>3. \A x \in DOMAIN rows'[c] : Genuine(commits, x, rows'[c][x])
  BY <1>2 DEF NoRows
<1>4. Genuine(commits, job'[c].key, job'[c].copy)
  BY <1>1 DEF PublishedInv, OnlyPublishedRows
<1>5. "idle" \notin DocSteps /\ LoopShape(pc'[c], job'[c])
  BY <1>1, <1>2 DEF DocSteps, LoopShape, PublishedInv
<1> QED BY <1>1, <1>2, <1>3, <1>4, <1>5, PublishedQuiet

\* A step that only moves on, or that also replaces the pending rows or the
\* document of its client.
LEMMA MovePublished ==
  ASSUME PublishedInv, TypeInv', NEW c \in Clients, pc[c] # "idle", NEW step, Goto(c, step),
         UNCHANGED <<database, status>>,
         \A w \in Workers, k \in Keys :
           memory'[w][k] = memory[w][k] \/ Genuine(commits, k, memory'[w][k]),
         \A k \in DOMAIN rows'[c] : Genuine(commits, k, rows'[c][k]),
         Genuine(commits, job'[c].key, job'[c].copy),
         LoopShape(step, job'[c]),
         step \in DocSteps => Genuine(commits, job'[c].key, doc'[c]),
         \A o \in Clients \ {c} : rows'[o] = rows[o] /\ job'[o] = job[o] /\ doc'[o] = doc[o]
  PROVE  PublishedInv'
<1>1. /\ pc'[c] = step /\ status'[c] = "none" /\ UNCHANGED <<commits, app_cache>>
      /\ \A o \in Clients \ {c} : pc'[o] = pc[o] /\ status'[o] = status[o]
  BY DEF Goto, database, PublishedInv, TypeInv, TypeOK
<1> QED BY <1>1, PublishedQuiet

\* What a worker remembers and forgets.
LEMMA MemoryPublished ==
  ASSUME TypeOK, NEW v \in Workers, NEW x \in Keys, NEW d
  PROVE  /\ UNCHANGED memory => \A w \in Workers, k \in Keys : memory'[w][k] = memory[w][k]
         /\ Remember(v, x, d) /\ Genuine(commits, x, d) =>
              \A w \in Workers, k \in Keys :
                memory'[w][k] = memory[w][k] \/ Genuine(commits, k, memory'[w][k])
         /\ \A K : Forget(v, K) =>
              \A w \in Workers, k \in Keys :
                memory'[w][k] = memory[w][k] \/ Genuine(commits, k, memory'[w][k])
<1>1. ASSUME Remember(v, x, d), Genuine(commits, x, d), NEW w \in Workers, NEW k \in Keys
      PROVE  memory'[w][k] = memory[w][k] \/ Genuine(commits, k, memory'[w][k])
  BY <1>1 DEF Remember, TypeOK
<1>2. ASSUME NEW K, Forget(v, K), NEW w \in Workers, NEW k \in Keys
      PROVE  memory'[w][k] = memory[w][k] \/ Genuine(commits, k, memory'[w][k])
  <2>1. memory'[w][k] = memory[w][k] \/ memory'[w][k] = None
    BY <1>2 DEF Forget, TypeOK
  <2> QED BY <2>1, GenuineElsewhere
<1> QED BY <1>1, <1>2

\* No request brings an unpublished row into play by starting.
LEMMA StartPublished ==
  ASSUME PublishedInv, TypeInv', NEW c \in Clients, Start(c)
  PROVE  PublishedInv'
<1>n. \A k : Genuine(commits, k, None)
  BY GenuineElsewhere
<1>s. {"get_cached", "head", "write", "invalidate_topics", "clear"}
         \subseteq (Steps \ DocSteps) \ {"list", "next", "raise"}
  BY DEF Steps, DocSteps
<1>k. Topics \subseteq Keys /\ Tree \in Keys /\ Bootstrap \in Keys
  BY DEF Keys
<1>1. CASE GetTopic(c)
  <2>1. PICK w \in Workers, t \in Topics : \E copy \in {None, Held(c, t)} :
          Fetch(c, Request("get_topic", w, t, copy), "get_cached")
    BY <1>1 DEF GetTopic
  <2>2. PICK copy \in {None, Held(c, t)} :
          Fetch(c, Request("get_topic", w, t, copy), "get_cached")
    BY <2>1
  <2>3. Genuine(commits, t, copy)
    BY <1>n, HeldGenuine
  <2> QED BY <2>2, <2>3, <1>s, <1>k, FetchPublished
<1>2. CASE TopicTree(c)
  BY <1>2, <1>n, <1>s, <1>k, FetchPublished DEF TopicTree
<1>3. CASE GetBootstrap(c)
  <2>1. PICK w \in Workers, copy \in {None, Held(c, Bootstrap)} :
          \/ Fetch(c, Request("bootstrap", w, Bootstrap, copy), "get_cached")
          \/ Begin(c, Request("refresh_bootstrap", w, Bootstrap, copy), "head")
    BY <1>3 DEF GetBootstrap
  <2>2. Genuine(commits, Bootstrap, copy)
    BY <1>n, HeldGenuine
  <2> QED BY <2>1, <2>2, <1>s, <1>k, FetchPublished, BeginPublished
<1>4. CASE WriteTopics(c)
  BY <1>4, <1>n, <1>s, BeginPublished DEF WriteTopics
<1>5. CASE RebuildBootstrap(c)
  BY <1>5, <1>n, <1>s, BeginPublished DEF RebuildBootstrap
<1>6. CASE RebuildTopics(c)
  BY <1>6, <1>n, <1>s, BeginPublished DEF RebuildTopics
<1>7. CASE ClearBootstrap(c)
  BY <1>7, <1>n, <1>s, BeginPublished DEF ClearBootstrap
<1> QED BY <1>1, <1>2, <1>3, <1>4, <1>5, <1>6, <1>7 DEF Start

\* A commit makes the pending rows, all genuine, the table's.
LEMMA CommitPublished ==
  ASSUME PublishedInv, TypeInv', NEW c \in Clients, CommitSession(c), UNCHANGED memory, pc[c] # "idle",
         \/ \E answer, d : /\ Close(c, answer, d)
                           /\ answer \in {"200", "304"} => d = doc[c] /\ pc[c] \in DocSteps
         \/ \E step : /\ Goto(c, step) /\ UNCHANGED <<job, doc, status>>
                      /\ step \in DocSteps => pc[c] \in DocSteps
                      /\ step \notin {"list", "next", "raise"}
  PROVE  PublishedInv'
<1>1. /\ Len(commits) \in Nat /\ Len(commits') \in Nat /\ Len(commits') >= Len(commits)
      /\ \A i \in 1..Len(commits) : commits'[i] = commits[i]
  <2>1. TypeOK
    BY DEF PublishedInv, TypeInv
  <2>2. commits \in Seq(Content)
    BY <2>1 DEF TypeOK
  <2> QED BY <2>1, <2>2, CommitSessionType
<1>2. ASSUME NEW k, NEW d \in Doc \cup {None}, Genuine(commits, k, d)
      PROVE  Genuine(commits', k, d)
  BY <1>1, <1>2, GenuineKept
<1>3. \A k \in Keys : Genuine(commits, k, app_cache'[k]) /\ app_cache'[k] \in Doc \cup {None}
  BY DEF CommitSession, PublishedInv, OnlyPublishedRows, TypeInv, TypeOK, IsPartial
<1>4. \A k \in Keys : Genuine(commits', k, app_cache'[k])
  BY <1>2, <1>3
<1>5. \A w \in Workers, k \in Keys : Genuine(commits', k, memory'[w][k])
  BY <1>2 DEF PublishedInv, OnlyPublishedRows, TypeInv, TypeOK
<1>6. rows' = [rows EXCEPT ![c] = NoRows]
  BY DEF CommitSession, Rollback
<1>7. \A o \in Clients : \A k \in DOMAIN rows'[o] : Genuine(commits', k, rows'[o][k])
  BY <1>2, <1>6 DEF PublishedInv, OnlyPublishedRows, TypeInv, TypeOK, IsPartial, NoRows
<1>8. job' = job
  BY DEF Close
<1>9. \A o \in Clients : Genuine(commits', job'[o].key, job'[o].copy)
  BY <1>2, <1>8 DEF PublishedInv, OnlyPublishedRows, TypeInv, TypeOK, IsJob
<1>10. ASSUME NEW o \in Clients
       PROVE  /\ pc'[o] # "idle" => status'[o] = "none"
              /\ status'[o] \in {"200", "304"} \/ pc'[o] \in DocSteps
                   => Genuine(commits', job'[o].key, doc'[o])
              /\ LoopShape(pc'[o], job'[o])
  <2>1. CASE o # c
    <3>1. pc'[o] = pc[o] /\ status'[o] = status[o] /\ doc'[o] = doc[o]
      BY <2>1 DEF Close, Goto, PublishedInv, TypeInv, TypeOK
    <3> QED BY <3>1, <1>2, <1>8 DEF PublishedInv, OnlyPublishedRows, TypeInv, TypeOK
  <2>2. ASSUME o = c, NEW answer, NEW d, Close(c, answer, d),
               answer \in {"200", "304"} => d = doc[c] /\ pc[c] \in DocSteps
        PROVE  /\ pc'[o] # "idle" => status'[o] = "none"
               /\ status'[o] \in {"200", "304"} \/ pc'[o] \in DocSteps
                    => Genuine(commits', job'[o].key, doc'[o])
               /\ LoopShape(pc'[o], job'[o])
    <3>1. pc'[o] = "idle" /\ status'[o] = answer /\ doc'[o] = d
      BY <2>2 DEF Close, Goto, PublishedInv, TypeInv, TypeOK
    <3> QED BY <2>2, <3>1, <1>2, <1>8 DEF PublishedInv, TypeInv, TypeOK, DocSteps, LoopShape
  <2>3. ASSUME o = c, NEW step, Goto(c, step), UNCHANGED <<job, doc, status>>,
               step \in DocSteps => pc[c] \in DocSteps,
               step \notin {"list", "next", "raise"}
        PROVE  /\ pc'[o] # "idle" => status'[o] = "none"
               /\ status'[o] \in {"200", "304"} \/ pc'[o] \in DocSteps
                    => Genuine(commits', job'[o].key, doc'[o])
               /\ LoopShape(pc'[o], job'[o])
    <3>1. pc'[o] = step /\ status'[o] = "none" /\ doc'[o] = doc[o]
      BY <2>3 DEF Goto, PublishedInv, TypeInv, TypeOK
    <3> QED BY <2>3, <3>1, <1>2, <1>8 DEF PublishedInv, TypeInv, TypeOK, LoopShape
  <2> QED BY <2>1, <2>2, <2>3
<1> QED BY <1>4, <1>5, <1>7, <1>9, <1>10 DEF PublishedInv, OnlyPublishedRows

\* No step of a request does: ReadHead is where rows are looked at, every
\* other step passes a document on.
LEMMA StepPublished ==
  ASSUME PublishedInv, TypeInv', NEW c \in Clients, Step(c)
  PROVE  PublishedInv'
<1>t. /\ TypeOK
      /\ job[c].worker \in Workers /\ job[c].key \in Keys /\ Tree \in Keys /\ Bootstrap \in Keys
      /\ Tree \notin Topics /\ Bootstrap \notin Topics
      /\ Len(commits) \in Nat /\ Len(commits) > 0
  <2>1. TypeOK
    BY DEF PublishedInv, TypeInv
  <2>2. job[c].worker \in Workers /\ job[c].key \in Keys
    BY <2>1 DEF TypeOK, IsJob
  <2>3. Len(commits) \in Nat /\ Len(commits) > 0
    BY <2>1 DEF TypeOK
  <2> QED BY <2>1, <2>2, <2>3, KeysAssumption DEF Keys
<1>c. Genuine(commits, job[c].key, job[c].copy)
  BY DEF PublishedInv, OnlyPublishedRows
<1>r. \A k \in DOMAIN rows[c] : Genuine(commits, k, rows[c][k])
  BY DEF PublishedInv, OnlyPublishedRows
<1>d. pc[c] \in DocSteps => Genuine(commits, job[c].key, doc[c])
  BY DEF PublishedInv
<1>l. LoopShape(pc[c], job[c])
  BY DEF PublishedInv
<1>b. \A o : pc[c] \in DocSteps /\ o \notin Topics => Genuine(commits, o, doc[c])
  BY <1>d, GenuineElsewhere
<1>m. /\ UNCHANGED memory => \A w \in Workers, k \in Keys :
           memory'[w][k] = memory[w][k] \/ Genuine(commits, k, memory'[w][k])
      /\ \A v \in Workers, x \in Keys : \A d : Remember(v, x, d) /\ Genuine(commits, x, d) =>
           \A w \in Workers, k \in Keys :
             memory'[w][k] = memory[w][k] \/ Genuine(commits, k, memory'[w][k])
      /\ \A v \in Workers : \A K : Forget(v, K) =>
           \A w \in Workers, k \in Keys :
             memory'[w][k] = memory[w][k] \/ Genuine(commits, k, memory'[w][k])
  BY <1>t, MemoryPublished
<1>1. CASE GetCached(c)
  <2>1. PICK row : /\ Genuine(commits, job[c].key, row)
                   /\ doc' = [doc EXCEPT ![c] = row]
                   /\ Goto(c, IF row = None THEN "head" ELSE "adopt")
    BY <1>1, <1>t, GenuineElsewhere DEF GetCached, After, PublishedInv, OnlyPublishedRows
  <2>2. /\ doc'[c] = row /\ \A o \in Clients \ {c} : doc'[o] = doc[o]
    BY <2>1, <1>t DEF TypeOK
  <2> QED BY <1>1, <2>1, <2>2, <1>m, <1>r, <1>c, <1>l, MovePublished DEF LoopShape, GetCached, pending
<1>2. CASE Adopt(c)
  <2>1. Genuine(commits, job[c].key, doc[c])
    BY <1>2, <1>d DEF Adopt, DocSteps
  <2> QED BY <1>2, <2>1, <1>t, <1>m, AnswerPublished DEF Adopt, Serve
<1>3. CASE ReadHead(c)
  <2>1. CASE Finish(c, "404", None)
    BY <1>3, <2>1, <1>m, AnswerPublished DEF ReadHead
  <2>2. CASE /\ doc' = [doc EXCEPT ![c] = Now]
             /\ Goto(c, "tail")
             /\ job[c].key \in Topics => job[c].key \in Live(Len(commits))
             /\ UNCHANGED <<job, todo, status, pending>>
    <3>1. Genuine(commits, job[c].key, Now)
      BY <2>2, <1>t DEF Genuine, Now, Live
    <3>2. doc'[c] = Now /\ \A o \in Clients \ {c} : doc'[o] = doc[o]
      BY <2>2, <1>t DEF TypeOK
    <3> QED BY <1>3, <2>2, <3>1, <3>2, <1>m, <1>r, <1>c, <1>l, MovePublished DEF LoopShape, ReadHead, pending
  <2>3. CASE /\ Goto(c, "next") /\ job[c].op = "rebuild_topics"
             /\ UNCHANGED <<request, status, pending>>
    BY <1>3, <2>3, <1>m, <1>r, <1>c, <1>l, MovePublished DEF LoopShape, ReadHead, request, pending, DocSteps
  <2> QED BY <1>3, <2>1, <2>2, <2>3 DEF ReadHead
<1>4. CASE ReadTail(c)
  <2>1. doc' = [doc EXCEPT ![c].tail = Len(commits)] /\ doc[c] \in Doc
        /\ Genuine(commits, job[c].key, doc[c])
    BY <1>4, <1>d DEF ReadTail, DocSteps, PublishedInv, TypeInv
  <2>2. doc'[c] = [doc[c] EXCEPT !.tail = Len(commits)] /\ \A o \in Clients \ {c} : doc'[o] = doc[o]
    BY <2>1, <1>t DEF TypeOK
  <2>3. doc'[c].head = doc[c].head /\ doc'[c].tail = Len(commits) /\ doc[c] # None
    BY <2>1, <2>2, NoneAssumption DEF Doc
  <2>4. Genuine(commits, job[c].key, doc'[c])
    BY <2>1, <2>3, <1>t DEF Genuine, Doc
  <2> QED BY <1>4, <2>2, <2>4, <1>m, <1>r, <1>c, <1>l, MovePublished DEF LoopShape, ReadTail, pending
<1>5. CASE Built(c)
  <2>1. Genuine(commits, job[c].key, doc[c]) /\ Genuine(commits, Tree, doc[c])
    BY <1>5, <1>d, <1>b, <1>t DEF Built, DocSteps
  <2>2. CASE Finish(c, "304", doc[c]) /\ UNCHANGED memory
    BY <1>5, <2>1, <2>2, <1>m, AnswerPublished DEF Built
  <2>3. CASE /\ Remember(job[c].worker, job[c].key, doc[c])
             /\ Goto(c, "set_cached")
             /\ UNCHANGED <<request, pending, status>>
    BY <1>5, <2>1, <2>3, <1>t, <1>m, <1>r, <1>c, <1>l, MovePublished DEF LoopShape, Built, request, pending
  <2>4. CASE Remember(job[c].worker, Tree, doc[c]) /\ Serve(c, doc[c])
    BY <1>5, <2>1, <2>4, <1>t, <1>m, AnswerPublished DEF Built, Serve
  <2> QED BY <1>5, <2>2, <2>3, <2>4 DEF Built
<1>6. CASE SetCached(c)
  <2>1. Genuine(commits, job[c].key, doc[c])
    BY <1>6, <1>d DEF SetCached, DocSteps
  <2>2. /\ \A k \in DOMAIN rows'[c] : Genuine(commits, k, rows'[c][k])
        /\ \A o \in Clients \ {c} : rows'[o] = rows[o]
    BY <1>6, <2>1, <1>r, <1>t DEF SetCached, PutRow, TypeOK
  <2> QED BY <1>6, <2>1, <2>2, <1>m, <1>c, <1>l, MovePublished DEF LoopShape, SetCached, After, request
<1>7. CASE Store(c)
  BY <1>7, CommitPublished DEF Store, DocSteps
<1>8. CASE Publish(c)
  <2>1. Genuine(commits, job[c].key, doc[c]) /\ Genuine(commits, Bootstrap, doc[c])
    BY <1>8, <1>d, <1>b, <1>t DEF Publish, DocSteps
  <2> QED BY <1>8, <2>1, <1>t, <1>m, AnswerPublished DEF Publish, Serve
<1>9. CASE Write(c)
  <2>1. PICK change : job' = [job EXCEPT ![c].change = change]
    BY <1>9 DEF Write
  <2>2. /\ job'[c] = [job[c] EXCEPT !.change = change]
        /\ \A o \in Clients \ {c} : job'[o] = job[o]
    BY <2>1, <1>t DEF TypeOK
  <2>3. job'[c].key = job[c].key /\ job'[c].copy = job[c].copy
    BY <2>2, <1>t DEF TypeOK, IsJob
  <2> QED BY <1>9, <2>2, <2>3, <1>m, <1>r, <1>c, <1>l, MovePublished DEF LoopShape, Write, DocSteps
<1>10. CASE Refuse(c)
  BY <1>10, <1>m, AnswerPublished DEF Refuse
<1>11. CASE ClearMemory(c)
  BY <1>11, <1>t, <1>m, <1>r, <1>c, <1>l, MovePublished DEF LoopShape, ClearMemory, request, pending, DocSteps
<1>12. CASE InvalidateBootstrap(c) \/ InvalidateTopics(c)
  <2>1. PICK step \in {"delete_bootstrap", "delete_topics", "commit", "invalidate_topics", "drop"} :
          Goto(c, step) /\ LoopShape(step, job[c])
    BY <1>12, <1>l DEF InvalidateBootstrap, InvalidateTopics, Invalidate, After, LoopShape
  <2>2. UNCHANGED <<database, memory, job, doc, pending, status>> /\ pc[c] # "idle"
    BY <1>12 DEF InvalidateBootstrap, InvalidateTopics, Invalidate
  <2> QED BY <2>1, <2>2, <1>m, <1>r, <1>c, MovePublished DEF pending, DocSteps
<1>13. CASE DeleteRow(c)
  <2>1. PICK step \in {"delete_bootstrap", "delete_topics", "commit", "invalidate_topics", "drop"} :
          Goto(c, step) /\ LoopShape(step, job[c])
    BY <1>13, <1>l DEF DeleteRow, Deleting, After, LoopShape
  <2>2. /\ UNCHANGED <<database, memory, job, doc, draft, status>> /\ pc[c] # "idle"
    BY <1>13 DEF DeleteRow, Deleting
  <2>3. /\ \A k \in DOMAIN rows'[c] : Genuine(commits, k, rows'[c][k])
        /\ \A o \in Clients \ {c} : rows'[o] = rows[o]
    <3>1. CASE UNCHANGED rows
      BY <3>1, <1>r
    <3>2. CASE \E k \in todo[c] : PutRow(c, k, None)
      BY <3>2, <1>r, <1>t, GenuineElsewhere DEF PutRow, TypeOK
    <3> QED BY <1>13, <3>1, <3>2 DEF DeleteRow
  <2> QED BY <2>1, <2>2, <2>3, <1>m, <1>c, MovePublished DEF DocSteps
<1>14. CASE Commit(c)
  BY <1>14, CommitPublished DEF Commit, DocSteps
<1>15. CASE DropMemory(c)
  <2>1. CASE Finish(c, "done", None)
    BY <1>15, <2>1, <1>t, <1>m, AnswerPublished DEF DropMemory
  <2>2. CASE ~Finish(c, "done", None)
    BY <1>15, <2>2, <1>t, <1>m, <1>r, <1>c, <1>l, MovePublished
       DEF LoopShape, DropMemory, request, pending, DocSteps
  <2> QED BY <2>1, <2>2
<1>16. CASE ListTopics(c)
  BY <1>16, <1>m, <1>r, <1>c, <1>l, MovePublished DEF LoopShape, ListTopics, pending, DocSteps
<1>17. CASE NextTopic(c)
  <2>1. CASE UNCHANGED job /\ Goto(c, "commit")
    BY <1>17, <2>1, <1>m, <1>r, <1>c, <1>l, MovePublished DEF LoopShape, NextTopic, pending, DocSteps
  <2>2. CASE \E t \in todo[c] : job' = [job EXCEPT ![c].key = t] /\ Goto(c, "head")
    <3>1. PICK t \in todo[c] : job' = [job EXCEPT ![c].key = t] /\ Goto(c, "head")
      BY <2>2
    <3>2. /\ job'[c] = [job[c] EXCEPT !.key = t]
          /\ \A o \in Clients \ {c} : job'[o] = job[o]
      BY <3>1, <1>t DEF TypeOK
    <3>3. job'[c].key = t /\ job'[c].copy = job[c].copy
      BY <3>2, <1>t DEF TypeOK, IsJob
    <3>4. job[c].copy = None
      BY <1>17, <1>l DEF NextTopic, LoopShape
    <3>5. Genuine(commits, job'[c].key, job'[c].copy) /\ LoopShape("head", job'[c])
      BY <3>3, <3>4, GenuineElsewhere DEF LoopShape
    <3> QED BY <1>17, <3>1, <3>2, <3>5, <1>m, <1>r, MovePublished DEF NextTopic, pending, DocSteps
  <2> QED BY <1>17, <2>1, <2>2 DEF NextTopic
<1>18. CASE Raise(c)
  BY <1>18, <1>t, <1>m, <1>c, <1>l, MovePublished DEF LoopShape, Raise, Rollback, NoRows, TypeOK, request, DocSteps
<1> QED BY <1>1, <1>2, <1>3, <1>4, <1>5, <1>6, <1>7, <1>8, <1>9, <1>10, <1>11,
           <1>12, <1>14, <1>15, <1>16, <1>17, <1>18, <1>13 DEF Step

\* A failed statement on app_cache only drops pending rows.
LEMMA SwallowPublished ==
  ASSUME PublishedInv, TypeInv', NEW c \in Clients, Swallow(c)
  PROVE  PublishedInv'
<1>t. TypeOK /\ pc[c] # "idle"
  BY DEF PublishedInv, TypeInv, Swallow, CacheSteps
<1>1. /\ job'[c].key = job[c].key /\ job'[c].copy = job[c].copy /\ job'[c].op = job[c].op
      /\ \A o \in Clients \ {c} : job'[o] = job[o]
  BY <1>t DEF Swallow, TypeOK, IsJob
<1>2. rows'[c] = NoRows /\ \A o \in Clients \ {c} : rows'[o] = rows[o]
  BY <1>t DEF Swallow, Rollback, TypeOK
<1>3. \A k \in DOMAIN rows'[c] : Genuine(commits, k, rows'[c][k])
  BY <1>2 DEF NoRows
<1>4. PICK step : /\ Goto(c, step) /\ LoopShape(step, job'[c])
                  /\ step \in DocSteps => pc[c] \in DocSteps
  BY <1>1 DEF Swallow, CacheSteps, After, LoopShape, DocSteps, PublishedInv
<1>5. UNCHANGED <<database, memory, doc, status>>
  BY DEF Swallow
<1>6. Genuine(commits, job'[c].key, job'[c].copy)
  BY <1>1 DEF PublishedInv, OnlyPublishedRows
<1>7. step \in DocSteps => Genuine(commits, job'[c].key, doc'[c])
  BY <1>1, <1>4, <1>5 DEF PublishedInv
<1> QED BY <1>t, <1>1, <1>2, <1>3, <1>4, <1>5, <1>6, <1>7, MovePublished

\* Nor do expiry, restarts and the migration, which only drop documents.
LEMMA EnvironmentPublished ==
  ASSUME PublishedInv, TypeInv', Environment
  PROVE  PublishedInv'
<1>t. TypeOK
  BY DEF PublishedInv, TypeInv
<1>1. ASSUME NEW v \in Workers, NEW K, Forget(v, K), UNCHANGED <<commits, app_cache, job>>,
             \A c \in Clients :
               \/ /\ pc'[c] = pc[c] /\ status'[c] = status[c]
                  /\ doc'[c] = doc[c] /\ rows'[c] = rows[c]
               \/ pc'[c] = "idle" /\ status'[c] = "lost" /\ rows'[c] = NoRows
      PROVE  PublishedInv'
  <2>1. \A w \in Workers, k \in Keys : memory'[w][k] = memory[w][k] \/ memory'[w][k] = None
    BY <1>1, <1>t DEF Forget, TypeOK
  <2>2. \A w \in Workers, k \in Keys : Genuine(commits, k, memory'[w][k])
    BY <2>1, GenuineElsewhere DEF PublishedInv, OnlyPublishedRows
  <2>3. \A c \in Clients : \A k \in DOMAIN rows'[c] : Genuine(commits, k, rows'[c][k])
    BY <1>1 DEF PublishedInv, OnlyPublishedRows, NoRows
  <2>4. \A c \in Clients :
          /\ pc'[c] # "idle" => status'[c] = "none"
          /\ LoopShape(pc'[c], job'[c])
          /\ status'[c] \in {"200", "304"} \/ pc'[c] \in DocSteps
               => Genuine(commits, job'[c].key, doc'[c])
    BY <1>1 DEF PublishedInv, OnlyPublishedRows, LoopShape, DocSteps
  <2> QED BY <1>1, <2>2, <2>3, <2>4 DEF PublishedInv, OnlyPublishedRows
<1>2. ASSUME NEW w \in Workers, NEW k \in Keys, Expire(w, k) PROVE PublishedInv'
  BY <1>1, <1>2 DEF Expire, database, request, pending
<1>3. ASSUME NEW w \in Workers, Restart(w) PROVE PublishedInv'
  <2>1. \A c \in Clients :
          \/ /\ pc'[c] = pc[c] /\ status'[c] = status[c]
             /\ doc'[c] = doc[c] /\ rows'[c] = rows[c]
          \/ pc'[c] = "idle" /\ status'[c] = "lost" /\ rows'[c] = NoRows
    BY <1>3 DEF Restart
  <2> QED BY <1>1, <1>3, <2>1 DEF Restart, database
<1>4. CASE Migrate
  BY <1>4 DEF Migrate, request, pending, PublishedInv, OnlyPublishedRows
<1> QED BY <1>2, <1>3, <1>4 DEF Environment

\* PublishedInv is inductive.
LEMMA PublishedNext == PublishedInv /\ [Next]_vars => PublishedInv'
<1> SUFFICES ASSUME PublishedInv, [Next]_vars PROVE PublishedInv'
  OBVIOUS
<1>1. TypeInv'
  BY TypeNext DEF PublishedInv
<1>2. CASE UNCHANGED vars
  BY <1>1, <1>2 DEF vars, database, request, pending, PublishedInv, OnlyPublishedRows
<1> QED BY <1>1, <1>2, StartPublished, StepPublished, SwallowPublished, EnvironmentPublished
        DEF Next

\* No cache, open transaction or answer ever holds a topic whose row was not
\* published when it was read, for any number of clients and workers.
THEOREM OnlyPublishedRowsServed == Spec => []OnlyPublishedRows
<1>1. PublishedInv => OnlyPublishedRows
  BY DEF PublishedInv
<1> QED BY <1>1, PublishedInit, PublishedNext, PTL DEF Spec

-----------------------------------------------------------------------------
(* Only a failed cache statement loses an acknowledged write.              *)

\* The steps of a write between its repository call and its commit, and those
\* of the bootstrap rebuild that follows a bulk_upsert_fast.
WriteSteps == {"clear", "invalidate_bootstrap", "delete_bootstrap", "invalidate_topics",
               "delete_topics", "commit"}
AfterSteps == {"head", "tail", "set_cached", "store"}

\* A client at step p, last answered with s, whose job is j and whose pending
\* topic rows are d, in the history h: between the repository call and the
\* commit the transaction holds the whole change, afterwards the history does,
\* or a failed statement on app_cache has taken it away.
DurableAt(h, p, s, j, d) ==
  /\ p # "idle" => s = "none"
  /\ j.op \in Writes =>
       /\ \/ p \in {"idle", "write"} \cup WriteSteps
          \/ j.op = "bulk_upsert_fast" /\ p \in AfterSteps
       /\ p \in WriteSteps =>
            j.swallowed \/ \A t \in DOMAIN j.change : t \in DOMAIN d /\ d[t] = j.change[t]
       /\ p \in AfterSteps \/ s = "done" => j.swallowed \/ Committed(h, j)

\* The inductive strengthening of OnlySwallowedWritesAreLost.
DurableInv ==
  /\ TypeInv
  /\ \A c \in Clients : DurableAt(commits, pc[c], status[c], job[c], draft[c])

\* A longer history keeps what was committed.
LEMMA CommittedKept ==
  ASSUME NEW h, NEW g, Len(h) \in Nat, Len(g) \in Nat, Len(h) <= Len(g),
         \A i \in 1..Len(h) : g[i] = h[i],
         NEW j, j.since \in 1..Len(h), Committed(h, j)
  PROVE  Committed(g, j)
<1>1. PICK i \in j.since..Len(h) : \A t \in DOMAIN j.change : h[i][t] = j.change[t]
  BY DEF Committed
<1>2. i \in j.since..Len(g) /\ g[i] = h[i]
  BY <1>1
<1> QED BY <1>1, <1>2 DEF Committed

\* A step of client c keeps the invariant when it does for c itself.
LEMMA DurableStep ==
  ASSUME DurableInv, TypeInv', NEW c \in Clients,
         Len(commits') >= Len(commits),
         \A i \in 1..Len(commits) : commits'[i] = commits[i],
         DurableAt(commits', pc'[c], status'[c], job'[c], draft'[c]),
         \A o \in Clients \ {c} :
           /\ pc'[o] = pc[o] /\ status'[o] = status[o]
           /\ job'[o] = job[o] /\ draft'[o] = draft[o]
  PROVE  DurableInv'
<1>1. Len(commits) \in Nat /\ Len(commits') \in Nat
  BY DEF DurableInv, TypeInv, TypeOK
<1>2. ASSUME NEW o \in Clients \ {c}
      PROVE  DurableAt(commits', pc'[o], status'[o], job'[o], draft'[o])
  <2>1. DurableAt(commits, pc[o], status[o], job[o], draft[o])
    BY DEF DurableInv
  <2>2. job[o].since \in 1..Len(commits)
    BY DEF DurableInv, TypeInv, TypeOK, IsJob
  <2>3. Committed(commits, job[o]) => Committed(commits', job[o])
    BY <1>1, <2>2, CommittedKept
  <2> QED BY <2>1, <2>3 DEF DurableAt
<1> QED BY <1>2 DEF DurableInv

\* The same for a step that commits nothing.
LEMMA DurableQuiet ==
  ASSUME DurableInv, TypeInv', NEW c \in Clients, UNCHANGED database,
         DurableAt(commits, pc'[c], status'[c], job'[c], draft'[c]),
         \A o \in Clients \ {c} :
           /\ pc'[o] = pc[o] /\ status'[o] = status[o]
           /\ job'[o] = job[o] /\ draft'[o] = draft[o]
  PROVE  DurableInv'
BY DurableStep DEF database, DurableInv, TypeInv, TypeOK

\* A request that begins has changed nothing yet.
LEMMA DurableBegin ==
  ASSUME DurableInv, TypeInv', NEW c \in Clients, NEW j, NEW step, Begin(c, j, step),
         j.op \in Writes => step = "write"
  PROVE  DurableInv'
<1>1. /\ pc'[c] = step /\ status'[c] = "none" /\ job'[c] = j
      /\ UNCHANGED database
      /\ \A o \in Clients \ {c} : /\ pc'[o] = pc[o] /\ status'[o] = status[o]
                                 /\ job'[o] = job[o] /\ draft'[o] = draft[o]
  BY DEF Begin, Goto, pending, DurableInv, TypeInv, TypeOK
<1>2. DurableAt(commits, pc'[c], status'[c], job'[c], draft'[c])
  BY <1>1 DEF DurableAt, WriteSteps, AfterSteps
<1> QED BY <1>1, <1>2, DurableQuiet

\* A memory hit leaves the database alone.
LEMMA DurableFetch ==
  ASSUME DurableInv, TypeInv', NEW c \in Clients, NEW j, NEW step, Fetch(c, j, step),
         j.op \notin Writes
  PROVE  DurableInv'
<1>1. CASE Begin(c, j, step)
  BY <1>1, DurableBegin
<1>2. CASE MemoryHit(c, j)
  <2>1. /\ pc'[c] = "idle" /\ job'[c] = j /\ UNCHANGED database
        /\ \A o \in Clients \ {c} : /\ pc'[o] = pc[o] /\ status'[o] = status[o]
                                   /\ job'[o] = job[o] /\ draft'[o] = draft[o]
    BY <1>2 DEF MemoryHit, pending, DurableInv, TypeInv, TypeOK
  <2>2. DurableAt(commits, pc'[c], status'[c], job'[c], draft'[c])
    BY <2>1 DEF DurableAt
  <2> QED BY <2>1, <2>2, DurableQuiet
<1> QED BY <1>1, <1>2 DEF Fetch

\* Starting a request keeps the durability invariant.
LEMMA DurableStart ==
  ASSUME DurableInv, TypeInv', NEW c \in Clients, Start(c)
  PROVE  DurableInv'
<1>1. \A op, w, k, copy : Request(op, w, k, copy).op = op
  BY DEF Request
<1>2. {"get_topic", "topic_tree", "bootstrap", "refresh_bootstrap", "rebuild_bootstrap",
       "rebuild_topics", "clear_bootstrap"} \cap Writes = {}
  BY DEF Writes
<1> QED
  BY <1>1, <1>2, DurableBegin, DurableFetch
     DEF Start, GetTopic, TopicTree, GetBootstrap, WriteTopics, RebuildBootstrap,
         RebuildTopics, ClearBootstrap

\* A commit puts the whole pending change into the history.
LEMMA DurableCommit ==
  ASSUME DurableInv, TypeInv', NEW c \in Clients, CommitSession(c), UNCHANGED job,
         \A o \in Clients \ {c} : pc'[o] = pc[o] /\ status'[o] = status[o],
         \/ pc[c] = "commit" /\ job[c].op \in Writes /\ pc'[c] \in {"idle", "head"}
         \/ pc[c] = "store"  /\ job[c].op \in Writes /\ pc'[c] = "idle"
         \/ job[c].op \notin Writes,
         pc'[c] = "head" => job[c].op = "bulk_upsert_fast",
         pc'[c] # "idle" => status'[c] = "none"
  PROVE  DurableInv'
<1>1. /\ TypeOK /\ job[c].since \in 1..Len(commits)
      /\ IsPartial(job[c].change, Topics, TopicState)
  <2>1. TypeOK
    BY DEF DurableInv, TypeInv
  <2> QED BY <2>1 DEF TypeOK, IsJob
<1>2. /\ Len(commits) \in Nat /\ Len(commits') \in Nat /\ Len(commits') >= Len(commits)
      /\ \A i \in 1..Len(commits) : commits'[i] = commits[i]
  <2>1. commits \in Seq(Content)
    BY <1>1 DEF TypeOK
  <2> QED BY <1>1, <2>1, CommitSessionType
<1>3. Committed(commits, job[c]) => Committed(commits', job[c])
  BY <1>1, <1>2, CommittedKept
<1>4. ASSUME pc[c] = "commit", job[c].op \in Writes, ~job[c].swallowed
      PROVE  Committed(commits', job[c])
  <2>1. \A t \in DOMAIN job[c].change : t \in DOMAIN draft[c] /\ draft[c][t] = job[c].change[t]
    BY <1>4 DEF DurableInv, DurableAt, WriteSteps
  <2>2. commits'[Len(commits')] = Drafted(c)
    <3>1. Drafted(c) \in Content
      BY <1>1, LatestType DEF TypeOK, Drafted, Content, IsPartial
    <3>2. CASE Drafted(c) = Latest
      BY <3>2 DEF CommitSession, Latest
    <3>3. CASE Drafted(c) # Latest
      <4>1. commits' = Append(commits, Drafted(c)) /\ commits \in Seq(Content)
        BY <1>1, <3>3 DEF CommitSession, TypeOK
      <4> QED BY <3>1, <4>1
    <3> QED BY <3>2, <3>3
  <2>3. \A t \in DOMAIN job[c].change : Drafted(c)[t] = job[c].change[t]
    BY <1>1, <2>1 DEF Drafted, IsPartial
  <2>4. Len(commits') \in job[c].since..Len(commits')
    BY <1>1, <1>2
  <2> QED BY <2>2, <2>3, <2>4 DEF Committed
<1>5. DurableAt(commits, pc[c], status[c], job[c], draft[c])
  BY DEF DurableInv
<1>6. DurableAt(commits', pc'[c], status'[c], job'[c], draft'[c])
  BY <1>3, <1>4, <1>5 DEF DurableAt, WriteSteps, AfterSteps
<1>7. \A o \in Clients \ {c} : draft'[o] = draft[o]
  BY <1>1 DEF CommitSession, Rollback, TypeOK
<1> QED BY <1>2, <1>6, <1>7, DurableStep

\* Every step of a request keeps it: a change goes from the draft into the
\* history with the commit, before the request is answered.
LEMMA DurableSteps ==
  ASSUME DurableInv, TypeInv', NEW c \in Clients, Step(c)
  PROVE  DurableInv'
<1>t. TypeOK
  BY DEF DurableInv, TypeInv
<1>c. DurableAt(commits, pc[c], status[c], job[c], draft[c])
  BY DEF DurableInv
\* An answer without a commit.
<1>f. ASSUME NEW answer, NEW d, Finish(c, answer, d), UNCHANGED database,
             answer = "done" => job[c].op \notin Writes
      PROVE  DurableInv'
  <2>1. /\ pc'[c] = "idle" /\ status'[c] = answer /\ job' = job
        /\ \A o \in Clients \ {c} : /\ pc'[o] = pc[o] /\ status'[o] = status[o]
                                   /\ draft'[o] = draft[o]
    BY <1>f, <1>t DEF Finish, Close, Goto, Rollback, TypeOK
  <2>2. DurableAt(commits, pc'[c], status'[c], job'[c], draft'[c])
    BY <1>f, <2>1 DEF DurableAt, WriteSteps, AfterSteps
  <2> QED BY <1>f, <2>1, <2>2, DurableQuiet
\* A step from one program point to the next.
<1>g. ASSUME NEW step, Goto(c, step), pc[c] # "idle", UNCHANGED <<database, status>>,
             UNCHANGED draft \/ job[c].op \notin Writes,
             job'[c].op = job[c].op, job[c].op \in Writes => job'[c] = job[c],
             \A o \in Clients \ {c} : job'[o] = job[o] /\ draft'[o] = draft[o],
             job[c].op \in Writes =>
               \/ pc[c] \in WriteSteps /\ step \in WriteSteps
               \/ pc[c] \in AfterSteps /\ step \in AfterSteps
      PROVE  DurableInv'
  <2>1. /\ pc'[c] = step /\ status'[c] = status[c]
        /\ \A o \in Clients \ {c} : pc'[o] = pc[o] /\ status'[o] = status[o]
    BY <1>g, <1>t DEF Goto, TypeOK
  <2>2. DurableAt(commits, pc'[c], status'[c], job'[c], draft'[c])
    BY <1>g, <1>c, <2>1 DEF DurableAt, WriteSteps, AfterSteps
  <2> QED BY <1>g, <2>1, <2>2, DurableQuiet
<1>w. pc[c] \in {"get_cached", "adopt", "built", "publish", "drop", "list", "next", "raise"}
        => job[c].op \notin Writes
  BY <1>c DEF DurableAt, WriteSteps, AfterSteps
<1>r. job[c].op \in Writes => job[c].op \notin {"rebuild_topics", "rebuild_bootstrap",
                                  "clear_bootstrap", "get_topic", "topic_tree"}
  BY DEF Writes
<1>1. CASE GetCached(c)
  <2>1. PICK step : Goto(c, step)
    BY <1>1 DEF GetCached
  <2> QED BY <1>1, <2>1, <1>g, <1>w DEF GetCached, pending
<1>2. CASE Adopt(c)
  BY <1>2, <1>f, <1>w DEF Adopt, Serve
<1>3. CASE ReadHead(c)
  <2>1. CASE Finish(c, "404", None)
    BY <1>3, <2>1, <1>f DEF ReadHead
  <2>2. CASE Goto(c, "tail") /\ UNCHANGED <<job, todo, status, pending>>
    BY <1>3, <2>2, <1>g DEF ReadHead, pending, AfterSteps
  <2>3. CASE Goto(c, "next") /\ job[c].op = "rebuild_topics" /\ UNCHANGED <<request, status, pending>>
    BY <1>3, <2>3, <1>g, <1>r DEF ReadHead, request, pending
  <2> QED BY <1>3, <2>1, <2>2, <2>3 DEF ReadHead
<1>4. CASE ReadTail(c)
  BY <1>4, <1>g, <1>r DEF ReadTail, pending, AfterSteps
<1>5. CASE Built(c)
  <2>1. CASE \E answer, d : Finish(c, answer, d)
    BY <1>5, <2>1, <1>f, <1>w DEF Built
  <2>2. CASE Goto(c, "set_cached") /\ UNCHANGED <<request, pending, status>>
    BY <1>5, <2>2, <1>g, <1>w DEF Built, request, pending
  <2> QED BY <1>5, <2>1, <2>2 DEF Built, Serve
<1>6. CASE SetCached(c)
  BY <1>6, <1>g, <1>r DEF SetCached, After, request, AfterSteps
<1>7. CASE Store(c) \/ Commit(c)
  <2>1. CommitSession(c) /\ UNCHANGED job
    BY <1>7 DEF Store, Commit, Close
  <2>2. \A o \in Clients \ {c} : pc'[o] = pc[o] /\ status'[o] = status[o]
    BY <1>7, <1>t DEF Store, Commit, Close, Goto, TypeOK
  <2>3. /\ pc'[c] # "idle" => status'[c] = "none"
        /\ pc'[c] = "head" => job[c].op = "bulk_upsert_fast"
    BY <1>7, <1>t, <1>c DEF Store, Commit, Close, Goto, TypeOK, DurableAt
  <2>4. \/ pc[c] = "commit" /\ job[c].op \in Writes /\ pc'[c] \in {"idle", "head"}
        \/ pc[c] = "store"  /\ job[c].op \in Writes /\ pc'[c] = "idle"
        \/ job[c].op \notin Writes
    <3>1. CASE Commit(c)
      BY <3>1, <1>t DEF Commit, Close, Goto, TypeOK
    <3>2. CASE Store(c) /\ job[c].op \in Writes
      <4>1. job[c].op = "bulk_upsert_fast" /\ pc[c] = "store"
        BY <3>2, <1>c DEF Store, DurableAt, WriteSteps
      <4>2. Close(c, "done", None)
        BY <3>2, <4>1 DEF Store
      <4> QED BY <4>1, <4>2, <3>2, <1>t DEF Close, Goto, TypeOK
    <3> QED BY <1>7, <3>1, <3>2
  <2> QED BY <2>1, <2>2, <2>3, <2>4, DurableCommit
<1>8. CASE Publish(c)
  BY <1>8, <1>f, <1>w DEF Publish, Serve
<1>9. CASE Write(c)
  <2>1. PICK change : /\ draft' = [draft EXCEPT ![c] = change]
                      /\ job' = [job EXCEPT ![c].change = change]
    BY <1>9 DEF Write
  <2>2. /\ draft'[c] = change /\ job'[c] = [job[c] EXCEPT !.change = change]
        /\ pc'[c] = "clear" /\ status'[c] = status[c]
        /\ \A o \in Clients \ {c} : /\ pc'[o] = pc[o] /\ status'[o] = status[o]
                                   /\ job'[o] = job[o] /\ draft'[o] = draft[o]
    BY <1>9, <2>1, <1>t DEF Write, Goto, TypeOK
  <2>3. job'[c].change = change /\ job'[c].op = job[c].op
    BY <2>2, <1>t DEF TypeOK, IsJob
  <2>4. pc[c] = "write" /\ status[c] = "none"
    BY <1>9, <1>c DEF Write, DurableAt
  <2>5. DurableAt(commits, pc'[c], status'[c], job'[c], draft'[c])
    BY <2>2, <2>3, <2>4 DEF DurableAt, WriteSteps, AfterSteps
  <2> QED BY <1>9, <2>2, <2>5, DurableQuiet DEF Write
<1>10. CASE Refuse(c)
  BY <1>10, <1>f DEF Refuse
<1>11. CASE ClearMemory(c)
  BY <1>11, <1>g DEF ClearMemory, request, pending, WriteSteps
<1>12. CASE InvalidateBootstrap(c) \/ InvalidateTopics(c) \/ DeleteRow(c)
  <2>1. PICK step : /\ Goto(c, step)
                    /\ job[c].op \in Writes => step \in WriteSteps
    BY <1>12, <1>r DEF InvalidateBootstrap, InvalidateTopics, Invalidate, DeleteRow, Deleting,
                       After, WriteSteps
  <2>2. /\ UNCHANGED <<database, memory, job, doc, draft, status>> /\ pc[c] \in WriteSteps
    BY <1>12 DEF InvalidateBootstrap, InvalidateTopics, Invalidate, DeleteRow, Deleting,
                 pending, WriteSteps
  <2>3. pc[c] # "idle"
    BY <2>2 DEF WriteSteps
  <2> QED BY <2>1, <2>2, <2>3, <1>g
<1>13. CASE DropMemory(c)
  <2>1. CASE Finish(c, "done", None)
    BY <1>13, <2>1, <1>f, <1>w DEF DropMemory
  <2>2. CASE Goto(c, "list") /\ UNCHANGED <<request, pending, status>>
    BY <1>13, <2>2, <1>g, <1>w DEF DropMemory, request, pending
  <2> QED BY <1>13, <2>1, <2>2 DEF DropMemory
<1>14. CASE ListTopics(c)
  BY <1>14, <1>g, <1>w DEF ListTopics, pending
<1>15. CASE NextTopic(c)
  <2>1. /\ job'[c].op = job[c].op
        /\ \A o \in Clients \ {c} : job'[o] = job[o]
    BY <1>15, <1>t DEF NextTopic, TypeOK, IsJob
  <2>2. PICK step : Goto(c, step)
    BY <1>15 DEF NextTopic
  <2> QED BY <1>15, <2>1, <2>2, <1>g, <1>w DEF NextTopic, pending
<1>16. CASE Raise(c)
  <2>1. \A o \in Clients \ {c} : draft'[o] = draft[o]
    BY <1>16, <1>t DEF Raise, Rollback, TypeOK
  <2> QED BY <1>16, <2>1, <1>g, <1>w DEF Raise, request
<1> QED BY <1>1, <1>2, <1>3, <1>4, <1>5, <1>6, <1>7, <1>8, <1>9, <1>10, <1>11,
           <1>12, <1>13, <1>14, <1>15, <1>16 DEF Step

\* What a failed statement on app_cache takes away is marked.
LEMMA DurableSwallow ==
  ASSUME DurableInv, TypeInv', NEW c \in Clients, Swallow(c)
  PROVE  DurableInv'
<1>t. TypeOK /\ IsJob(job[c]) /\ DOMAIN job = Clients
  BY DEF DurableInv, TypeInv, TypeOK
<1>c. DurableAt(commits, pc[c], status[c], job[c], draft[c])
  BY DEF DurableInv
<1>1. /\ job'[c] = [job[c] EXCEPT !.swallowed = @ \/ DOMAIN draft[c] # {}]
      /\ \A o \in Clients \ {c} : job'[o] = job[o]
  BY <1>t DEF Swallow
<1>2. /\ job'[c].op = job[c].op /\ job'[c].change = job[c].change
      /\ job'[c].since = job[c].since
      /\ job'[c].swallowed = (job[c].swallowed \/ DOMAIN draft[c] # {})
  BY <1>1, <1>t DEF IsJob
<1>3. Committed(commits, job[c]) => Committed(commits, job'[c])
  BY <1>2 DEF Committed
<1>4. /\ UNCHANGED database
      /\ pc'[c] = After(c) /\ status'[c] = status[c] /\ pc[c] \in CacheSteps
      /\ \A o \in Clients \ {c} : /\ pc'[o] = pc[o] /\ status'[o] = status[o]
                                 /\ draft'[o] = draft[o]
  BY <1>t DEF Swallow, Goto, Rollback, TypeOK
<1>5. job[c].op \in Writes =>
        \/ pc[c] \in WriteSteps /\ After(c) \in WriteSteps
        \/ pc[c] \in AfterSteps /\ After(c) \in AfterSteps
  BY <1>4, <1>c DEF DurableAt, CacheSteps, After, WriteSteps, AfterSteps, Writes
<1>6. After(c) # "idle" /\ status[c] = "none"
  BY <1>4, <1>c DEF DurableAt, CacheSteps, After
<1>7. job[c].op \in Writes /\ pc[c] \in WriteSteps =>
        job'[c].swallowed \/ DOMAIN job'[c].change = {}
  BY <1>2, <1>c DEF DurableAt
<1>8. DurableAt(commits, pc'[c], status'[c], job'[c], draft'[c])
  BY <1>2, <1>3, <1>4, <1>5, <1>6, <1>7, <1>c DEF DurableAt, WriteSteps, AfterSteps
<1> QED BY <1>1, <1>4, <1>8, DurableQuiet

\* A lost request is not acknowledged.
LEMMA DurableEnvironment ==
  ASSUME DurableInv, TypeInv', Environment
  PROVE  DurableInv'
<1>1. UNCHANGED <<commits, job>>
  BY DEF Environment, Expire, Restart, Migrate, database, request
<1>2. ASSUME NEW c \in Clients
      PROVE  \/ pc'[c] = pc[c] /\ status'[c] = status[c] /\ draft'[c] = draft[c]
             \/ pc'[c] = "idle" /\ status'[c] = "lost"
  BY <1>2 DEF Environment, Expire, Restart, Migrate, pending
<1>3. \A c \in Clients : DurableAt(commits, pc'[c], status'[c], job[c], draft'[c])
  BY <1>2 DEF DurableInv, DurableAt, WriteSteps, AfterSteps
<1> QED BY <1>1, <1>3 DEF DurableInv

\* DurableInv is inductive.
LEMMA DurableNext == DurableInv /\ [Next]_vars => DurableInv'
<1> SUFFICES ASSUME DurableInv, [Next]_vars PROVE DurableInv'
  OBVIOUS
<1>1. TypeInv'
  BY TypeNext DEF DurableInv
<1>2. CASE UNCHANGED vars
  BY <1>1, <1>2 DEF vars, database, request, pending, DurableInv
<1> QED BY <1>1, <1>2, DurableStart, DurableSteps, DurableSwallow, DurableEnvironment DEF Next

\* A write that was acknowledged is in the committed history unless a failed
\* statement on app_cache took it away, for any number of clients and workers,
\* whatever workers die and whether or not the app_cache table exists.
THEOREM AcknowledgedWritesSurvive == Spec => []OnlySwallowedWritesAreLost
<1>1. Init => DurableInv
  BY TypeInit DEF Init, DurableInv, DurableAt, Writes, WriteSteps
<1>2. DurableInv => OnlySwallowedWritesAreLost
  BY DEF DurableInv, DurableAt, OnlySwallowedWritesAreLost
<1> QED BY <1>1, <1>2, DurableNext, PTL DEF Spec
=============================================================================
