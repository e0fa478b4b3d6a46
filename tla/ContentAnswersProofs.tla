------------------------ MODULE ContentAnswersProofs ------------------------
(***************************************************************************)
(* Proofs about what requests are answered with: that a 404 was true and a *)
(* forced refresh is current, whatever runs beside them, and that a single *)
(* caller never meets an outdated document.                                *)
(***************************************************************************)
EXTENDS ContentCacheProofs

\* The steps of a refresh, and those at which it has a document.
RefreshSteps == {"head", "tail", "set_cached", "store", "publish"}

\* A client at step p, last answered with s, whose job is j and whose document
\* is d, in the history h: a request under way has no answer yet, a 404 is
\* backed by the history, and a refresh never looks into a cache.
AnswerAt(h, p, s, j, d) ==
  /\ p # "idle" => s = "none"
  /\ s = "404" => \E i \in j.since..Len(h) : h[i][j.key].phase # "published"
  /\ j.op = "refresh_bootstrap" =>
       /\ p \in {"idle"} \cup RefreshSteps
       /\ p \in RefreshSteps \ {"head"} \/ s = "200" => d.head >= j.since

AnswerInv ==
  /\ TypeInv
  /\ \A c \in Clients : AnswerAt(commits, pc[c], status[c], job[c], doc[c])

-----------------------------------------------------------------------------
(* What any step does.                                                     *)

\* A request begins where no other is under way, and touches no table, no memory
\* and no session.
LEMMA StartFrame ==
  ASSUME NEW c \in Clients, Start(c)
  PROVE  UNCHANGED <<database, memory, todo, pending>> /\ pc[c] = "idle"
<1>1. ASSUME NEW j, NEW step, Begin(c, j, step)
      PROVE  UNCHANGED <<database, memory, todo, pending>> /\ pc[c] = "idle"
  BY <1>1 DEF Begin
<1>2. ASSUME NEW j, MemoryHit(c, j)
      PROVE  UNCHANGED <<database, memory, todo, pending>> /\ pc[c] = "idle"
  BY <1>2 DEF MemoryHit
<1> QED BY <1>1, <1>2 DEF Start, GetTopic, TopicTree, GetBootstrap, WriteTopics,
           RebuildBootstrap, RebuildTopics, ClearBootstrap, Fetch

\* What a client does.
Act(c) == Start(c) \/ Step(c) \/ Swallow(c)

\* It commits a session or leaves the tables alone.
LEMMA OnlyCommitsWrite ==
  ASSUME NEW c \in Clients, Act(c)
  PROVE  \/ UNCHANGED database
         \/ CommitSession(c) /\ (Store(c) \/ Commit(c))
<1>1. CASE Start(c)
  BY <1>1, StartFrame
<1>2. CASE Step(c)
  BY <1>2 DEF Step, GetCached, Adopt, ReadHead, ReadTail, Built, SetCached, Store, Publish,
              Write, Refuse, ClearMemory, InvalidateBootstrap, InvalidateTopics, Invalidate,
              DeleteRow, Commit, DropMemory, ListTopics, NextTopic, Raise
<1>3. CASE Swallow(c)
  BY <1>3 DEF Swallow
<1> QED BY <1>1, <1>2, <1>3 DEF Act

\* The history only grows.
LEMMA HistoryGrows ==
  ASSUME TypeOK, [Next]_vars
  PROVE  /\ Len(commits) \in Nat /\ Len(commits') \in Nat /\ Len(commits') >= Len(commits)
         /\ \A i \in 1..Len(commits) : commits'[i] = commits[i]
<1>1. commits \in Seq(Content) /\ Len(commits) \in Nat
  BY DEF TypeOK
<1>2. CASE commits' = commits
  BY <1>1, <1>2
<1>3. ASSUME NEW c \in Clients, CommitSession(c)
      PROVE  /\ Len(commits') \in Nat /\ Len(commits') >= Len(commits)
             /\ \A i \in 1..Len(commits) : commits'[i] = commits[i]
  BY <1>3, CommitSessionType
<1>4. CASE \E c \in Clients : Act(c)
  BY <1>1, <1>2, <1>3, <1>4, OnlyCommitsWrite DEF database
<1>5. CASE Environment
  BY <1>2, <1>5 DEF Environment, Expire, Restart, Migrate, database
<1>6. CASE UNCHANGED vars
  BY <1>2, <1>6 DEF vars, database
<1> QED BY <1>1, <1>4, <1>5, <1>6 DEF Next, Act

\* A step of one client leaves the sessions of the others as they are, except
\* for the rows that their DELETEs have still to lock.
Same(o) ==
  /\ pc'[o] = pc[o] /\ status'[o] = status[o] /\ job'[o] = job[o] /\ doc'[o] = doc[o]
  /\ draft'[o] = draft[o] /\ rows'[o] = rows[o]

LEMMA StepIsLocal ==
  ASSUME TypeOK, NEW c \in Clients, Act(c), NEW o \in Clients \ {c}
  PROVE  Same(o)
<1> USE DEF Same, TypeOK
<1>e. ASSUME NEW answer, NEW d, Close(c, answer, d) PROVE Same(o)
  BY <1>e DEF Close, Rollback, Goto
<1>f. ASSUME NEW answer, NEW d, Finish(c, answer, d) PROVE Same(o)
  BY <1>f, <1>e DEF Finish
<1>b. ASSUME NEW j, NEW step, Begin(c, j, step) PROVE Same(o)
  BY <1>b DEF Begin, Goto, pending
<1>h. ASSUME NEW j, MemoryHit(c, j) PROVE Same(o)
  BY <1>h DEF MemoryHit, pending
<1>1. CASE Start(c)
  BY <1>1, <1>b, <1>h DEF Start, GetTopic, TopicTree, GetBootstrap, WriteTopics, RebuildBootstrap,
              RebuildTopics, ClearBootstrap, Fetch
<1>2. CASE GetCached(c) \/ ReadTail(c) \/ ListTopics(c) \/ ClearMemory(c)
  BY <1>2 DEF GetCached, ReadTail, ListTopics, ClearMemory, Goto, pending, request
<1>3. CASE Adopt(c) \/ Publish(c) \/ Refuse(c)
  BY <1>3, <1>f DEF Adopt, Publish, Refuse, Serve
<1>4. CASE ReadHead(c)
  BY <1>4, <1>f DEF ReadHead, Goto, pending, request
<1>5. CASE Built(c)
  BY <1>5, <1>f DEF Built, Serve, Goto, pending, request
<1>6. CASE SetCached(c) \/ Raise(c)
  BY <1>6 DEF SetCached, PutRow, Raise, Rollback, Goto, request
<1>7. CASE Store(c) \/ Commit(c)
  <2>1. CASE \E answer, d : Close(c, answer, d)
    BY <2>1, <1>e
  <2>2. CASE CommitSession(c) /\ UNCHANGED <<job, doc, status>> /\ \E step : Goto(c, step)
    BY <2>2 DEF CommitSession, Rollback, Goto
  <2> QED BY <1>7, <2>1, <2>2 DEF Store, Commit
<1>8. CASE Write(c)
  <2>1. PICK change : /\ draft' = [draft EXCEPT ![c] = change]
                      /\ job' = [job EXCEPT ![c].change = change]
    BY <1>8 DEF Write
  <2> QED BY <1>8, <2>1 DEF Write, Goto
<1>9. CASE InvalidateBootstrap(c) \/ InvalidateTopics(c)
  BY <1>9 DEF InvalidateBootstrap, InvalidateTopics, Invalidate, Goto, pending
<1>10. CASE DeleteRow(c)
  BY <1>10 DEF DeleteRow, PutRow, Goto
<1>11. CASE Swallow(c)
  BY <1>11 DEF Swallow, Rollback, Goto
<1>12. CASE DropMemory(c)
  BY <1>12, <1>f DEF DropMemory, Goto, pending, request
<1>13. CASE NextTopic(c)
  BY <1>13 DEF NextTopic, Goto, pending
<1> QED BY <1>1, <1>2, <1>3, <1>4, <1>5, <1>6, <1>7, <1>8, <1>9, <1>12, <1>13, <1>10, <1>11
        DEF Step, Act

\* Expiry, restarts and the migration leave a session as it is or end it
\* without an answer.
Lost(c) ==
  /\ pc'[c] = "idle" /\ status'[c] = "lost" /\ job'[c] = job[c] /\ doc'[c] = None
  /\ draft'[c] = NoDraft /\ rows'[c] = NoRows

LEMMA EnvironmentLoses ==
  ASSUME TypeOK, Environment, NEW c \in Clients
  PROVE  (Same(c) /\ todo'[c] = todo[c]) \/ Lost(c)
<1>1. CASE \E w \in Workers, k \in Keys : Expire(w, k)
  BY <1>1 DEF Expire, Same, request, pending
<1>2. CASE \E w \in Workers : Restart(w)
  BY <1>2 DEF Restart, Same, Lost, TypeOK
<1>3. CASE Migrate
  BY <1>3 DEF Migrate, Same, request, pending
<1> QED BY <1>1, <1>2, <1>3 DEF Environment

-----------------------------------------------------------------------------
(* A 404 was true, and a refresh is current.                               *)

\* A longer history keeps what was answered.
LEMMA AnswerKept ==
  ASSUME NEW h, NEW g, Len(h) \in Nat, Len(g) \in Nat, Len(h) <= Len(g),
         \A i \in 1..Len(h) : g[i] = h[i],
         NEW p, NEW s, NEW j, NEW d, j.since \in 1..Len(h), AnswerAt(h, p, s, j, d)
  PROVE  AnswerAt(g, p, s, j, d)
<1>1. ASSUME NEW i \in j.since..Len(h)
      PROVE  i \in j.since..Len(g) /\ g[i] = h[i]
  BY <1>1
<1> QED BY <1>1 DEF AnswerAt

\* The session of a client that begins a request or is answered from memory.
LEMMA StartAnswers ==
  ASSUME AnswerInv, TypeInv', NEW c \in Clients, Start(c)
  PROVE  AnswerAt(commits', pc'[c], status'[c], job'[c], doc'[c])
<1>t. TypeOK
  BY DEF AnswerInv, TypeInv
<1>1. \A op, w, k, copy : Request(op, w, k, copy).op = op
  BY DEF Request
<1>2. ASSUME NEW j, NEW step, Begin(c, j, step),
             j.op = "refresh_bootstrap" => step = "head"
      PROVE  AnswerAt(commits', pc'[c], status'[c], job'[c], doc'[c])
  <2>1. pc'[c] = step /\ status'[c] = "none" /\ job'[c] = j
    BY <1>2, <1>t DEF Begin, Goto, TypeOK
  <2> QED BY <1>2, <2>1 DEF AnswerAt, RefreshSteps
<1>3. ASSUME NEW j, MemoryHit(c, j), j.op # "refresh_bootstrap"
      PROVE  AnswerAt(commits', pc'[c], status'[c], job'[c], doc'[c])
  <2>1. pc'[c] = "idle" /\ status'[c] \in {"200", "304"} /\ job'[c] = j
    BY <1>3, <1>t DEF MemoryHit, TypeOK
  <2> QED BY <1>3, <2>1 DEF AnswerAt
<1> QED BY <1>1, <1>2, <1>3
        DEF Start, GetTopic, TopicTree, GetBootstrap, WriteTopics, RebuildBootstrap,
            RebuildTopics, ClearBootstrap, Fetch, Writes

\* The session of a client whose request takes a step.
LEMMA StepAnswers ==
  ASSUME AnswerInv, TypeInv', NEW c \in Clients, Step(c)
  PROVE  AnswerAt(commits', pc'[c], status'[c], job'[c], doc'[c])
<1>t. TypeOK
  BY DEF AnswerInv, TypeInv
<1>a. AnswerAt(commits, pc[c], status[c], job[c], doc[c])
  BY DEF AnswerInv
<1>b. job[c].op = "refresh_bootstrap" => pc[c] \in {"idle"} \cup RefreshSteps
  BY <1>a DEF AnswerAt
<1>h. job[c].op = "refresh_bootstrap" /\ pc[c] \in RefreshSteps \ {"head"} => doc[c].head >= job[c].since
  BY <1>a DEF AnswerAt
<1>s. pc[c] # "idle" => status[c] = "none"
  BY <1>a DEF AnswerAt
<1>n. job[c].since \in 1..Len(commits) /\ Len(commits) \in Nat /\ Now.head = Len(commits)
  BY <1>t DEF TypeOK, IsJob, Now
\* An answer other than 404, with the document if it is a refresh's.
<1>f. ASSUME NEW answer, NEW d, Close(c, answer, d), answer # "404",
             job[c].op = "refresh_bootstrap" /\ answer = "200" => d.head >= job[c].since
      PROVE  AnswerAt(commits', pc'[c], status'[c], job'[c], doc'[c])
  <2>1. pc'[c] = "idle" /\ status'[c] = answer /\ doc'[c] = d /\ job'[c] = job[c]
    BY <1>f, <1>t DEF Close, Goto, TypeOK
  <2> QED BY <1>f, <2>1 DEF AnswerAt, RefreshSteps
\* A step to another place of a request that is no refresh.
<1>g. ASSUME NEW step, Goto(c, step), UNCHANGED status, pc[c] # "idle",
             job'[c].op = job[c].op, job[c].op # "refresh_bootstrap"
      PROVE  AnswerAt(commits', pc'[c], status'[c], job'[c], doc'[c])
  <2>1. pc'[c] = step /\ status'[c] = "none"
    BY <1>g, <1>t, <1>s DEF Goto, TypeOK
  <2> QED BY <1>g, <2>1 DEF AnswerAt
\* A step of a request that has its document or gets it.
<1>r. ASSUME NEW step, Goto(c, step), UNCHANGED <<status, job>>, pc[c] # "idle",
             job[c].op = "refresh_bootstrap" =>
               step \in RefreshSteps \ {"head"} /\ doc'[c].head >= job[c].since
      PROVE  AnswerAt(commits', pc'[c], status'[c], job'[c], doc'[c])
  <2>1. pc'[c] = step /\ status'[c] = "none" /\ job'[c] = job[c]
    BY <1>r, <1>t, <1>s DEF Goto, TypeOK
  <2> QED BY <1>r, <2>1 DEF AnswerAt
<1>1. CASE GetCached(c)
  BY <1>1, <1>b, <1>g DEF GetCached, After, RefreshSteps
<1>2. CASE Adopt(c)
  <2>1. PICK answer \in {"200", "304"} : Finish(c, answer, doc[c])
    BY <1>2 DEF Adopt, Serve
  <2> QED BY <1>2, <2>1, <1>b, <1>f DEF Adopt, Finish, RefreshSteps
<1>3. CASE ReadHead(c)
  <2>1. CASE Finish(c, "404", None) /\ job[c].key \in Topics /\ job[c].key \notin Live(Len(commits))
    <3>1. pc'[c] = "idle" /\ status'[c] = "404" /\ job'[c] = job[c] /\ UNCHANGED commits
      BY <1>3, <2>1, <1>t DEF Finish, Close, Goto, TypeOK, ReadHead, database
    <3>2. commits[Len(commits)][job[c].key].phase # "published"
      BY <2>1 DEF Live
    <3>3. Len(commits) \in job[c].since..Len(commits)
      BY <1>n
    <3> QED BY <3>1, <3>2, <3>3 DEF AnswerAt, RefreshSteps
  <2>2. CASE doc' = [doc EXCEPT ![c] = Now] /\ Goto(c, "tail") /\ UNCHANGED <<job, status>>
    <3>1. doc'[c].head >= job[c].since
      BY <2>2, <1>t, <1>n DEF TypeOK
    <3> QED BY <1>3, <2>2, <3>1, <1>r DEF ReadHead, RefreshSteps
  <2>3. CASE Goto(c, "next") /\ job[c].op = "rebuild_topics" /\ UNCHANGED <<job, status>>
    BY <1>3, <2>3, <1>g DEF ReadHead
  <2> QED BY <1>3, <2>1, <2>2, <2>3 DEF ReadHead, request
<1>4. CASE ReadTail(c)
  <2>1. doc' = [doc EXCEPT ![c].tail = Len(commits)] /\ doc[c] \in Doc
    BY <1>4 DEF ReadTail, AnswerInv, TypeInv, DocSteps
  <2>2. doc'[c] = [doc[c] EXCEPT !.tail = Len(commits)]
    BY <2>1, <1>t DEF TypeOK
  <2>3. doc'[c].head = doc[c].head
    BY <2>1, <2>2 DEF Doc
  <2>4. Goto(c, IF job[c].op \in {"get_topic", "topic_tree"} THEN "built" ELSE "set_cached")
        /\ UNCHANGED <<status, job>> /\ pc[c] = "tail"
    BY <1>4 DEF ReadTail
  <2>5. job[c].op = "refresh_bootstrap" =>
          /\ Goto(c, "set_cached") /\ doc'[c].head >= job[c].since
    BY <2>3, <2>4, <1>h DEF RefreshSteps
  <2> QED BY <2>4, <2>5, <1>r DEF RefreshSteps
<1>5. CASE Built(c)
  <2>1. job[c].op # "refresh_bootstrap"
    BY <1>5, <1>b DEF Built, RefreshSteps
  <2>2. CASE \E answer \in {"200", "304"} : \E d : Finish(c, answer, d)
    BY <2>1, <2>2, <1>f DEF Finish
  <2>3. CASE Goto(c, "set_cached") /\ UNCHANGED <<request, status>>
    BY <1>5, <2>1, <2>3, <1>g DEF Built, request
  <2> QED BY <1>5, <2>2, <2>3 DEF Built, Serve
<1>6. CASE SetCached(c)
  BY <1>6, <1>h, <1>r DEF SetCached, After, request, RefreshSteps
<1>7. CASE Store(c)
  <2>1. pc[c] = "store"
    BY <1>7 DEF Store
  <2>2. CASE job[c].op = "get_topic" /\ Close(c, "200", doc[c])
    BY <2>2, <1>f
  <2>3. CASE Close(c, "done", None)
    BY <2>3, <1>f
  <2>4. CASE job[c].op = "rebuild_bootstrap" /\ Goto(c, "drop") /\ UNCHANGED <<job, doc, status>>
    BY <2>1, <2>4, <1>g
  <2>5. CASE Goto(c, "publish") /\ UNCHANGED <<job, doc, status>>
    BY <2>1, <2>5, <1>h, <1>r DEF RefreshSteps
  <2> QED BY <1>7, <2>2, <2>3, <2>4, <2>5 DEF Store
<1>8. CASE Publish(c)
  <2>1. PICK answer \in {"200", "304"} : Finish(c, answer, doc[c])
    BY <1>8 DEF Publish, Serve
  <2> QED BY <1>8, <2>1, <1>h, <1>f DEF Publish, Finish, RefreshSteps
<1>9. CASE Write(c)
  <2>1. PICK change : job' = [job EXCEPT ![c].change = change]
    BY <1>9 DEF Write
  <2>2. job'[c].op = job[c].op
    BY <2>1, <1>t DEF TypeOK, IsJob
  <2> QED BY <1>9, <2>2, <1>b, <1>g DEF Write, RefreshSteps
<1>10. CASE Refuse(c)
  BY <1>10, <1>f DEF Refuse, Finish
<1>11. CASE ClearMemory(c)
  BY <1>11, <1>b, <1>g DEF ClearMemory, request, RefreshSteps
<1>12. CASE InvalidateBootstrap(c) \/ InvalidateTopics(c) \/ DeleteRow(c)
  <2>1. PICK step : Goto(c, step)
    BY <1>12 DEF InvalidateBootstrap, InvalidateTopics, Invalidate, DeleteRow
  <2>2. UNCHANGED <<status, job>> /\ pc[c] \notin {"idle"} \cup RefreshSteps
    BY <1>12 DEF InvalidateBootstrap, InvalidateTopics, Invalidate, DeleteRow, Deleting, RefreshSteps
  <2> QED BY <2>1, <2>2, <1>b, <1>g
<1>13. CASE Commit(c)
  <2>1. pc[c] = "commit" /\ job[c].op # "refresh_bootstrap"
    BY <1>13, <1>b DEF Commit, RefreshSteps
  <2> QED BY <1>13, <2>1, <1>f, <1>g DEF Commit
<1>14. CASE DropMemory(c)
  <2>1. pc[c] = "drop" /\ job[c].op # "refresh_bootstrap"
    BY <1>14, <1>b DEF DropMemory, RefreshSteps
  <2> QED BY <1>14, <2>1, <1>f, <1>g DEF DropMemory, Finish, request
<1>15. CASE ListTopics(c)
  BY <1>15, <1>b, <1>g DEF ListTopics, RefreshSteps
<1>16. CASE NextTopic(c)
  <2>1. job'[c].op = job[c].op
    BY <1>16, <1>t DEF NextTopic, TypeOK, IsJob
  <2>2. PICK step : Goto(c, step)
    BY <1>16 DEF NextTopic
  <2> QED BY <1>16, <2>1, <2>2, <1>b, <1>g DEF NextTopic, RefreshSteps
<1>17. CASE Raise(c)
  BY <1>17, <1>b, <1>g DEF Raise, request, RefreshSteps
<1> QED BY <1>1, <1>2, <1>3, <1>4, <1>5, <1>6, <1>7, <1>8, <1>9, <1>10, <1>11,
           <1>12, <1>13, <1>14, <1>15, <1>16, <1>17 DEF Step

\* The session of a client whose statement on app_cache fails.
LEMMA SwallowAnswers ==
  ASSUME AnswerInv, TypeInv', NEW c \in Clients, Swallow(c)
  PROVE  AnswerAt(commits', pc'[c], status'[c], job'[c], doc'[c])
<1>t. TypeOK /\ IsJob(job[c]) /\ DOMAIN job = Clients
  BY DEF AnswerInv, TypeInv, TypeOK
<1>a. AnswerAt(commits, pc[c], status[c], job[c], doc[c])
  BY DEF AnswerInv
<1>1. job'[c].op = job[c].op /\ job'[c].since = job[c].since
  BY <1>t DEF Swallow, IsJob
<1>2. /\ pc'[c] = After(c) /\ status'[c] = status[c] /\ doc'[c] = doc[c]
      /\ pc[c] \in CacheSteps
  BY <1>t DEF Swallow, Goto, TypeOK
<1>3. status[c] = "none" /\ After(c) # "idle"
  BY <1>a, <1>2 DEF AnswerAt, CacheSteps, After
<1>4. job[c].op = "refresh_bootstrap" => After(c) = "store" /\ pc[c] = "set_cached"
  BY <1>a, <1>2 DEF AnswerAt, RefreshSteps, CacheSteps, After
<1> QED BY <1>a, <1>1, <1>2, <1>3, <1>4 DEF AnswerAt, RefreshSteps

LEMMA AnswerNext == AnswerInv /\ [Next]_vars => AnswerInv'
<1> SUFFICES ASSUME AnswerInv, [Next]_vars PROVE AnswerInv'
  OBVIOUS
<1>1. TypeOK /\ TypeInv'
  BY TypeNext DEF AnswerInv, TypeInv
<1>2. /\ Len(commits) \in Nat /\ Len(commits') \in Nat /\ Len(commits') >= Len(commits)
      /\ \A i \in 1..Len(commits) : commits'[i] = commits[i]
  BY <1>1, HistoryGrows
<1>3. ASSUME NEW c \in Clients, Same(c)
      PROVE  AnswerAt(commits', pc'[c], status'[c], job'[c], doc'[c])
  <2>1. AnswerAt(commits, pc[c], status[c], job[c], doc[c]) /\ job[c].since \in 1..Len(commits)
    BY <1>1 DEF AnswerInv, TypeOK, IsJob
  <2>2. AnswerAt(commits', pc[c], status[c], job[c], doc[c])
    BY <1>2, <2>1, AnswerKept
  <2> QED BY <1>3, <2>2 DEF Same
<1>4. ASSUME NEW c \in Clients, Lost(c)
      PROVE  AnswerAt(commits', pc'[c], status'[c], job'[c], doc'[c])
  BY <1>4 DEF Lost, AnswerAt, RefreshSteps
<1>5. ASSUME NEW c \in Clients, Act(c)
      PROVE  \A o \in Clients : AnswerAt(commits', pc'[o], status'[o], job'[o], doc'[o])
  BY <1>1, <1>3, <1>5, StepIsLocal, StartAnswers, StepAnswers, SwallowAnswers DEF Act
<1>6. CASE Environment
  BY <1>1, <1>3, <1>4, <1>6, EnvironmentLoses DEF AnswerInv
<1>7. CASE UNCHANGED vars
  <2>1. \A c \in Clients : Same(c)
    BY <1>7 DEF vars, request, pending, Same
  <2> QED BY <1>1, <1>3, <2>1 DEF AnswerInv
<1>8. CASE \E c \in Clients : Act(c)
  BY <1>1, <1>5, <1>8 DEF AnswerInv
<1> QED BY <1>6, <1>7, <1>8 DEF Next, Act

LEMMA AnswersHold == Spec => []AnswerInv
<1>1. Init => AnswerInv
  BY TypeInit DEF Init, AnswerInv, AnswerAt
<1> QED BY <1>1, AnswerNext, PTL DEF Spec

\* A 404 is never wrong: at some moment of the request the topic was not
\* published, whatever was written, cached, expired or restarted meanwhile.
THEOREM NotFoundIsTrue == Spec => []NotFoundWasTrue
<1>1. AnswerInv => NotFoundWasTrue
  BY DEF AnswerInv, AnswerAt, NotFoundWasTrue
<1> QED BY <1>1, AnswersHold, PTL

\* A forced refresh answers with nothing older than the request, whatever the
\* caches hold.
THEOREM RefreshesAreCurrent == Spec => []RefreshIsCurrent
<1>1. AnswerInv => RefreshIsCurrent
  BY DEF AnswerInv, AnswerAt, RefreshIsCurrent
<1> QED BY <1>1, AnswersHold, PTL

-----------------------------------------------------------------------------
(* A single caller.                                                        *)

\* View and Fresh in the history h.
ViewIn(h, k, d) ==
  LET live(i) == {t \in Topics : h[i][t].phase = "published"} IN
  CASE k \in Topics -> <<h[d.head][k], h[d.tail][k].edition>>
    [] k = Tree -> [t \in live(d.head) |-> <<h[d.head][t], h[d.tail][t].edition>>]
    [] OTHER -> <<h[d.head], [t \in live(d.tail) |-> h[d.tail][t]]>>

FreshIn(h, k, d) == ViewIn(h, k, d) = ViewIn(h, k, [head |-> Len(h), tail |-> Len(h)])

TableFresh == \A k \in Keys : app_cache[k] # None => FreshIn(commits, k, app_cache[k])

\* Of one caller, whose pending topic rows are d: they belong to a write
\* between its repository call and its commit, the DELETEs of its transaction
\* cover the rows that the write outdates or have still to lock them, and a
\* build has read the latest content.
Undisturbed(c) ==
  /\ pc[c] # "idle" => status[c] = "none"
  /\ pc[c] \notin WriteSteps => draft[c] = NoDraft
  /\ pc[c] \in {"idle", "write"} => rows[c] = NoRows
  /\ draft[c] # NoDraft \/ pc[c] = "write" => job[c].op \in Writes
  /\ draft[c] # NoDraft => \A k \in DOMAIN rows[c] : rows[c][k] = None
  /\ draft[c] # NoDraft /\ pc[c] = "delete_bootstrap" =>
       (app_cache[Bootstrap] # None => Bootstrap \in todo[c] \cup DOMAIN rows[c])
  /\ draft[c] # NoDraft /\ pc[c] \in {"invalidate_topics", "delete_topics", "commit"} =>
       (app_cache[Bootstrap] # None => Bootstrap \in DOMAIN rows[c])
  /\ draft[c] # NoDraft /\ pc[c] = "delete_topics" =>
       \A k \in Topics \cup {Tree} : app_cache[k] # None => k \in todo[c] \cup DOMAIN rows[c]
  /\ draft[c] # NoDraft /\ pc[c] = "commit" =>
       \A k \in Topics \cup {Tree} : app_cache[k] # None => k \in DOMAIN rows[c]
  /\ \A k \in DOMAIN rows[c] : rows[c][k] # None => FreshIn(commits, k, rows[c][k])
  /\ pc[c] = "adopt" => FreshIn(commits, job[c].key, doc[c])
  /\ pc[c] \in DocSteps \ {"adopt"} => doc[c] = Now

AloneInv ==
  /\ TypeInv
  /\ TableFresh
  /\ \A c \in Clients : Undisturbed(c)

\* What a build reads now is fresh.
LEMMA NowIsFresh == \A k : FreshIn(commits, k, Now)
BY DEF FreshIn, Now

LEMMA FreshIsFreshIn == \A k, d : Fresh(k, d) <=> FreshIn(commits, k, d)
BY DEF Fresh, FreshIn, View, ViewIn, Live, Now

\* A commit leaves only documents that are fresh in the table: a write that
\* changes content has covered every row.
LEMMA AloneCommit ==
  ASSUME AloneInv, NEW c \in Clients, CommitSession(c), pc[c] \in {"commit", "store"}
  PROVE  /\ TableFresh'
         /\ commits' = commits \/ (draft[c] # NoDraft /\ pc[c] = "commit")
<1>t. TypeOK /\ Undisturbed(c) /\ TableFresh
  BY DEF AloneInv, TypeInv
<1>1. app_cache' = [k \in Keys |-> IF k \in DOMAIN rows[c] THEN rows[c][k] ELSE app_cache[k]]
  BY DEF CommitSession
<1>2. CASE draft[c] = NoDraft
  <2>1. Drafted(c) = Latest
    <3>1. Latest \in Content
      BY <1>t, LatestType DEF TypeOK
    <3>2. DOMAIN draft[c] = {}
      BY <1>2 DEF NoDraft
    <3>3. Drafted(c) = [t \in Topics |-> Latest[t]]
      BY <3>2 DEF Drafted
    <3> QED BY <3>1, <3>3 DEF Content
  <2>2. UNCHANGED commits
    BY <2>1 DEF CommitSession
  <2>3. \A k \in Keys : app_cache'[k] # None => FreshIn(commits, k, app_cache'[k])
    BY <1>t, <1>1 DEF Undisturbed, TableFresh
  <2>4. \A k \in Keys : app_cache'[k] # None => FreshIn(commits', k, app_cache'[k])
    BY <2>2, <2>3 DEF Now
  <2> QED BY <2>2, <2>4 DEF TableFresh
<1>3. CASE draft[c] # NoDraft
  <2>1. pc[c] = "commit"
    BY <1>3, <1>t DEF Undisturbed, WriteSteps
  <2>2. \A k \in Keys : app_cache[k] # None => k \in DOMAIN rows[c]
    BY <1>3, <1>t, <2>1 DEF Undisturbed, Keys
  <2>3. \A k \in DOMAIN rows[c] : rows[c][k] = None
    BY <1>3, <1>t DEF Undisturbed
  <2>4. \A k \in Keys : app_cache'[k] = None
    BY <1>1, <2>2, <2>3
  <2> QED BY <1>3, <2>1, <2>4 DEF TableFresh
<1> QED BY <1>2, <1>3

\* The session of the caller after it has begun a request, from scratch or with
\* an answer from memory.
LEMMA AloneStart ==
  ASSUME AloneInv, NEW c \in Clients, Start(c)
  PROVE  Undisturbed(c)'
<1>t. TypeOK /\ Undisturbed(c)
  BY DEF AloneInv, TypeInv
<1>1. UNCHANGED <<database, pending>> /\ pc[c] = "idle"
  BY StartFrame
<1>2. /\ pc'[c] # "idle" => status'[c] = "none"
      /\ pc'[c] \in {"idle", "get_cached", "head", "write", "invalidate_topics", "clear"}
  <2>1. ASSUME NEW j, NEW step, Begin(c, j, step)
        PROVE  status'[c] = "none" /\ pc'[c] = step
    BY <2>1, <1>t DEF Begin, Goto, TypeOK
  <2>2. ASSUME NEW j, MemoryHit(c, j)
        PROVE  pc'[c] = "idle"
    BY <2>2, <1>1 DEF MemoryHit
  <2> QED BY <2>1, <2>2 DEF Start, GetTopic, TopicTree, GetBootstrap, WriteTopics,
             RebuildBootstrap, RebuildTopics, ClearBootstrap, Fetch
<1>3. draft'[c] = NoDraft /\ rows'[c] = NoRows
  BY <1>t, <1>1 DEF Undisturbed, pending, WriteSteps
<1>4. pc'[c] = "write" => job'[c].op \in Writes
  <2>1. ASSUME NEW w, NEW op \in Writes, Begin(c, Request(op, w, Bootstrap, None), "write")
        PROVE  job'[c].op \in Writes
    <3>1. job'[c] = Request(op, w, Bootstrap, None)
      BY <2>1, <1>t DEF Begin, TypeOK
    <3> QED BY <3>1 DEF Request
  <2>2. CASE WriteTopics(c)
    BY <2>1, <2>2 DEF WriteTopics
  <2>3. CASE ~WriteTopics(c)
    <3>1. ASSUME NEW j, NEW step, Begin(c, j, step), step # "write"
          PROVE  pc'[c] # "write"
      BY <3>1, <1>t DEF Begin, Goto, TypeOK
    <3>2. ASSUME NEW j, MemoryHit(c, j)
          PROVE  pc'[c] # "write"
      BY <3>2, <1>1, <1>t DEF MemoryHit
    <3>3. pc'[c] # "write"
      BY <3>1, <3>2, <2>3 DEF Start, GetTopic, TopicTree, GetBootstrap, RebuildBootstrap,
             RebuildTopics, ClearBootstrap, Fetch
    <3> QED BY <3>3
  <2> QED BY <2>2, <2>3
<1> QED BY <1>2, <1>3, <1>4 DEF Undisturbed, WriteSteps, DocSteps, NoRows

\* The session of the caller after a step of its request.
LEMMA AloneStep ==
  ASSUME AloneInv, NEW c \in Clients, Step(c)
  PROVE  Undisturbed(c)'
<1>t. TypeOK /\ Undisturbed(c) /\ TableFresh
  BY DEF AloneInv, TypeInv
<1>k. job[c].key \in Keys /\ doc[c] \in Doc \cup {None}
  BY <1>t DEF TypeOK, IsJob
<1>e. DOMAIN NoRows = {}
  BY DEF NoRows
\* A request that is answered has nothing pending.
<1>f. ASSUME NEW answer, NEW d, Close(c, answer, d)
      PROVE  Undisturbed(c)'
  <2>1. pc'[c] = "idle" /\ draft'[c] = NoDraft /\ rows'[c] = NoRows
    BY <1>f, <1>t DEF Close, Rollback, Goto, TypeOK
  <2> QED BY <2>1, <1>e DEF Undisturbed, WriteSteps, DocSteps
\* A step of a request without a draft.
<1>g. ASSUME NEW step, Goto(c, step), step \notin {"idle", "write"}, pc[c] # "idle", UNCHANGED status,
             UNCHANGED commits, draft'[c] = NoDraft,
             \A k \in DOMAIN rows'[c] : rows'[c][k] # None => FreshIn(commits, k, rows'[c][k]),
             step = "adopt" => FreshIn(commits, job'[c].key, doc'[c]),
             step \in DocSteps \ {"adopt"} => doc'[c] = Now
      PROVE  Undisturbed(c)'
  <2>1. pc'[c] = step /\ status'[c] = "none"
    BY <1>g, <1>t DEF Goto, TypeOK, Undisturbed
  <2>2. \A k \in DOMAIN rows'[c] : rows'[c][k] # None => FreshIn(commits', k, rows'[c][k])
    BY <1>g DEF Now
  <2>3. step = "adopt" => FreshIn(commits', job'[c].key, doc'[c])
    BY <1>g DEF Now
  <2>4. Now' = Now
    BY <1>g DEF Now
  <2> QED BY <1>g, <2>1, <2>2, <2>3, <2>4 DEF Undisturbed
<1>n. pc[c] \notin WriteSteps => draft[c] = NoDraft
  BY <1>t DEF Undisturbed
<1>r. \A k \in DOMAIN rows[c] : rows[c][k] # None => FreshIn(commits, k, rows[c][k])
  BY <1>t DEF Undisturbed
<1>d. pc[c] \in DocSteps \ {"adopt"} => doc[c] = Now
  BY <1>t DEF Undisturbed
<1>w. {"idle", "get_cached", "adopt", "head", "tail", "built", "set_cached", "store", "publish",
       "write", "drop", "list", "next", "raise"} \cap WriteSteps = {}
  BY DEF WriteSteps
<1>1. CASE GetCached(c)
  <2>1. PICK row : /\ row # None => FreshIn(commits, job[c].key, row)
                   /\ doc' = [doc EXCEPT ![c] = row]
                   /\ Goto(c, IF row = None THEN "head" ELSE "adopt")
    BY <1>1, <1>k, <1>t DEF GetCached, After, TableFresh
  <2>2. doc'[c] = row
    BY <2>1, <1>t DEF TypeOK
  <2> QED BY <1>1, <2>1, <2>2, <1>g, <1>n, <1>r, <1>w DEF GetCached, pending, database, DocSteps
<1>2. CASE Adopt(c) \/ Publish(c) \/ Refuse(c)
  BY <1>2, <1>f DEF Adopt, Publish, Refuse, Serve, Finish
<1>3. CASE ReadHead(c)
  <2>1. CASE Finish(c, "404", None)
    BY <2>1, <1>f DEF Finish
  <2>2. CASE doc' = [doc EXCEPT ![c] = Now] /\ Goto(c, "tail") /\ UNCHANGED <<status, pending>>
    <3>1. doc'[c] = Now
      BY <2>2, <1>t DEF TypeOK
    <3> QED BY <1>3, <2>2, <3>1, <1>g, <1>n, <1>r, <1>w DEF ReadHead, pending, database
  <2>3. CASE Goto(c, "next") /\ UNCHANGED <<status, pending>>
    BY <1>3, <2>3, <1>g, <1>n, <1>r, <1>w DEF ReadHead, pending, database, DocSteps
  <2> QED BY <1>3, <2>1, <2>2, <2>3 DEF ReadHead
<1>4. CASE ReadTail(c)
  <2>1. doc[c] = Now /\ doc' = [doc EXCEPT ![c].tail = Len(commits)]
    BY <1>4, <1>d DEF ReadTail, DocSteps
  <2>2. doc'[c] = [Now EXCEPT !.tail = Len(commits)]
    BY <2>1, <1>t DEF TypeOK
  <2>3. doc'[c] = Now
    BY <2>2 DEF Now
  <2> QED BY <1>4, <2>3, <1>g, <1>n, <1>r, <1>w DEF ReadTail, pending, database
<1>5. CASE Built(c)
  <2>1. CASE \E answer, d : Finish(c, answer, d)
    BY <2>1, <1>f DEF Finish
  <2>2. CASE Goto(c, "set_cached") /\ UNCHANGED <<request, pending, status>>
    BY <1>5, <2>2, <1>g, <1>n, <1>r, <1>d, <1>w DEF Built, request, pending, database, DocSteps
  <2> QED BY <1>5, <2>1, <2>2 DEF Built, Serve
<1>6. CASE SetCached(c)
  <2>1. doc[c] = Now /\ draft[c] = NoDraft
    BY <1>6, <1>d, <1>n, <1>w DEF SetCached, DocSteps
  <2>2. \A k \in DOMAIN rows'[c] : rows'[c][k] # None => FreshIn(commits, k, rows'[c][k])
    BY <1>6, <2>1, <1>t, <1>r, NowIsFresh DEF SetCached, PutRow, TypeOK
  <2>3. draft'[c] = NoDraft
    BY <1>6, <2>1 DEF SetCached
  <2> QED BY <1>6, <2>1, <2>2, <2>3, <1>g DEF SetCached, After, request, database, DocSteps
<1>7. CASE Store(c) \/ Commit(c)
  <2>1. CASE \E answer, d : Close(c, answer, d)
    BY <2>1, <1>f
  <2>2. ASSUME NEW step \in {"drop", "publish", "head"}, Goto(c, step), CommitSession(c),
               UNCHANGED <<job, doc, status>>, step = "publish" => pc[c] = "store",
               pc[c] \in {"store", "commit"}
        PROVE  Undisturbed(c)'
    <3>1. draft'[c] = NoDraft /\ rows'[c] = NoRows
      BY <2>2, <1>t DEF CommitSession, Rollback, TypeOK
    <3>2. pc'[c] = step /\ status'[c] = "none" /\ doc' = doc
      BY <2>2, <1>t DEF Goto, TypeOK, Undisturbed
    <3>3. step = "publish" => UNCHANGED commits /\ doc[c] = Now
      BY <2>2, <1>d, AloneCommit DEF DocSteps
    <3>4. step = "publish" => doc'[c] = Now'
      BY <3>2, <3>3 DEF Now
    <3> QED BY <3>1, <3>2, <3>4, <1>e DEF Undisturbed, DocSteps
  <2> QED BY <1>7, <2>1, <2>2 DEF Store, Commit
<1>8. CASE Write(c)
  <2>1. PICK change : /\ draft' = [draft EXCEPT ![c] = change]
                      /\ job' = [job EXCEPT ![c].change = change]
    BY <1>8 DEF Write
  <2>2. job'[c].op = job[c].op
    BY <2>1, <1>t DEF TypeOK, IsJob
  <2>3. rows'[c] = NoRows /\ pc'[c] = "clear" /\ status'[c] = "none"
    BY <1>8, <1>t DEF Write, Goto, TypeOK, Undisturbed
  <2>4. job[c].op \in Writes
    BY <1>8, <1>t DEF Write, Undisturbed
  <2> QED BY <2>2, <2>3, <2>4, <1>e DEF Undisturbed, WriteSteps, DocSteps
<1>9. CASE ClearMemory(c)
  <2>1. /\ pc'[c] = "invalidate_bootstrap" /\ status'[c] = "none"
        /\ UNCHANGED <<draft, rows, job, commits>>
    BY <1>9, <1>t DEF ClearMemory, Goto, TypeOK, Undisturbed, pending, request, database
  <2>2. \A k \in DOMAIN rows'[c] : rows'[c][k] # None => FreshIn(commits', k, rows'[c][k])
    BY <2>1, <1>r DEF Now
  <2> QED BY <2>1, <2>2, <1>t DEF Undisturbed, WriteSteps, DocSteps
\* A step of a DELETE: it covers the rows it has locked.
<1>v. ASSUME NEW step, Goto(c, step), UNCHANGED <<status, job, commits, app_cache, draft>>,
             pc[c] \in WriteSteps \ {"clear", "commit"},
             \A k \in DOMAIN rows'[c] :
                rows'[c][k] = None \/ (k \in DOMAIN rows[c] /\ rows'[c][k] = rows[c][k])
      PROVE  /\ pc'[c] = step /\ status'[c] = "none"
             /\ \A k \in DOMAIN rows'[c] : rows'[c][k] # None => FreshIn(commits', k, rows'[c][k])
             /\ draft'[c] # NoDraft => /\ job'[c].op \in Writes
                                       /\ \A k \in DOMAIN rows'[c] : rows'[c][k] = None
  <2>1. pc'[c] = step /\ status'[c] = "none"
    BY <1>v, <1>t DEF Goto, TypeOK, Undisturbed, WriteSteps
  <2>2. \A k \in DOMAIN rows'[c] : rows'[c][k] # None => FreshIn(commits, k, rows'[c][k])
    BY <1>v, <1>r
  <2>3. \A k \in DOMAIN rows'[c] : rows'[c][k] # None => FreshIn(commits', k, rows'[c][k])
    BY <1>v, <2>2 DEF Now
  <2>4. draft'[c] # NoDraft => job'[c].op \in Writes /\ \A k \in DOMAIN rows'[c] : rows'[c][k] = None
    BY <1>v, <1>t DEF Undisturbed
  <2> QED BY <2>1, <2>3, <2>4
<1>10. CASE InvalidateBootstrap(c)
  <2>1. PICK step \in {"delete_bootstrap", "commit", "invalidate_topics"} :
          /\ Goto(c, step)
          /\ step = "commit" => job[c].op = "clear_bootstrap"
          /\ step = "delete_bootstrap" => (app_cache[Bootstrap] # None => Bootstrap \in todo'[c])
          /\ step = "invalidate_topics" => app_cache[Bootstrap] = None
    BY <1>10, <1>t DEF InvalidateBootstrap, Invalidate, After, TypeOK
  <2>2. /\ UNCHANGED <<status, job, commits, app_cache, draft, rows>>
        /\ pc[c] \in WriteSteps \ {"clear", "commit"}
    BY <1>10 DEF InvalidateBootstrap, Invalidate, database, pending, WriteSteps
  <2>3. /\ pc'[c] = step /\ status'[c] = "none"
        /\ \A k \in DOMAIN rows'[c] : rows'[c][k] # None => FreshIn(commits', k, rows'[c][k])
        /\ draft'[c] # NoDraft => /\ job'[c].op \in Writes
                                  /\ \A k \in DOMAIN rows'[c] : rows'[c][k] = None
    BY <2>1, <2>2, <1>v
  <2>4. draft'[c] # NoDraft => pc'[c] # "commit"
    BY <2>1, <2>2, <2>3 DEF Writes
  <2> QED BY <2>1, <2>2, <2>3, <2>4 DEF Undisturbed, WriteSteps, DocSteps
<1>11. CASE InvalidateTopics(c)
  <2>1. PICK step \in {"delete_topics", "commit", "drop"} :
          /\ Goto(c, step)
          /\ step = "drop" => job[c].op = "rebuild_topics"
          /\ \A k \in Topics \cup {Tree} : app_cache[k] # None =>
               step = "delete_topics" /\ k \in todo'[c]
    BY <1>11, <1>t DEF InvalidateTopics, Invalidate, After, TypeOK
  <2>2. /\ UNCHANGED <<status, job, commits, app_cache, draft, rows>>
        /\ pc[c] \in WriteSteps \ {"clear", "commit"}
    BY <1>11 DEF InvalidateTopics, Invalidate, database, pending, WriteSteps
  <2>3. /\ pc'[c] = step /\ status'[c] = "none"
        /\ \A k \in DOMAIN rows'[c] : rows'[c][k] # None => FreshIn(commits', k, rows'[c][k])
        /\ draft'[c] # NoDraft => /\ job'[c].op \in Writes
                                  /\ \A k \in DOMAIN rows'[c] : rows'[c][k] = None
    BY <2>1, <2>2, <1>v
  <2>4. pc'[c] \notin WriteSteps => draft'[c] = NoDraft
    BY <2>1, <2>2, <2>3 DEF Writes, WriteSteps
  <2>5. draft'[c] # NoDraft => (app_cache'[Bootstrap] # None => Bootstrap \in DOMAIN rows'[c])
    BY <1>11, <2>2, <1>t DEF InvalidateTopics, Undisturbed
  <2> QED BY <2>1, <2>2, <2>3, <2>4, <2>5 DEF Undisturbed, DocSteps
<1>12. CASE DeleteRow(c)
  <2>1. PICK step : /\ Goto(c, step)
                    /\ \/ step = pc[c]
                       \/ step = After(c) /\ todo'[c] = {}
    BY <1>12, <1>t DEF DeleteRow, TypeOK
  <2>2. /\ UNCHANGED <<status, job, commits, app_cache, draft>>
        /\ pc[c] \in {"delete_bootstrap", "delete_topics"}
    BY <1>12 DEF DeleteRow, Deleting, database
  <2>3. /\ \A k \in DOMAIN rows'[c] :
             rows'[c][k] = None \/ (k \in DOMAIN rows[c] /\ rows'[c][k] = rows[c][k])
        /\ DOMAIN rows[c] \subseteq DOMAIN rows'[c]
        /\ todo[c] \cup DOMAIN rows[c] \subseteq todo'[c] \cup DOMAIN rows'[c]
    <3>1. CASE UNCHANGED <<rows, todo>>
      BY <3>1
    <3>2. ASSUME NEW k \in todo[c], PutRow(c, k, None), todo' = [todo EXCEPT ![c] = @ \ {k}]
          PROVE  /\ \A x \in DOMAIN rows'[c] :
                      rows'[c][x] = None \/ (x \in DOMAIN rows[c] /\ rows'[c][x] = rows[c][x])
                 /\ DOMAIN rows[c] \subseteq DOMAIN rows'[c]
                 /\ todo[c] \cup DOMAIN rows[c] \subseteq todo'[c] \cup DOMAIN rows'[c]
      <4>1. rows'[c] = [x \in DOMAIN rows[c] \cup {k} |-> IF x = k THEN None ELSE rows[c][x]]
        BY <3>2, <1>t DEF PutRow, TypeOK
      <4>2. todo'[c] = todo[c] \ {k}
        BY <3>2, <1>t DEF TypeOK
      <4> QED BY <4>1, <4>2
    <3> QED BY <1>12, <3>1, <3>2 DEF DeleteRow
  <2>4. /\ pc'[c] = step /\ status'[c] = "none"
        /\ \A k \in DOMAIN rows'[c] : rows'[c][k] # None => FreshIn(commits', k, rows'[c][k])
        /\ draft'[c] # NoDraft => /\ job'[c].op \in Writes
                                  /\ \A k \in DOMAIN rows'[c] : rows'[c][k] = None
    BY <2>1, <2>2, <2>3, <1>v DEF WriteSteps
  <2>5. draft'[c] # NoDraft =>
          \/ step = pc[c]
          \/ pc[c] = "delete_bootstrap" /\ step = "invalidate_topics" /\ todo'[c] = {}
          \/ pc[c] = "delete_topics" /\ step = "commit" /\ todo'[c] = {}
    BY <2>1, <2>2, <2>4 DEF After, Writes
  <2>6. draft'[c] # NoDraft =>
          IF pc[c] = "delete_bootstrap"
          THEN app_cache[Bootstrap] # None => Bootstrap \in todo'[c] \cup DOMAIN rows'[c]
          ELSE /\ app_cache[Bootstrap] # None => Bootstrap \in DOMAIN rows'[c]
               /\ \A k \in Topics \cup {Tree} :
                    app_cache[k] # None => k \in todo'[c] \cup DOMAIN rows'[c]
    BY <2>2, <2>3, <1>t DEF Undisturbed
  <2>7. step \in {"delete_bootstrap", "delete_topics", "invalidate_topics", "commit", "drop"}
    BY <2>1, <2>2 DEF After
  <2>8. CASE draft'[c] = NoDraft
    BY <2>2, <2>4, <2>7, <2>8 DEF Undisturbed, DocSteps
  <2>9. CASE draft'[c] # NoDraft
    BY <2>2, <2>4, <2>5, <2>6, <2>9 DEF Undisturbed, WriteSteps, DocSteps
  <2> QED BY <2>8, <2>9
<1>13. CASE DropMemory(c)
  BY <1>13, <1>f, <1>g, <1>n, <1>r, <1>w DEF DropMemory, Finish, request, pending, database, DocSteps
<1>14. CASE ListTopics(c)
  BY <1>14, <1>g, <1>n, <1>r, <1>w DEF ListTopics, pending, database, DocSteps
<1>15. CASE NextTopic(c)
  <2>1. PICK step \in {"head", "commit"} : Goto(c, step)
    BY <1>15 DEF NextTopic
  <2> QED BY <1>15, <2>1, <1>g, <1>n, <1>r, <1>w DEF NextTopic, pending, database, DocSteps
<1>16. CASE Raise(c)
  <2>1. draft'[c] = NoDraft /\ rows'[c] = NoRows
    BY <1>16, <1>t DEF Raise, Rollback, TypeOK
  <2> QED BY <1>16, <2>1, <1>e, <1>g DEF Raise, request, database, DocSteps
<1> QED BY <1>1, <1>2, <1>3, <1>4, <1>5, <1>6, <1>7, <1>8, <1>9, <1>10, <1>11,
           <1>13, <1>14, <1>15, <1>16, <1>12 DEF Step

\* The session of the caller after a failed statement on app_cache.
LEMMA AloneSwallow ==
  ASSUME AloneInv, NEW c \in Clients, Swallow(c)
  PROVE  Undisturbed(c)'
<1>t. TypeOK /\ Undisturbed(c)
  BY DEF AloneInv, TypeInv
<1>1. /\ draft'[c] = NoDraft /\ rows'[c] = NoRows /\ UNCHANGED <<commits, status, doc>>
      /\ pc'[c] = After(c) /\ pc[c] \in CacheSteps
  BY <1>t DEF Swallow, Rollback, Goto, TypeOK, database
<1>2. status'[c] = "none" /\ After(c) \notin {"idle", "write", "adopt"}
  BY <1>1, <1>t DEF Undisturbed, CacheSteps, After
<1>3. After(c) \in DocSteps => pc[c] \in DocSteps \ {"adopt"}
  BY <1>1 DEF CacheSteps, After, DocSteps
<1>4. After(c) \in DocSteps => doc'[c] = Now'
  BY <1>1, <1>3, <1>t DEF Undisturbed, Now
<1> QED BY <1>1, <1>2, <1>4 DEF Undisturbed, NoRows

LEMMA AloneNext ==
  ASSUME \A c, d \in Clients : c = d, AloneInv, [Next]_vars
  PROVE  AloneInv'
<1>t. TypeOK /\ TableFresh /\ TypeInv'
  BY TypeNext DEF AloneInv, TypeInv
<1>1. ASSUME UNCHANGED <<commits, app_cache>>
      PROVE  /\ TableFresh'
             /\ \A c \in Clients : (Same(c) /\ todo'[c] = todo[c]) \/ Lost(c) => Undisturbed(c)'
  <2>1. TableFresh'
    BY <1>1, <1>t DEF TableFresh
  <2>2. ASSUME NEW c \in Clients, Same(c), todo'[c] = todo[c]
        PROVE  Undisturbed(c)'
    BY <1>1, <2>2 DEF AloneInv, Undisturbed, Same, Now
  <2>3. ASSUME NEW c \in Clients, Lost(c)
        PROVE  Undisturbed(c)'
    BY <2>3 DEF Lost, Undisturbed, WriteSteps, DocSteps, NoRows
  <2> QED BY <2>1, <2>2, <2>3
<1>2. CASE Environment
  <2>1. UNCHANGED <<commits, app_cache>>
    BY <1>2 DEF Environment, Expire, Restart, Migrate, database
  <2> QED BY <1>t, <1>1, <1>2, <2>1, EnvironmentLoses DEF AloneInv
<1>3. CASE UNCHANGED vars
  <2>1. UNCHANGED <<commits, app_cache, todo>> /\ \A c \in Clients : Same(c)
    BY <1>3 DEF vars, database, request, pending, Same
  <2> QED BY <1>t, <1>1, <2>1 DEF AloneInv
<1>4. ASSUME NEW c \in Clients, Act(c)
      PROVE  AloneInv'
  <2>1. Undisturbed(c)'
    BY <1>4, AloneStart, AloneStep, AloneSwallow DEF Act
  <2>2. \A o \in Clients : o = c
    OBVIOUS
  <2>3. TableFresh'
    <3>1. CASE UNCHANGED database
      BY <1>1, <3>1 DEF database
    <3>2. CASE CommitSession(c) /\ (Store(c) \/ Commit(c))
      BY <3>2, AloneCommit DEF Store, Commit
    <3> QED BY <1>4, <3>1, <3>2, OnlyCommitsWrite
  <2>4. \A o \in Clients : Undisturbed(o)'
    BY <2>1, <2>2
  <2> QED BY <1>t, <2>3, <2>4 DEF AloneInv
<1> QED BY <1>2, <1>3, <1>4 DEF Next, Act

\* One caller at a time, the app_cache table never disagrees with the topics,
\* for any number of workers, also while the table is being created.
THEOREM AloneTableIsFresh ==
  ASSUME \A c, d \in Clients : c = d
  PROVE  Spec => []PersistentCacheFresh
<1>1. Init => AloneInv
  BY TypeInit DEF Init, AloneInv, TableFresh, Undisturbed, WriteSteps, DocSteps, NoRows
<1>2. AloneInv /\ [Next]_vars => AloneInv'
  BY AloneNext
<1>3. AloneInv => PersistentCacheFresh
  BY FreshIsFreshIn DEF AloneInv, TableFresh, PersistentCacheFresh
<1> QED BY <1>1, <1>2, <1>3, PTL DEF Spec

-----------------------------------------------------------------------------
(* A single caller on a single worker.                                     *)

\* ETag in the history h, and a request whose copy has the validator of the
\* latest content of h.
ETagIn(h, k, d) == IF k \in Topics THEN h[d.head][k].version ELSE ViewIn(h, k, d)
Confirmed(h, j) ==
  ETagIn(h, j.key, j.copy) = ETagIn(h, j.key, [head |-> Len(h), tail |-> Len(h)])

\* A copy that matches a fresh document is confirmed.
LEMMA MatchesConfirm ==
  ASSUME NEW j, NEW d, Matches(j, d), FreshIn(commits, j.key, d)
  PROVE  Confirmed(commits, j)
<1>1. \A k, e : ETag(k, e) = ETagIn(commits, k, e)
  BY DEF ETag, ETagIn, View, ViewIn, Live
<1>2. ETagIn(commits, j.key, j.copy) = ETagIn(commits, j.key, d)
  BY <1>1 DEF Matches
<1> DEFINE now == [head |-> Len(commits), tail |-> Len(commits)]
<1>3. ETagIn(commits, j.key, d) = ETagIn(commits, j.key, now)
  <2>1. ViewIn(commits, j.key, d) = ViewIn(commits, j.key, now)
    BY DEF FreshIn
  <2>2. CASE j.key \in Topics
    <3> HIDE DEF now
    <3>1. ASSUME NEW e
          PROVE  ViewIn(commits, j.key, e)[1] = commits[e.head][j.key]
      <4>1. ViewIn(commits, j.key, e) = <<commits[e.head][j.key], commits[e.tail][j.key].edition>>
        BY <2>2, KeysAssumption DEF ViewIn
      <4> QED BY <4>1
    <3> QED BY <2>1, <2>2, <3>1 DEF ETagIn
  <2>3. CASE j.key \notin Topics
    <3> HIDE DEF now
    <3> QED BY <2>1, <2>3 DEF ETagIn
  <2> QED BY <2>2, <2>3
<1> QED BY <1>2, <1>3 DEF Confirmed

\* The worker's memory is fresh, and empty between the clearing and the commit
\* of a write; so is what the caller was served, and a copy it was told to keep
\* has the validator of the latest content.
Served(c) ==
  /\ draft[c] # NoDraft /\ pc[c] \in WriteSteps \ {"clear"} =>
       \A w \in Workers, k \in Keys : memory[w][k] = None
  /\ status[c] = "200" => FreshIn(commits, job[c].key, doc[c])
  /\ status[c] = "304" => Confirmed(commits, job[c])

Remembered == \A w \in Workers, k \in Keys :
  memory[w][k] # None => FreshIn(commits, k, memory[w][k])

OneWorkerInv ==
  /\ AloneInv
  /\ Remembered
  /\ \A c \in Clients : Served(c)

\* What a worker remembers and forgets.
LEMMA WhatIsRemembered ==
  ASSUME OneWorkerInv, NEW v \in Workers
  PROVE  /\ \A x \in Keys : \A d : Remember(v, x, d) /\ (d # None => FreshIn(commits, x, d)) =>
              \A w \in Workers, k \in Keys :
                memory'[w][k] # None => FreshIn(commits, k, memory'[w][k])
         /\ \A K : Forget(v, K) =>
              \A w \in Workers, k \in Keys :
                memory'[w][k] # None => FreshIn(commits, k, memory'[w][k])
<1>t. TypeOK /\ Remembered
  BY DEF OneWorkerInv, AloneInv, TypeInv
<1>1. ASSUME NEW x \in Keys, NEW d, Remember(v, x, d), d # None => FreshIn(commits, x, d),
             NEW w \in Workers, NEW k \in Keys
      PROVE  memory'[w][k] # None => FreshIn(commits, k, memory'[w][k])
  BY <1>1, <1>t DEF Remember, TypeOK, Remembered
<1>2. ASSUME NEW K, Forget(v, K), NEW w \in Workers, NEW k \in Keys
      PROVE  memory'[w][k] # None => FreshIn(commits, k, memory'[w][k])
  <2>1. memory'[w][k] = memory[w][k] \/ memory'[w][k] = None
    BY <1>2, <1>t DEF Forget, TypeOK
  <2> QED BY <2>1, <1>t DEF Remembered
<1> QED BY <1>1, <1>2

\* Every memory stays fresh: only documents that are go in, and a commit that
\* changes content finds nothing in it.
LEMMA MemoryStep ==
  ASSUME OneWorkerInv, NEW c \in Clients, Act(c)
  PROVE  Remembered'
<1>t. /\ TypeOK /\ Remembered /\ Undisturbed(c) /\ Served(c)
      /\ job[c].worker \in Workers /\ job[c].key \in Keys /\ Tree \in Keys /\ Bootstrap \in Keys
  BY DEF OneWorkerInv, AloneInv, TypeInv, TypeOK, IsJob, Keys
<1>q. ASSUME UNCHANGED commits,
             \A w \in Workers, k \in Keys :
               memory'[w][k] # None => FreshIn(commits, k, memory'[w][k])
      PROVE  Remembered'
  BY <1>q DEF Remembered
<1>s. ASSUME UNCHANGED <<commits, memory>> PROVE Remembered'
  BY <1>s, <1>t DEF Remembered
<1>n. pc[c] \in {"built", "publish"} => \A k : FreshIn(commits, k, doc[c])
  BY <1>t, NowIsFresh DEF Undisturbed, DocSteps
<1>1. CASE Start(c)
  BY <1>1, <1>s, StartFrame DEF database
<1>2. CASE GetCached(c) \/ ReadHead(c) \/ ReadTail(c) \/ SetCached(c) \/ Write(c) \/ Refuse(c)
           \/ InvalidateBootstrap(c) \/ InvalidateTopics(c) \/ DeleteRow(c) \/ ListTopics(c)
           \/ NextTopic(c) \/ Raise(c) \/ Swallow(c)
  BY <1>2, <1>s DEF GetCached, ReadHead, ReadTail, SetCached, Write, Refuse, InvalidateBootstrap,
       InvalidateTopics, Invalidate, DeleteRow, ListTopics, NextTopic, Raise, Swallow, database
<1>3. CASE Adopt(c)
  <2>1. Remember(job[c].worker, job[c].key, doc[c]) /\ FreshIn(commits, job[c].key, doc[c])
    BY <1>3, <1>t DEF Adopt, Undisturbed
  <2> QED BY <1>3, <2>1, <1>t, <1>q, WhatIsRemembered DEF Adopt, database
<1>4. CASE Built(c)
  <2>1. UNCHANGED memory \/ \E k \in Keys : Remember(job[c].worker, k, doc[c])
    BY <1>4, <1>t DEF Built
  <2>2. UNCHANGED commits /\ \A k : FreshIn(commits, k, doc[c])
    BY <1>4, <1>n DEF Built, database
  <2> QED BY <2>1, <2>2, <1>t, <1>s, <1>q, WhatIsRemembered
<1>5. CASE Publish(c)
  BY <1>5, <1>n, <1>t, <1>q, WhatIsRemembered DEF Publish, database
<1>6. CASE ClearMemory(c)
  BY <1>6, <1>t, <1>q, WhatIsRemembered DEF ClearMemory, database
<1>7. CASE DropMemory(c)
  BY <1>7, <1>t, <1>q, WhatIsRemembered DEF DropMemory, database
<1>8. CASE Store(c) \/ Commit(c)
  <2>1. UNCHANGED memory /\ CommitSession(c) /\ pc[c] \in {"store", "commit"}
    BY <1>8 DEF Store, Commit
  <2>2. CASE commits' = commits
    BY <2>1, <2>2, <1>s
  <2>3. CASE draft[c] # NoDraft /\ pc[c] = "commit"
    BY <2>1, <2>3, <1>t DEF Served, WriteSteps, Remembered
  <2> QED BY <2>1, <2>2, <2>3, AloneCommit DEF OneWorkerInv
<1> QED BY <1>1, <1>2, <1>3, <1>4, <1>5, <1>6, <1>7, <1>8 DEF Step, Act

\* What the caller is served is fresh, and a write clears the only memory.
LEMMA ServedStep ==
  ASSUME \A v, w \in Workers : v = w, OneWorkerInv, NEW c \in Clients, Act(c)
  PROVE  Served(c)'
<1>t. /\ TypeOK /\ Remembered /\ Undisturbed(c) /\ Served(c)
      /\ job[c].worker \in Workers /\ job[c].key \in Keys
  BY DEF OneWorkerInv, AloneInv, TypeInv, TypeOK, IsJob
<1>n. pc[c] \in {"built", "publish", "store"} => \A k : FreshIn(commits, k, doc[c])
  BY <1>t, NowIsFresh DEF Undisturbed, DocSteps
\* An answer, and a step that does not clear.
<1>f. ASSUME NEW answer, NEW d, Close(c, answer, d),
             answer = "200" => FreshIn(commits', job[c].key, d),
             answer = "304" => Confirmed(commits', job[c])
      PROVE  Served(c)'
  <2>1. /\ pc'[c] = "idle" /\ status'[c] = answer /\ doc'[c] = d /\ job' = job
        /\ draft'[c] = NoDraft
    BY <1>f, <1>t DEF Close, Rollback, Goto, TypeOK
  <2> QED BY <1>f, <2>1 DEF Served
\* A fresh document served without a commit.
<1>p. ASSUME NEW d, Serve(c, d), UNCHANGED commits, FreshIn(commits, job[c].key, d)
      PROVE  Served(c)'
  <2>1. FreshIn(commits', job[c].key, d)
    BY <1>p DEF Now
  <2>2. Matches(job[c], d) => Confirmed(commits', job[c])
    BY <1>p, MatchesConfirm DEF Now
  <2> QED BY <1>p, <2>1, <2>2, <1>f DEF Serve, Finish
<1>g. ASSUME NEW step, Goto(c, step), pc[c] # "idle", UNCHANGED status,
             \/ step \notin WriteSteps \ {"clear"}
             \/ draft'[c] = NoDraft
             \/ draft[c] # NoDraft /\ pc[c] \in WriteSteps \ {"clear"} /\ UNCHANGED memory
             \/ \A w \in Workers, k \in Keys : memory'[w][k] = None
      PROVE  Served(c)'
  <2>1. pc'[c] = step /\ status'[c] = "none"
    BY <1>g, <1>t DEF Goto, TypeOK, Undisturbed
  <2> QED BY <1>g, <2>1, <1>t DEF Served
<1>1. CASE Start(c)
  <2>1. UNCHANGED <<database, pending>> /\ pc[c] = "idle"
    BY <1>1, StartFrame
  <2>2. draft'[c] = NoDraft
    BY <2>1, <1>t DEF Undisturbed, pending, WriteSteps
  <2>3. ASSUME NEW j, NEW step, Begin(c, j, step)
        PROVE  Served(c)'
    <3>1. status'[c] = "none"
      BY <2>3, <1>t DEF Begin, TypeOK
    <3> QED BY <2>2, <3>1 DEF Served
  <2>4. ASSUME NEW j, j.worker \in Workers, j.key \in Keys, MemoryHit(c, j)
        PROVE  Served(c)'
    <3>1. /\ doc'[c] = memory[j.worker][j.key] /\ job'[c] = j /\ UNCHANGED commits
          /\ memory[j.worker][j.key] # None
          /\ status'[c] = "304" => Matches(j, memory[j.worker][j.key])
      BY <2>4, <1>t DEF MemoryHit, TypeOK, database
    <3>2. FreshIn(commits, j.key, doc'[c])
      BY <2>4, <3>1, <1>t DEF Remembered
    <3>3. status'[c] = "304" => Confirmed(commits, j)
      BY <3>1, <3>2, MatchesConfirm
    <3> QED BY <2>2, <3>1, <3>2, <3>3 DEF Served
  <2>5. \A op, w, k, copy : Request(op, w, k, copy).worker = w /\ Request(op, w, k, copy).key = k
    BY DEF Request
  <2>6. ASSUME NEW op, NEW w \in Workers, NEW k \in Keys, NEW copy, NEW miss,
               Fetch(c, Request(op, w, k, copy), miss)
        PROVE  Served(c)'
    BY <2>6, <2>3, <2>4, <2>5 DEF Fetch
  <2>7. Topics \subseteq Keys /\ Tree \in Keys /\ Bootstrap \in Keys
    BY DEF Keys
  <2> QED BY <1>1, <2>3, <2>6, <2>7 DEF Start, GetTopic, TopicTree, GetBootstrap, WriteTopics,
       RebuildBootstrap, RebuildTopics, ClearBootstrap
<1>2. CASE GetCached(c)
  BY <1>2, <1>g DEF GetCached, After, WriteSteps
<1>3. CASE Adopt(c)
  <2>1. FreshIn(commits, job[c].key, doc[c])
    BY <1>3, <1>t DEF Adopt, Undisturbed
  <2> QED BY <1>3, <2>1, <1>p DEF Adopt, database
<1>4. CASE ReadHead(c)
  BY <1>4, <1>f, <1>g DEF ReadHead, Finish, WriteSteps
<1>5. CASE ReadTail(c)
  BY <1>5, <1>g DEF ReadTail, WriteSteps
<1>6. CASE Built(c)
  <2>1. FreshIn(commits, job[c].key, doc[c]) /\ UNCHANGED commits
    BY <1>6, <1>n DEF Built, database
  <2>2. CASE Matches(job[c], doc[c]) /\ Finish(c, "304", doc[c])
    BY <2>1, <2>2, <1>p DEF Serve
  <2> QED BY <1>6, <2>1, <2>2, <1>p, <1>g DEF Built, WriteSteps
<1>7. CASE SetCached(c)
  BY <1>7, <1>g DEF SetCached, After, WriteSteps
<1>8. CASE Store(c)
  <2>1. CommitSession(c) /\ pc[c] = "store"
    BY <1>8 DEF Store
  <2>2. FreshIn(commits', job[c].key, doc[c])
    BY <2>1, <1>n, AloneCommit DEF OneWorkerInv
  <2> QED BY <1>8, <2>1, <2>2, <1>f, <1>g DEF Store, WriteSteps
<1>9. CASE Publish(c)
  BY <1>9, <1>n, <1>p DEF Publish, database
<1>10. CASE Write(c)
  BY <1>10, <1>g DEF Write, WriteSteps
<1>11. CASE Refuse(c)
  BY <1>11, <1>f DEF Refuse, Finish
<1>12. CASE ClearMemory(c)
  <2>1. CASE draft[c] = NoDraft
    <3>1. draft'[c] = NoDraft
      BY <1>12, <2>1 DEF ClearMemory, pending
    <3> QED BY <1>12, <3>1, <1>g DEF ClearMemory
  <2>2. CASE draft[c] # NoDraft
    <3>1. job[c].op # "clear_bootstrap"
      BY <2>2, <1>t DEF Undisturbed, Writes
    <3>2. Forget(job[c].worker, Keys)
      BY <1>12, <3>1 DEF ClearMemory
    <3>3. \A w \in Workers : w = job[c].worker
      BY <1>t
    <3>4. \A w \in Workers, k \in Keys : memory'[w][k] = None
      BY <3>2, <3>3, <1>t DEF Forget, TypeOK
    <3> QED BY <1>12, <3>4, <1>g DEF ClearMemory
  <2> QED BY <2>1, <2>2
<1>13. CASE InvalidateBootstrap(c) \/ InvalidateTopics(c) \/ DeleteRow(c)
  <2>1. /\ pc[c] \in WriteSteps \ {"clear"} /\ UNCHANGED <<memory, status, draft>>
        /\ \E step : Goto(c, step)
    BY <1>13 DEF InvalidateBootstrap, InvalidateTopics, Invalidate, DeleteRow, Deleting, pending,
                 WriteSteps
  <2>2. pc[c] # "idle"
    BY <2>1 DEF WriteSteps
  <2> QED BY <2>1, <2>2, <1>g
<1>14. CASE Swallow(c)
  <2>1. draft'[c] = NoDraft /\ status' = status /\ pc[c] # "idle" /\ Goto(c, After(c))
    BY <1>14, <1>t DEF Swallow, Rollback, CacheSteps, TypeOK
  <2> QED BY <2>1, <1>g
<1>15. CASE Commit(c)
  <2>1. CASE Goto(c, "head") /\ UNCHANGED status
    BY <1>15, <2>1, <1>g DEF Commit, WriteSteps
  <2>2. CASE Close(c, "done", None)
    BY <2>2, <1>f
  <2> QED BY <1>15, <2>1, <2>2 DEF Commit
<1>16. CASE DropMemory(c)
  BY <1>16, <1>f, <1>g DEF DropMemory, Finish, WriteSteps
<1>17. CASE ListTopics(c)
  BY <1>17, <1>g DEF ListTopics, WriteSteps
<1>18. CASE NextTopic(c)
  <2>1. draft'[c] = NoDraft /\ pc[c] = "next" /\ UNCHANGED status
    BY <1>18, <1>t DEF NextTopic, Undisturbed, pending, WriteSteps
  <2>2. PICK step : Goto(c, step)
    BY <1>18 DEF NextTopic
  <2> QED BY <2>1, <2>2, <1>g
<1>19. CASE Raise(c)
  BY <1>19, <1>g DEF Raise, WriteSteps
<1> QED BY <1>1, <1>2, <1>3, <1>4, <1>5, <1>6, <1>7, <1>8, <1>9, <1>10, <1>11, <1>12,
           <1>13, <1>15, <1>16, <1>17, <1>18, <1>19, <1>14 DEF Step, Act

LEMMA OneWorkerNext ==
  ASSUME \A c, d \in Clients : c = d, \A v, w \in Workers : v = w, OneWorkerInv, [Next]_vars
  PROVE  OneWorkerInv'
<1>t. TypeOK /\ Remembered /\ AloneInv'
  BY AloneNext DEF OneWorkerInv, AloneInv, TypeInv
<1>1. CASE Environment
  <2>1. UNCHANGED commits
    BY <1>1 DEF Environment, Expire, Restart, Migrate, database
  <2>2. \A w \in Workers, k \in Keys : memory'[w][k] = memory[w][k] \/ memory'[w][k] = None
    BY <1>1, <1>t DEF Environment, Expire, Restart, Migrate, Forget, TypeOK
  <2>3. Remembered'
    BY <2>1, <2>2, <1>t DEF Remembered
  <2>4. ASSUME NEW c \in Clients PROVE Served(c)'
    <3>1. Served(c)
      BY DEF OneWorkerInv
    <3>2. CASE Same(c)
      BY <2>1, <2>2, <3>1, <3>2 DEF Served, Same
    <3>3. CASE Lost(c)
      BY <3>3 DEF Served, Lost
    <3> QED BY <1>1, <1>t, <3>2, <3>3, EnvironmentLoses
  <2> QED BY <1>t, <2>3, <2>4 DEF OneWorkerInv
<1>2. CASE UNCHANGED vars
  BY <1>2, <1>t DEF vars, database, request, pending, OneWorkerInv, Remembered, Served
<1>3. ASSUME NEW c \in Clients, Act(c)
      PROVE  OneWorkerInv'
  <2>1. Remembered' /\ Served(c)'
    BY <1>3, MemoryStep, ServedStep
  <2>2. \A o \in Clients : o = c
    OBVIOUS
  <2>3. \A o \in Clients : Served(o)'
    BY <2>1, <2>2
  <2> QED BY <1>t, <2>1, <2>3 DEF OneWorkerInv
<1> QED BY <1>1, <1>2, <1>3 DEF Next, Act

LEMMA OneWorkerInit == Init => OneWorkerInv
<1> SUFFICES ASSUME Init PROVE OneWorkerInv
  OBVIOUS
<1>1. AloneInv
  BY TypeInit DEF Init, AloneInv, TableFresh, Undisturbed, WriteSteps, DocSteps, NoRows
<1> QED BY <1>1 DEF Init, OneWorkerInv, Remembered, Served

\* One caller and one worker: its memory is never outdated, although a write
\* clears it before it commits.
THEOREM AloneMemoryIsFresh ==
  ASSUME \A c, d \in Clients : c = d, \A v, w \in Workers : v = w
  PROVE  Spec => []MemoryFresh
<1>1. OneWorkerInv /\ [Next]_vars => OneWorkerInv'
  BY OneWorkerNext
<1>2. OneWorkerInv => MemoryFresh
  BY FreshIsFreshIn DEF OneWorkerInv, Remembered, MemoryFresh
<1> QED BY OneWorkerInit, <1>1, <1>2, PTL DEF Spec

\* One caller and one worker: every document served shows all committed writes,
\* and every copy confirmed with a 304 has the validator of the committed
\* content, whatever expires, restarts or fails on the way.
THEOREM AnswersAreCurrentAlone ==
  ASSUME \A c, d \in Clients : c = d, \A v, w \in Workers : v = w
  PROVE  Spec => []AnswersAreCurrent
<1>1. OneWorkerInv /\ [Next]_vars => OneWorkerInv'
  BY OneWorkerNext
<1>2. OneWorkerInv => AnswersAreCurrent
  <2>1. \A k, d : ETag(k, d) = ETagIn(commits, k, d)
    BY DEF ETag, ETagIn, View, ViewIn, Live
  <2> QED BY <2>1, FreshIsFreshIn
          DEF OneWorkerInv, Served, Confirmed, Now, AnswersAreCurrent
<1> QED BY OneWorkerInit, <1>1, <1>2, PTL DEF Spec
=============================================================================
