----------------------- MODULE ContentManagementProofs -----------------------
(***************************************************************************)
(* Proofs about ContentManagement, for any tabs, contents, queue and       *)
(* length of history.  Service runs these actions beside others; its       *)
(* theorems are in ServiceProofs.                                          *)
(*                                                                         *)
(* ServerInv: between the write of a document and its answer the file is   *)
(* one job ahead of the catalog, and that job was checked against the      *)
(* present catalog.  TabInv: what a tab shows and recovers goes together   *)
(* with the version it was written for, and a draft that is not saved is   *)
(* guarded by the shell, or the user agreed to lose it.                    *)
(***************************************************************************)
EXTENDS ContentManagement, SequenceTheorems, TLAPS

-----------------------------------------------------------------------------
PossibleContents == {Initial} \cup UNION {Types(t) : t \in Tabs}

Revision == [revision: Nat, content: PossibleContents]

Job ==
  [tab: Tabs, kind: Kinds, pc: {"queued", "written"}, heard: BOOLEAN,
   content: PossibleContents, revision: Nat, version: PossibleContents, base: PossibleContents,
   wrote: BOOLEAN]

\* A job before it is sent from a tab.
Unsent ==
  [tab: Tabs \cup {Nothing}, kind: Kinds, pc: {"queued"}, heard: BOOLEAN,
   content: PossibleContents, revision: Nat, version: PossibleContents, base: PossibleContents,
   wrote: BOOLEAN]

ServerTyped ==
  /\ document \in [content: PossibleContents, history: Seq(Revision)]
  /\ catalog \in PossibleContents
  /\ jobs \in Seq(Job)
  /\ unsure \in BOOLEAN

JobsInv ==
  \A i \in 1..Len(jobs) :
    /\ jobs[i].version = jobs[i].base
    /\ jobs[i].pc = "written" =>
         /\ i = 1
         /\ jobs[1].version = catalog
         /\ document.content = jobs[1].content

ServerInv == ServerTyped /\ JobsInv /\ ContentSurvives

Page == [at: {"away", "loading", "open"}, draft: PossibleContents, saved: PossibleContents,
         version: PossibleContents, guarded: BOOLEAN]
Recovery == [draft: PossibleContents \cup {Nothing}, saved: PossibleContents, version: PossibleContents]

TabsTyped ==
  /\ page \in [Tabs -> Page]
  /\ recovery \in [Tabs -> Recovery]
  /\ unsaved \in [Tabs -> PossibleContents \cup {Nothing}]
  /\ agreed \in [Tabs -> BOOLEAN]

VersionFits(t) ==
  page[t].version = page[t].saved /\ recovery[t].version = recovery[t].saved

DraftInv(t) ==
  /\ page[t].at = "away" => unsaved[t] = Nothing
  /\ page[t].at = "loading" /\ unsaved[t] # Nothing =>
       recovery[t].draft = unsaved[t] /\ recovery[t].draft # recovery[t].saved
  /\ page[t].at = "open" /\ unsaved[t] # Nothing =>
       page[t].draft = unsaved[t] /\ Dirty(t)
  /\ page[t].at = "open" /\ Dirty(t) => page[t].guarded \/ agreed[t]

TabsInv == TabsTyped /\ \A t \in Tabs : VersionFits(t) /\ DraftInv(t)

ContentInv == ServerInv /\ TabsInv

-----------------------------------------------------------------------------
\* A service that has just started has no jobs, and its tabs are closed.
LEMMA ContentInit_Inv == ContentInit => ContentInv
<1> SUFFICES ASSUME ContentInit PROVE ContentInv
  OBVIOUS
<1>1. Initial \in PossibleContents
  BY DEF PossibleContents
<1>2. ServerInv
  <2>1. ServerTyped
    BY <1>1, EmptySeq DEF ContentInit, ServerTyped
  <2>2. JobsInv
    BY DEF ContentInit, JobsInv
  <2>3. ContentSurvives
    BY DEF ContentInit, ContentSurvives
  <2> QED
    BY <2>1, <2>2, <2>3 DEF ServerInv
<1>3. TabsTyped
  BY <1>1 DEF ContentInit, TabsTyped, Page, Recovery, NoPage, NoDraft
<1>4. \A t \in Tabs : VersionFits(t) /\ DraftInv(t)
  BY DEF ContentInit, VersionFits, DraftInv, NoPage, NoDraft
<1> QED
  BY <1>2, <1>3, <1>4 DEF ContentInv, TabsInv

-----------------------------------------------------------------------------
(* The queue of the service.                                               *)

\* A list that is not empty has a first job.
LEMMA FirstJob ==
  ASSUME ServerTyped, jobs # <<>>
  PROVE  1 \in 1..Len(jobs) /\ jobs[1] \in Job
BY EmptySeq DEF ServerTyped

\* The first job leaves the queue: the next one is not written yet.
LEMMA JobLeaves ==
  ASSUME ServerTyped, JobsInv, jobs # <<>>, jobs' = Tail(jobs)
  PROVE  /\ jobs' \in Seq(Job)
         /\ \A i \in 1..Len(jobs') : jobs'[i].pc # "written"
                                      /\ jobs'[i].version = jobs'[i].base
<1>1. /\ Tail(jobs) \in Seq(Job)
      /\ Len(Tail(jobs)) = Len(jobs) - 1
      /\ \A i \in 1..Len(Tail(jobs)) : Tail(jobs)[i] = jobs[i + 1]
  BY HeadTailProperties DEF ServerTyped
<1>2. Len(jobs) \in Nat
  BY DEF ServerTyped
<1>3. ASSUME NEW i \in 1..Len(jobs')
      PROVE  jobs'[i].pc # "written" /\ jobs'[i].version = jobs'[i].base
  <2>1. jobs'[i] = jobs[i + 1] /\ i + 1 \in 1..Len(jobs) /\ i + 1 # 1
    BY <1>1, <1>2, <1>3
  <2> QED
    BY <2>1 DEF JobsInv
<1> QED
  BY <1>1, <1>3

\* What the queue becomes when a tab no longer listens to some of its jobs.
LEMMA JobsUnheard ==
  ASSUME ServerInv, NEW deaf \in SUBSET (1..Len(jobs)),
         jobs' = [i \in DOMAIN jobs |->
                    IF i \in deaf THEN [jobs[i] EXCEPT !.heard = FALSE] ELSE jobs[i]],
         UNCHANGED <<document, catalog, unsure>>
  PROVE  ServerInv'
<1>1. /\ jobs \in Seq(Job) /\ Len(jobs) \in Nat /\ DOMAIN jobs = 1..Len(jobs)
      /\ \A i \in 1..Len(jobs) : jobs[i] \in Job
  BY DEF ServerInv, ServerTyped
<1>2. \A j \in Job : /\ [j EXCEPT !.heard = FALSE] \in Job
                     /\ [j EXCEPT !.heard = FALSE].pc = j.pc
                     /\ [j EXCEPT !.heard = FALSE].version = j.version
                     /\ [j EXCEPT !.heard = FALSE].base = j.base
                     /\ [j EXCEPT !.heard = FALSE].content = j.content
  BY DEF Job
<1>3. jobs' \in [1..Len(jobs) -> Job]
  BY <1>1, <1>2
<1>4. jobs' \in Seq(Job) /\ Len(jobs') = Len(jobs)
  BY <1>1, <1>3, SeqDef, LenProperties
<1>5. \A i \in 1..Len(jobs) : /\ jobs'[i].pc = jobs[i].pc
                              /\ jobs'[i].version = jobs[i].version
                              /\ jobs'[i].base = jobs[i].base
                              /\ jobs'[i].content = jobs[i].content
  BY <1>1, <1>2
<1>6. ServerTyped'
  BY <1>4 DEF ServerInv, ServerTyped
<1>7. JobsInv'
  BY <1>1, <1>4, <1>5 DEF ServerInv, JobsInv
<1>8. (jobs' # <<>>) <=> (jobs # <<>>)
  BY <1>1, <1>4, EmptySeq
<1>9. ContentSurvives'
  BY <1>4, <1>5, <1>8, FirstJob DEF ServerInv, ContentSurvives
<1> QED
  BY <1>6, <1>7, <1>9 DEF ServerInv

\* A tab that turns away leaves its jobs in the list, to be heard by nobody.
LEMMA DetachStep ==
  ASSUME ServerInv, NEW t \in Tabs, Detach(t), UNCHANGED <<document, catalog, unsure>>
  PROVE  ServerInv'
<1> DEFINE deaf == {i \in 1..Len(jobs) : jobs[i].tab = t}
<1>1. DOMAIN jobs = 1..Len(jobs)
  BY DEF ServerInv, ServerTyped
<1>2. jobs' = [i \in DOMAIN jobs |->
                 IF i \in deaf THEN [jobs[i] EXCEPT !.heard = FALSE] ELSE jobs[i]]
  BY <1>1 DEF Detach
<1> QED
  BY <1>2, JobsUnheard

\* A job whose answer was lost stays in the list, and its tab waits no more.
LEMMA AnswerLostStep ==
  ASSUME ServerInv, NEW t \in Tabs, NEW k \in Kinds, AnswerLost(t, k)
  PROVE  ServerInv'
<1> DEFINE deaf == {i \in 1..Len(jobs) : jobs[i].tab = t /\ jobs[i].kind = k}
<1>1. DOMAIN jobs = 1..Len(jobs)
  BY DEF ServerInv, ServerTyped
<1>2. jobs' = [i \in DOMAIN jobs |->
                 IF i \in deaf THEN [jobs[i] EXCEPT !.heard = FALSE] ELSE jobs[i]]
  BY <1>1 DEF AnswerLost
<1>3. UNCHANGED <<document, catalog, unsure>>
  BY DEF AnswerLost
<1> QED
  BY <1>2, <1>3, JobsUnheard

\* A save or a restore joins the queue, with the version of the page it is
\* sent from.
LEMMA SendStep ==
  ASSUME ContentInv, NEW t \in Tabs, NEW k \in Kinds, NEW job \in Unsent,
         Send(t, k, job)
  PROVE  ServerInv'
<1>1. PICK j :
         j = [job EXCEPT !.tab = t, !.kind = k, !.version = page[t].version,
                         !.base = page[t].saved]
  OBVIOUS
<1>2. jobs' = Append(jobs, j) /\ UNCHANGED <<document, catalog, unsure>>
  BY <1>1 DEF Send
<1>3. page[t] \in Page /\ page[t].version = page[t].saved
  BY DEF ContentInv, TabsInv, TabsTyped, VersionFits
<1>4. j \in Job /\ j.pc = "queued" /\ j.version = j.base
  BY <1>1, <1>3 DEF Job, Unsent, Page
<1>5. /\ jobs' \in Seq(Job) /\ Len(jobs') = Len(jobs) + 1 /\ Len(jobs) \in Nat
      /\ \A i \in 1..Len(jobs) : jobs'[i] = jobs[i]
      /\ jobs'[Len(jobs) + 1] = j
  BY <1>2, <1>4 DEF ContentInv, ServerInv, ServerTyped
<1>6. ServerTyped'
  BY <1>2, <1>5 DEF ContentInv, ServerInv, ServerTyped
<1>7. JobsInv'
  <2> SUFFICES ASSUME NEW i \in 1..Len(jobs')
               PROVE  /\ jobs'[i].version = jobs'[i].base
                      /\ jobs'[i].pc = "written" =>
                           /\ i = 1
                           /\ jobs'[1].version = catalog'
                           /\ document'.content = jobs'[1].content
    BY DEF JobsInv
  <2>1. CASE i \in 1..Len(jobs)
    <3>1. 1 \in 1..Len(jobs) /\ jobs'[1] = jobs[1] /\ jobs'[i] = jobs[i]
      BY <1>5, <2>1
    <3> QED
      BY <1>2, <2>1, <3>1 DEF ContentInv, ServerInv, JobsInv
  <2>2. CASE i = Len(jobs) + 1
    BY <1>4, <1>5, <2>2
  <2> QED
    BY <1>5, <2>1, <2>2
<1>8. ContentSurvives'
  <2>1. CASE jobs = <<>>
    BY <1>2, <2>1 DEF ContentInv, ServerInv, ContentSurvives
  <2>2. CASE jobs # <<>>
    <3>1. jobs'[1] = jobs[1] /\ jobs' # <<>>
      BY <1>5, <2>2, FirstJob, EmptySeq DEF ContentInv, ServerInv
    <3> QED
      BY <1>2, <2>2, <3>1 DEF ContentInv, ServerInv, ContentSurvives
  <2> QED
    BY <2>1, <2>2
<1> QED
  BY <1>6, <1>7, <1>8 DEF ServerInv

-----------------------------------------------------------------------------
(* What the service does with the first job.                               *)

\* The smaller of two numbers is one of them.
LEMMA Min2Facts ==
  ASSUME NEW a \in Nat, NEW b \in Nat
  PROVE  Min2(a, b) \in Nat /\ Min2(a, b) <= a /\ Min2(a, b) <= b
BY DEF Min2

\* Storing a content makes it the current one of a well-formed document.
LEMMA Stored ==
  ASSUME ServerTyped, NEW c \in PossibleContents, StoreContent(c)
  PROVE  document' \in [content: PossibleContents, history: Seq(Revision)]
         /\ document'.content = c
<1>1. CASE Unchanged(c)
  BY <1>1 DEF StoreContent, Unchanged, ServerTyped
<1>2. CASE ~Unchanged(c)
  <2> DEFINE new == <<[revision |-> NextRevision, content |-> c]>>
             all == new \o document.history
             n   == Min2(HistoryLimit, Len(document.history) + 1)
  <2>1. document' = [content |-> c, history |-> SubSeq(all, 1, n)]
    BY <1>2 DEF StoreContent
  <2>2. document.history \in Seq(Revision) /\ Len(document.history) \in Nat
    BY DEF ServerTyped
  <2>3. NextRevision \in Nat
    <3>1. CASE document.history = <<>>
      BY <3>1 DEF NextRevision
    <3>2. CASE document.history # <<>>
      <4>1. document.history[1] \in Revision
        BY <2>2, <3>2, EmptySeq
      <4> QED
        BY <3>2, <4>1 DEF NextRevision, Revision
    <3> QED
      BY <3>1, <3>2
  <2>4. new \in Seq(Revision) /\ Len(new) = 1
    BY <2>3 DEF Revision
  <2> HIDE DEF new, n
  <2>5. all \in Seq(Revision)
    BY <2>2, <2>4, ConcatProperties
  <2>5a. Len(all) = Len(document.history) + 1
    <3>1. Len(new \o document.history) = Len(new) + Len(document.history)
      BY <2>2, <2>4, ConcatProperties
    <3> QED
      BY <2>2, <2>4, <3>1
  <2> HIDE DEF all
  <2>6. n \in Nat /\ n <= Len(all)
    <3>1. HistoryLimit \in Nat /\ Len(document.history) + 1 \in Nat
      BY <2>2, ContentAssumption
    <3>2. n \in Nat /\ n <= Len(document.history) + 1
      BY <3>1, Min2Facts DEF n
    <3> QED
      BY <2>5a, <3>2
  <2>7. \A i \in 1..n : all[i] \in Revision
    BY <2>5, <2>6, ElementOfSeq
  <2>8. SubSeq(all, 1, n) \in Seq(Revision)
    BY <2>6, <2>7, SubSeqProperties
  <2> QED
    BY <2>1, <2>8
<1> QED
  BY <1>1, <1>2

\* What a job may write is a possible content.
LEMMA TargetsAreContents ==
  ASSUME ServerTyped, NEW j \in Job
  PROVE  Targets(j) \subseteq PossibleContents
<1>1. \A i \in Kept(j.revision) : document.history[i].content \in PossibleContents
  <2>1. document.history \in Seq(Revision)
    BY DEF ServerTyped
  <2>2. \A i \in DOMAIN document.history : document.history[i] \in Revision
    BY <2>1, ElementOfSeq, LenProperties
  <2> QED
    BY <2>2 DEF Kept, Revision
<1> QED
  BY <1>1 DEF Targets, Job

\* Writing the document brings it one write ahead of the catalog.
LEMMA WriteDocumentStep ==
  ASSUME ServerInv, WriteDocument
  PROVE  ServerInv'
<1>1. /\ jobs # <<>> /\ jobs[1].pc = "queued" /\ jobs[1].version = catalog
      /\ UNCHANGED <<catalog, unsure>>
  BY DEF WriteDocument, VersionMatches
<1>2. PICK c \in Targets(jobs[1]) :
         /\ StoreContent(c)
         /\ jobs' = [jobs EXCEPT ![1].pc = "written", ![1].content = c,
                                 ![1].wrote = ~Unchanged(c)]
  BY DEF WriteDocument
<1>3. jobs \in Seq(Job) /\ Len(jobs) \in Nat /\ 1 \in 1..Len(jobs) /\ jobs[1] \in Job
  BY <1>1, FirstJob DEF ServerInv, ServerTyped
<1>4. c \in PossibleContents
  BY <1>2, <1>3, TargetsAreContents DEF ServerInv
<1>5. PICK w \in BOOLEAN : w = ~Unchanged(c)
  BY DEF Unchanged
<1>6. PICK j : j = [jobs[1] EXCEPT !.pc = "written", !.content = c, !.wrote = w]
  OBVIOUS
<1>7. j \in Job /\ j.pc = "written" /\ j.content = c
      /\ j.version = jobs[1].version /\ j.base = jobs[1].base
  BY <1>3, <1>4, <1>6 DEF Job
<1>8. jobs' = [jobs EXCEPT ![1] = j]
  BY <1>2, <1>3, <1>5, <1>6
<1>9. /\ jobs' \in Seq(Job) /\ Len(jobs') = Len(jobs)
      /\ \A i \in 1..Len(jobs) : jobs'[i] = IF i = 1 THEN j ELSE jobs[i]
  BY <1>3, <1>7, <1>8, ExceptSeq
<1>10. ServerTyped' /\ document'.content = c
  BY <1>1, <1>2, <1>4, <1>9, Stored DEF ServerInv, ServerTyped
<1>11. JobsInv'
  BY <1>1, <1>3, <1>7, <1>9, <1>10 DEF ServerInv, JobsInv
<1>12. ContentSurvives'
  BY <1>3, <1>7, <1>9, EmptySeq DEF ContentSurvives
<1> QED
  BY <1>10, <1>11, <1>12 DEF ServerInv

\* Refusing a job takes it from the list and changes neither copy.
LEMMA JobRefusedStep ==
  ASSUME ServerInv, JobRefused, jobs' = Tail(jobs)
  PROVE  ServerInv'
<1>1. /\ jobs # <<>> /\ jobs[1].pc = "queued"
      /\ UNCHANGED <<document, catalog, unsure>>
  BY DEF JobRefused
<1>2. /\ jobs' \in Seq(Job)
      /\ \A i \in 1..Len(jobs') : jobs'[i].pc # "written"
                                   /\ jobs'[i].version = jobs'[i].base
  BY <1>1, JobLeaves DEF ServerInv
<1>3. ServerTyped' /\ JobsInv'
  BY <1>1, <1>2 DEF ServerInv, ServerTyped, JobsInv
<1>4. ContentSurvives'
  BY <1>1 DEF ServerInv, ContentSurvives
<1> QED
  BY <1>3, <1>4 DEF ServerInv

\* A finished job brings the catalog level with the document, from the catalog it was based on.
LEMMA JobDoneStep ==
  ASSUME ServerInv, JobDone
  PROVE  ServerInv' /\ jobs # <<>> /\ jobs[1].base = catalog
<1>1. /\ jobs # <<>> /\ jobs[1].pc = "written"
      /\ catalog' = jobs[1].content /\ unsure' = FALSE
      /\ jobs' = Tail(jobs) /\ UNCHANGED document
  BY DEF JobDone
<1>2. /\ jobs' \in Seq(Job)
      /\ \A i \in 1..Len(jobs') : jobs'[i].pc # "written"
                                   /\ jobs'[i].version = jobs'[i].base
  BY <1>1, JobLeaves DEF ServerInv
<1>3. 1 \in 1..Len(jobs) /\ jobs[1] \in Job
  BY <1>1, FirstJob DEF ServerInv
<1>4. /\ jobs[1].base = catalog
      /\ document.content = jobs[1].content
  BY <1>1, <1>3 DEF ServerInv, JobsInv
<1>5. ServerTyped' /\ JobsInv'
  BY <1>1, <1>2, <1>3 DEF ServerInv, ServerTyped, JobsInv, Job
<1>6. ContentSurvives'
  BY <1>1, <1>4 DEF ContentSurvives
<1> QED
  BY <1>1, <1>4, <1>5, <1>6 DEF ServerInv

\* A job that fails after its write leaves the document ahead, and says so.
LEMMA JobFailsLateStep ==
  ASSUME ServerInv, JobFailsLate
  PROVE  ServerInv'
<1>1. /\ jobs # <<>> /\ unsure' = TRUE
      /\ jobs' = Tail(jobs) /\ UNCHANGED <<document, catalog>>
  BY DEF JobFailsLate
<1>2. /\ jobs' \in Seq(Job)
      /\ \A i \in 1..Len(jobs') : jobs'[i].pc # "written"
                                   /\ jobs'[i].version = jobs'[i].base
  BY <1>1, JobLeaves DEF ServerInv
<1>3. ServerTyped' /\ JobsInv'
  BY <1>1, <1>2 DEF ServerInv, ServerTyped, JobsInv
<1> QED
  BY <1>1, <1>3 DEF ServerInv, ContentSurvives

\* A change of what clients are shown, in one step.
SeenOrLoaded ==
  catalog' # catalog =>
    \/ (jobs # <<>> /\ jobs[1].base = catalog)
    \/ (unsure /\ catalog' = Loaded)
    \/ (unsure' /\ catalog' = Initial)

\* What a restart shows instead is what a written job or a refused write left.
LEMMA RestartContentStep ==
  ASSUME ServerInv, RestartContent
  PROVE  ServerInv' /\ SeenOrLoaded
<1>1. /\ catalog' \in {Loaded, Initial} /\ unsure' = (catalog' # Loaded)
      /\ jobs' = <<>> /\ UNCHANGED document
  BY DEF RestartContent, LoadsAtBoot
<1>2. Initial \in PossibleContents /\ unsure' \in BOOLEAN
  BY <1>1 DEF PossibleContents
<1>3. ServerTyped'
  BY <1>1, <1>2, EmptySeq DEF ServerInv, ServerTyped, Loaded
<1>4. JobsInv'
  BY <1>1 DEF JobsInv
<1>5. ContentSurvives'
  BY <1>1 DEF ContentSurvives, Loaded
<1>6. CASE catalog' # Loaded
  BY <1>1, <1>3, <1>4, <1>5, <1>6 DEF ServerInv, SeenOrLoaded
<1>7. CASE catalog' = Loaded
  <2> SUFFICES ASSUME catalog' # catalog, ~unsure
               PROVE  jobs # <<>> /\ jobs[1].base = catalog
    BY <1>3, <1>4, <1>5, <1>7 DEF ServerInv, SeenOrLoaded
  <2>1. jobs # <<>> /\ jobs[1].pc = "written"
    BY <1>7 DEF ServerInv, ContentSurvives, Loaded
  <2> QED
    BY <2>1, FirstJob DEF ServerInv, JobsInv
<1> QED
  BY <1>6, <1>7

-----------------------------------------------------------------------------
(* The tabs.                                                               *)

\* One tab changes what it shows and keeps.
LEMMA OneTab ==
  ASSUME TabsInv, NEW t \in Tabs,
         NEW p \in Page, NEW r \in Recovery,
         NEW u \in PossibleContents \cup {Nothing}, NEW a \in BOOLEAN,
         page' = [page EXCEPT ![t] = p], recovery' = [recovery EXCEPT ![t] = r],
         unsaved' = [unsaved EXCEPT ![t] = u], agreed' = [agreed EXCEPT ![t] = a],
         p.version = p.saved, r.version = r.saved,
         p.at = "away" => u = Nothing,
         p.at = "loading" /\ u # Nothing => r.draft = u /\ r.draft # r.saved,
         p.at = "open" /\ u # Nothing => p.draft = u /\ p.draft # p.saved,
         p.at = "open" /\ p.draft # p.saved => p.guarded \/ a
  PROVE  TabsInv'
<1>1. TabsTyped'
  BY DEF TabsInv, TabsTyped
<1>2. ASSUME NEW q \in Tabs PROVE VersionFits(q)' /\ DraftInv(q)'
  <2>1. CASE q = t
    <3>1. page'[q] = p /\ recovery'[q] = r /\ unsaved'[q] = u /\ agreed'[q] = a
      BY <2>1 DEF TabsInv, TabsTyped
    <3> QED
      BY <3>1 DEF VersionFits, DraftInv, Dirty
  <2>2. CASE q # t
    <3>1. /\ page'[q] = page[q] /\ recovery'[q] = recovery[q]
          /\ unsaved'[q] = unsaved[q] /\ agreed'[q] = agreed[q]
      BY <2>2 DEF TabsInv, TabsTyped
    <3> QED
      BY <3>1 DEF TabsInv, VersionFits, DraftInv, Dirty
  <2> QED
    BY <2>1, <2>2
<1> QED
  BY <1>1, <1>2 DEF TabsInv

\* What the invariant says of one tab.
LEMMA TabFacts ==
  ASSUME TabsInv, NEW t \in Tabs
  PROVE  /\ page[t] \in Page /\ recovery[t] \in Recovery
         /\ unsaved[t] \in PossibleContents \cup {Nothing} /\ agreed[t] \in BOOLEAN
         /\ page = [page EXCEPT ![t] = page[t]]
         /\ recovery = [recovery EXCEPT ![t] = recovery[t]]
         /\ unsaved = [unsaved EXCEPT ![t] = unsaved[t]]
         /\ agreed = [agreed EXCEPT ![t] = agreed[t]]
         /\ VersionFits(t) /\ DraftInv(t)
BY DEF TabsInv, TabsTyped

\* The tabs stay well-formed when nothing of them changes.
LEMMA SameTabs ==
  ASSUME TabsInv, UNCHANGED <<page, recovery, unsaved, agreed>>
  PROVE  TabsInv'
BY DEF TabsInv, TabsTyped, VersionFits, DraftInv, Dirty

\* Opening a page keeps the tabs well-formed.
LEMMA OpenStep ==
  ASSUME ContentInv, NEW t \in Tabs, Open(t)
  PROVE  TabsInv'
<1> DEFINE p == [page[t] EXCEPT !.at = "loading"]
<1>1. /\ page[t].at = "away" /\ page' = [page EXCEPT ![t].at = "loading"]
      /\ UNCHANGED <<recovery, unsaved, agreed>>
  BY DEF Open
<1>2. TabsInv
  BY DEF ContentInv
<1>3. p \in Page /\ p.at = "loading" /\ p.version = p.saved
  BY <1>2, TabFacts DEF Page, VersionFits
<1>4. page' = [page EXCEPT ![t] = p]
  BY <1>1, <1>2 DEF TabsInv, TabsTyped
<1>5. unsaved[t] = Nothing
  BY <1>1, <1>2, TabFacts DEF DraftInv
<1> HIDE DEF p
<1>6. /\ recovery[t] \in Recovery /\ recovery[t].version = recovery[t].saved
      /\ unsaved[t] \in PossibleContents \cup {Nothing} /\ agreed[t] \in BOOLEAN
      /\ recovery' = [recovery EXCEPT ![t] = recovery[t]]
      /\ unsaved' = [unsaved EXCEPT ![t] = unsaved[t]]
      /\ agreed' = [agreed EXCEPT ![t] = agreed[t]]
  BY <1>1, <1>2, TabFacts DEF VersionFits
<1>7. ~(p.at = "away") /\ ~(p.at = "open")
  BY <1>3
<1> QED
  BY <1>2, <1>3, <1>4, <1>5, <1>6, <1>7, OneTab

\* A loaded page takes the recovered draft or the catalog's content.
LEMMA LoadAnsweredStep ==
  ASSUME ContentInv, NEW t \in Tabs, LoadAnswered(t)
  PROVE  TabsInv'
<1> DEFINE r == Recovered(t)
           p == [at |-> "open", draft |-> r.draft, saved |-> r.saved,
                 version |-> r.version, guarded |-> r.draft # r.saved]
<1>1. /\ page[t].at = "loading"
      /\ page' = [page EXCEPT ![t] = p]
      /\ recovery' = [recovery EXCEPT ![t] = NoDraft]
      /\ agreed' = [agreed EXCEPT ![t] = FALSE]
      /\ UNCHANGED unsaved
  BY DEF LoadAnswered
<1>2. TabsInv /\ catalog \in PossibleContents
  BY DEF ContentInv, ServerInv, ServerTyped
<1>3. recovery[t] \in Recovery /\ VersionFits(t) /\ DraftInv(t)
  BY <1>2, TabFacts
<1>4. /\ r.draft \in PossibleContents /\ r.saved \in PossibleContents /\ r.version = r.saved
      /\ recovery[t].draft # Nothing => r = recovery[t]
  BY <1>2, <1>3 DEF Recovered, Recovery, VersionFits
<1>5. NoDraft \in Recovery /\ NoDraft.version = NoDraft.saved
  BY DEF NoDraft, Recovery, PossibleContents
<1>6. unsaved[t] # Nothing => r.draft = unsaved[t] /\ r.draft # r.saved
  BY <1>1, <1>3, <1>4 DEF DraftInv
<1> HIDE DEF r
<1>7. p \in Page /\ p.at = "open" /\ p.version = p.saved
      /\ p.draft = r.draft /\ p.saved = r.saved
      /\ (p.draft # p.saved => p.guarded)
  BY <1>4 DEF Page
<1> HIDE DEF p
<1>8. /\ unsaved[t] \in PossibleContents \cup {Nothing}
      /\ unsaved' = [unsaved EXCEPT ![t] = unsaved[t]]
  BY <1>1, <1>2, TabFacts
<1>9. ~(p.at = "away") /\ ~(p.at = "loading")
  BY <1>7
<1>10. unsaved[t] # Nothing => p.draft = unsaved[t] /\ p.draft # p.saved
  BY <1>6, <1>7
<1> QED
  BY <1>1, <1>2, <1>5, <1>7, <1>8, <1>9, <1>10, OneTab

\* The shell's guard follows the page: a draft that becomes dirty is guarded,
\* one that stays dirty is guarded as it was.
LEMMA Shown ==
  ASSUME TabsInv, NEW t \in Tabs, NEW new \in Page, ShowPage(t, new),
         new.guarded = page[t].guarded
  PROVE  \E p \in Page :
           /\ page' = [page EXCEPT ![t] = p]
           /\ p.at = new.at /\ p.draft = new.draft /\ p.saved = new.saved
           /\ p.version = new.version
           /\ p.draft # p.saved =>
                p.guarded \/ (Dirty(t) /\ p.guarded = page[t].guarded)
<1> DEFINE dirty == new.draft # new.saved
<1>1. CASE dirty = Dirty(t)
  <2>1. page' = [page EXCEPT ![t] = new]
    BY <1>1 DEF ShowPage
  <2> QED
    BY <1>1, <2>1
<1>2. CASE dirty # Dirty(t)
  <2>1. page' = [page EXCEPT ![t] = [new EXCEPT !.guarded = dirty]]
    BY <1>2 DEF ShowPage
  <2>2. [new EXCEPT !.guarded = dirty] \in Page
    BY DEF Page
  <2>3. [new EXCEPT !.guarded = dirty].guarded = dirty
    BY DEF Page
  <2> QED
    BY <2>1, <2>2, <2>3 DEF Page
<1> QED
  BY <1>1, <1>2

\* Typing changes one tab's draft only.
LEMMA EditStep ==
  ASSUME ContentInv, NEW t \in Tabs, NEW c \in Types(t), Edit(t, c)
  PROVE  TabsInv'
<1> DEFINE new == [page[t] EXCEPT !.draft = c]
           u == IF c = page[t].saved THEN Nothing ELSE c
           a == agreed[t] /\ c # page[t].saved
<1>1. /\ page[t].at = "open" /\ ShowPage(t, new)
      /\ unsaved' = [unsaved EXCEPT ![t] = u]
      /\ agreed' = [agreed EXCEPT ![t] = a]
      /\ UNCHANGED recovery
  BY DEF Edit
<1>2. TabsInv
  BY DEF ContentInv
<1>3. c \in PossibleContents
  BY DEF PossibleContents
<1>4. /\ new \in Page /\ new.guarded = page[t].guarded /\ new.at = "open"
      /\ new.draft = c /\ new.saved = page[t].saved /\ new.version = new.saved
  BY <1>1, <1>2, <1>3, TabFacts DEF Page, VersionFits
<1>5. PICK p \in Page :
         /\ page' = [page EXCEPT ![t] = p]
         /\ p.at = new.at /\ p.draft = new.draft /\ p.saved = new.saved
         /\ p.version = new.version
         /\ p.draft # p.saved => p.guarded \/ (Dirty(t) /\ p.guarded = page[t].guarded)
  BY <1>1, <1>2, <1>4, Shown
<1>6. a \in BOOLEAN /\ u \in PossibleContents \cup {Nothing}
  BY <1>2, <1>3, TabFacts
<1>7. p.draft # p.saved => p.guarded \/ a
  BY <1>1, <1>2, <1>4, <1>5, TabFacts DEF DraftInv
<1>8. u # Nothing => p.draft = u /\ p.draft # p.saved
  BY <1>4, <1>5
<1>9. p.at = "open" /\ p.version = p.saved
  BY <1>4, <1>5
<1>10. /\ recovery[t] \in Recovery /\ recovery[t].version = recovery[t].saved
       /\ recovery' = [recovery EXCEPT ![t] = recovery[t]]
  BY <1>1, <1>2, TabFacts DEF VersionFits
<1>11. ~(p.at = "away") /\ ~(p.at = "loading")
  BY <1>9
<1>12. /\ page' = [page EXCEPT ![t] = p] /\ unsaved' = [unsaved EXCEPT ![t] = u]
       /\ agreed' = [agreed EXCEPT ![t] = a]
  BY <1>1, <1>5
<1> HIDE DEF u, a, new
<1> QED
  BY <1>2, <1>6, <1>7, <1>8, <1>9, <1>10, <1>11, <1>12, OneTab

\* Taking an answer keeps what was typed since its request was sent.
LEMMA AcceptStep ==
  ASSUME ContentInv, NEW t \in Tabs, NEW k \in Kinds, NEW c \in PossibleContents,
         Accept(t, k, c), UNCHANGED recovery
  PROVE  TabsInv'
<1> DEFINE sent == request[t][k]
           new == TakeAnswer(t, sent, c)
           u == IF unsaved[t] \in {sent, c} THEN Nothing ELSE unsaved[t]
           a == agreed[t] /\ page'[t].draft # c
<1>1. /\ ShowPage(t, new)
      /\ unsaved' = [unsaved EXCEPT ![t] = u]
      /\ agreed' = [agreed EXCEPT ![t] = a]
  <2>1. ShowPage(t, new)
    BY DEF Accept
  <2>2. unsaved' = [unsaved EXCEPT ![t] = u]
    BY DEF Accept
  <2>3. agreed' = [agreed EXCEPT ![t] = a]
    BY DEF Accept
  <2> QED
    BY <2>1, <2>2, <2>3
<1>2. TabsInv
  BY DEF ContentInv
<1>3. /\ new \in Page /\ new.guarded = page[t].guarded /\ new.at = page[t].at
      /\ new.draft = (IF page[t].draft = sent THEN c ELSE page[t].draft)
      /\ new.saved = c /\ new.version = c
  BY <1>2, TabFacts DEF TakeAnswer, Page
<1>4. PICK p \in Page :
         /\ page' = [page EXCEPT ![t] = p]
         /\ p.at = new.at /\ p.draft = new.draft /\ p.saved = new.saved
         /\ p.version = new.version
         /\ p.draft # p.saved => p.guarded \/ (Dirty(t) /\ p.guarded = page[t].guarded)
  BY <1>1, <1>2, <1>3, Shown
<1>5. PICK b \in BOOLEAN : b = (agreed[t] /\ p.draft # c)
  OBVIOUS
<1>6. agreed' = [agreed EXCEPT ![t] = b]
  <2>1. page'[t] = p
    BY <1>2, <1>4 DEF TabsInv, TabsTyped
  <2> QED
    BY <1>1, <1>5, <2>1
<1>7. u \in PossibleContents \cup {Nothing}
  BY <1>2, TabFacts
<1>8. p.at = "open" /\ p.draft # p.saved => p.guarded \/ b
  BY <1>2, <1>3, <1>4, <1>5, TabFacts DEF DraftInv
<1>9. p.at = "open" /\ u # Nothing => p.draft = u /\ p.draft # p.saved
  BY <1>2, <1>3, <1>4, TabFacts DEF DraftInv
<1>10. /\ p.at = "loading" /\ u # Nothing =>
            recovery[t].draft = u /\ recovery[t].draft # recovery[t].saved
       /\ p.at = "away" => u = Nothing
  BY <1>2, <1>3, <1>4, TabFacts DEF DraftInv
<1>11. p.version = p.saved
  BY <1>3, <1>4
<1>12. /\ recovery[t] \in Recovery /\ recovery[t].version = recovery[t].saved
       /\ recovery' = [recovery EXCEPT ![t] = recovery[t]]
  BY <1>2, TabFacts DEF VersionFits
<1>13. /\ page' = [page EXCEPT ![t] = p] /\ unsaved' = [unsaved EXCEPT ![t] = u]
  BY <1>1, <1>4
<1> HIDE DEF u, a, new, sent
<1> QED
  BY <1>2, <1>6, <1>7, <1>8, <1>9, <1>10, <1>11, <1>12, <1>13, OneTab

\* A refused session puts the draft aside and shows the login form.
LEMMA UnauthorizedStep ==
  ASSUME ContentInv, NEW t \in Tabs, Unauthorized(t)
  PROVE  TabsInv'
<1> DEFINE p == [NoPage EXCEPT !.at = "loading"]
           kept == [draft |-> page[t].draft, saved |-> page[t].saved,
                    version |-> page[t].version]
<1>1. /\ page[t].at = "open" /\ Preserve(t)
      /\ page' = [page EXCEPT ![t] = p]
      /\ UNCHANGED <<unsaved, agreed>>
  BY DEF Unauthorized, GoTo
<1>2. TabsInv
  BY DEF ContentInv
<1>3. p \in Page /\ p.at = "loading" /\ p.version = p.saved
  BY DEF Page, NoPage, PossibleContents
<1>4. /\ unsaved[t] \in PossibleContents \cup {Nothing} /\ agreed[t] \in BOOLEAN
      /\ unsaved' = [unsaved EXCEPT ![t] = unsaved[t]]
      /\ agreed' = [agreed EXCEPT ![t] = agreed[t]]
  BY <1>1, <1>2, TabFacts
<1>5. ~(p.at = "away") /\ ~(p.at = "open")
  BY <1>3
<1> HIDE DEF p
<1>6. CASE Dirty(t)
  <2>1. recovery' = [recovery EXCEPT ![t] = kept]
    BY <1>1, <1>6 DEF Preserve
  <2>2. kept \in Recovery /\ kept.version = kept.saved
    BY <1>2, TabFacts DEF Page, Recovery, VersionFits
  <2>3. unsaved[t] # Nothing => kept.draft = unsaved[t] /\ kept.draft # kept.saved
    BY <1>1, <1>2, <1>6, TabFacts DEF DraftInv, Dirty
  <2> HIDE DEF kept
  <2> QED
    BY <1>1, <1>2, <1>3, <1>4, <1>5, <2>1, <2>2, <2>3, OneTab
<1>7. CASE ~Dirty(t)
  <2>1. /\ recovery[t] \in Recovery /\ recovery[t].version = recovery[t].saved
        /\ recovery' = [recovery EXCEPT ![t] = recovery[t]]
    BY <1>1, <1>2, <1>7, TabFacts DEF Preserve, VersionFits
  <2>2. unsaved[t] = Nothing
    BY <1>1, <1>2, <1>7, TabFacts DEF DraftInv
  <2> QED
    BY <1>1, <1>2, <1>3, <1>4, <1>5, <2>1, <2>2, OneTab
<1> QED
  BY <1>6, <1>7

\* Whoever is asked, by the shell or the browser, has nothing unsaved after.
LEMMA GivesUp ==
  ASSUME ContentInv, NEW t \in Tabs, page[t].at = "open",
         NEW asked \in {page[t].guarded, Dirty(t)}, GiveUp(t, asked),
         GoTo(t, "away"), UNCHANGED recovery
  PROVE  TabsInv'
<1> DEFINE p == [NoPage EXCEPT !.at = "away"]
<1>1. page' = [page EXCEPT ![t] = p]
  BY DEF GoTo
<1>2. TabsInv
  BY DEF ContentInv
<1>3. p \in Page /\ p.at = "away" /\ p.version = p.saved
  BY DEF Page, NoPage, PossibleContents
<1>4. unsaved[t] # Nothing => asked \/ agreed[t]
  BY <1>2, TabFacts DEF DraftInv
<1>5. unsaved' = [unsaved EXCEPT ![t] = Nothing]
  <2>1. CASE asked \/ agreed[t]
    BY <2>1 DEF GiveUp
  <2>2. CASE ~(asked \/ agreed[t])
    BY <1>4, <2>2 DEF GiveUp
  <2> QED
    BY <2>1, <2>2
<1>6. agreed' = [agreed EXCEPT ![t] = FALSE]
  BY DEF GiveUp
<1>7. /\ recovery[t] \in Recovery /\ recovery[t].version = recovery[t].saved
      /\ recovery' = [recovery EXCEPT ![t] = recovery[t]]
  BY <1>2, TabFacts DEF VersionFits
<1>8. ~(p.at = "open") /\ ~(p.at = "loading")
  BY <1>3
<1> HIDE DEF p
<1> QED
  BY <1>1, <1>2, <1>3, <1>5, <1>6, <1>7, <1>8, OneTab

\* Leaving the page drops its draft only after the operator agreed.
LEMMA LeaveStep ==
  ASSUME ContentInv, NEW t \in Tabs, Leave(t)
  PROVE  TabsInv'
<1>1. /\ page[t].at = "open" /\ GoTo(t, "away") /\ UNCHANGED recovery
      /\ GiveUp(t, page[t].guarded) \/ GiveUp(t, Dirty(t))
  BY DEF Leave, Asks
<1> QED
  BY <1>1, GivesUp

\* Logging out drops the draft only after the operator agreed.
LEMMA LogOutStep ==
  ASSUME ContentInv, NEW t \in Tabs, LogOut(t)
  PROVE  TabsInv'
<1>1. page[t].at = "open" /\ UNCHANGED recovery
  BY DEF LogOut
<1>2. CASE GiveUp(t, page[t].guarded) /\ GoTo(t, "away")
  BY <1>1, <1>2, GivesUp
<1>3. CASE /\ page' = [page EXCEPT ![t].guarded = FALSE]
           /\ agreed' = [agreed EXCEPT ![t] = @ \/ Asks(t)]
           /\ UNCHANGED unsaved
  <2> DEFINE p == [page[t] EXCEPT !.guarded = FALSE]
  <2>1. TabsInv
    BY DEF ContentInv
  <2>2. page' = [page EXCEPT ![t] = p]
    BY <1>3, <2>1 DEF TabsInv, TabsTyped
  <2>3. /\ p \in Page /\ p.at = "open" /\ p.version = p.saved
        /\ p.draft = page[t].draft /\ p.saved = page[t].saved
    BY <1>1, <2>1, TabFacts DEF Page, VersionFits
  <2>4. PICK a \in BOOLEAN : a = (agreed[t] \/ page[t].guarded)
    OBVIOUS
  <2>5. agreed' = [agreed EXCEPT ![t] = a]
    BY <1>3, <2>1, <2>4 DEF Asks, TabsInv, TabsTyped
  <2>6. p.draft # p.saved => p.guarded \/ a
    BY <1>1, <2>1, <2>3, <2>4, TabFacts DEF DraftInv, Dirty
  <2>7. unsaved[t] # Nothing => p.draft = unsaved[t] /\ p.draft # p.saved
    BY <1>1, <2>1, <2>3, TabFacts DEF DraftInv, Dirty
  <2>8. ~(p.at = "away") /\ ~(p.at = "loading")
    BY <2>3
  <2>9. /\ recovery[t] \in Recovery /\ recovery[t].version = recovery[t].saved
        /\ recovery' = [recovery EXCEPT ![t] = recovery[t]]
        /\ unsaved[t] \in PossibleContents \cup {Nothing}
        /\ unsaved' = [unsaved EXCEPT ![t] = unsaved[t]]
    BY <1>1, <1>3, <2>1, TabFacts DEF VersionFits
  <2> HIDE DEF p
  <2> QED
    BY <2>1, <2>2, <2>3, <2>5, <2>6, <2>7, <2>8, <2>9, OneTab
<1> QED
  BY <1>2, <1>3 DEF LogOut, Asks

-----------------------------------------------------------------------------
(* All together.                                                           *)

\* The server's half stays good when nothing of it changes.
LEMMA SameServer ==
  ASSUME ServerInv, UNCHANGED server
  PROVE  ServerInv'
BY DEF server, ServerInv, ServerTyped, JobsInv, ContentSurvives

\* An error answer ends the tab's wait and keeps its draft.
LEMMA AnswerErrorTabs ==
  ASSUME ContentInv, NEW j \in Job, AnswerError(j), UNCHANGED recovery
  PROVE  TabsInv'
BY SameTabs DEF ContentInv, AnswerError, Reject

\* A step of a tab keeps the invariant and leaves the catalog alone.
LEMMA TabStep ==
  ASSUME ContentInv, NEW t \in Tabs,
         \/ Open(t) \/ LoadAnswered(t) \/ Login(t)
         \/ \E c \in Types(t) : Edit(t, c)
         \/ Unauthorized(t) \/ \E k \in Kinds : AnswerLost(t, k)
         \/ Leave(t) \/ LogOut(t)
  PROVE  ContentInv' /\ UNCHANGED catalog
<1> USE DEF ContentInv
<1>1. CASE Open(t)
  BY <1>1, OpenStep, SameServer DEF Open, server
<1>2. CASE LoadAnswered(t)
  BY <1>2, LoadAnsweredStep, SameServer DEF LoadAnswered, server
<1>3. CASE Login(t)
  BY <1>3, SameTabs, SameServer DEF Login, server, browser
<1>4. CASE \E c \in Types(t) : Edit(t, c)
  <2>1. UNCHANGED server
    BY <1>4 DEF Edit
  <2> QED
    BY <1>4, <2>1, EditStep, SameServer DEF server
<1>5. CASE Unauthorized(t)
  <2>1. Detach(t) /\ UNCHANGED <<document, catalog, unsure>>
    BY <1>5 DEF Unauthorized, GoTo
  <2> QED
    BY <1>5, <2>1, UnauthorizedStep, DetachStep
<1>6. CASE \E k \in Kinds : AnswerLost(t, k)
  <2>1. UNCHANGED <<page, recovery, unsaved, agreed, catalog>>
    BY <1>6 DEF AnswerLost, Reject
  <2> QED
    BY <1>6, <2>1, SameTabs, AnswerLostStep
<1>7. CASE Leave(t)
  <2>1. Detach(t) /\ UNCHANGED <<document, catalog, unsure>>
    BY <1>7 DEF Leave, GoTo
  <2> QED
    BY <1>7, <2>1, LeaveStep, DetachStep
<1>8. CASE LogOut(t)
  <2>1. UNCHANGED <<document, catalog, unsure>> /\ (Detach(t) \/ UNCHANGED jobs)
    BY <1>8 DEF LogOut, GoTo
  <2> QED
    BY <1>8, <2>1, LogOutStep, DetachStep, SameServer DEF server
<1> QED
  BY <1>1, <1>2, <1>3, <1>4, <1>5, <1>6, <1>7, <1>8

\* Asking to save or to restore keeps the invariant and leaves the catalog alone.
LEMMA SaveOrRestoreStep ==
  ASSUME ContentInv, NEW t \in Tabs, Save(t) \/ Restore(t)
  PROVE  ContentInv' /\ UNCHANGED catalog
<1>1. PICK k \in Kinds, job \in Unsent : Send(t, k, job)
  <2>a. Initial \in PossibleContents
    BY DEF PossibleContents
  <2>1. \A c \in PossibleContents : [NoJob EXCEPT !.content = c] \in Unsent
    BY <2>a DEF NoJob, Unsent, Kinds
  <2>2. \A n \in 1..MaxRevision : [NoJob EXCEPT !.revision = n] \in Unsent
    <3> SUFFICES ASSUME NEW n \in 1..MaxRevision
                 PROVE  [NoJob EXCEPT !.revision = n] \in Unsent
      OBVIOUS
    <3>1. n \in Nat
      BY ContentAssumption
    <3> QED
      BY <2>a, <3>1 DEF NoJob, Unsent, Kinds
  <2>3. page[t].draft \in PossibleContents
    BY DEF ContentInv, TabsInv, TabsTyped, Page
  <2> QED
    BY <2>1, <2>2, <2>3 DEF Save, Restore, Kinds
<1>2. UNCHANGED <<page, recovery, unsaved, agreed, catalog>>
  BY <1>1 DEF Send
<1> QED
  BY <1>1, <1>2, SendStep, SameTabs DEF ContentInv

\* A step of the worker keeps the invariant; the catalog changes only from the one its job was based on.
LEMMA ServerStep ==
  ASSUME ContentInv, WriteDocument \/ JobRefused \/ JobDone \/ JobFailsLate
  PROVE  /\ ContentInv'
         /\ catalog' # catalog => jobs # <<>> /\ jobs[1].base = catalog
<1>1. jobs # <<>> /\ jobs[1] \in Job /\ UNCHANGED recovery
  BY FirstJob DEF ContentInv, ServerInv, WriteDocument, JobRefused, JobDone, JobFailsLate,
                  browser
<1>2. CASE WriteDocument
  BY <1>2, WriteDocumentStep, SameTabs DEF ContentInv, WriteDocument, browser
<1>3. CASE JobRefused
  <2>1. jobs' = Tail(jobs) /\ AnswerError(jobs[1]) /\ UNCHANGED catalog
    BY <1>3 DEF JobRefused
  <2> QED
    BY <1>1, <1>3, <2>1, JobRefusedStep, AnswerErrorTabs DEF ContentInv
<1>4. CASE JobDone
  <2>1. AnswerOk(jobs[1])
    BY <1>4 DEF JobDone
  <2>2. /\ jobs[1].tab \in Tabs /\ jobs[1].kind \in Kinds
        /\ jobs[1].content \in PossibleContents
    BY <1>1 DEF Job
  <2>3. TabsInv'
    BY <1>1, <2>1, <2>2, AcceptStep, SameTabs DEF ContentInv, AnswerOk
  <2> QED
    BY <1>4, <2>3, JobDoneStep DEF ContentInv
<1>5. CASE JobFailsLate
  <2>1. AnswerError(jobs[1]) /\ UNCHANGED catalog
    BY <1>5 DEF JobFailsLate
  <2> QED
    BY <1>1, <1>5, <2>1, JobFailsLateStep, AnswerErrorTabs DEF ContentInv
<1> QED
  BY <1>2, <1>3, <1>4, <1>5

\* Every step of the component, a restart included, keeps the invariant.
LEMMA ContentStep ==
  ContentInv /\ [ContentNext \/ RestartContent]_contentVars =>
    ContentInv' /\ SeenOrLoaded
<1> SUFFICES ASSUME ContentInv, [ContentNext \/ RestartContent]_contentVars
             PROVE  ContentInv' /\ SeenOrLoaded
  OBVIOUS
<1>1. CASE \E t \in Tabs :
             \/ Open(t) \/ LoadAnswered(t) \/ Login(t)
             \/ \E c \in Types(t) : Edit(t, c)
             \/ Unauthorized(t) \/ \E k \in Kinds : AnswerLost(t, k)
             \/ Leave(t) \/ LogOut(t)
  BY <1>1, TabStep DEF SeenOrLoaded
<1>2. CASE \E t \in Tabs : Save(t) \/ Restore(t)
  BY <1>2, SaveOrRestoreStep DEF SeenOrLoaded
<1>3. CASE SessionExpires
  BY <1>3, SameTabs, SameServer
     DEF SessionExpires, ContentInv, SeenOrLoaded, server, browser
<1>4. CASE WriteDocument \/ JobRefused \/ JobDone \/ JobFailsLate
  BY <1>4, ServerStep DEF SeenOrLoaded
<1>5. CASE RestartContent
  <2>1. UNCHANGED <<page, recovery, unsaved, agreed>>
    BY <1>5 DEF RestartContent
  <2> QED
    BY <1>5, <2>1, RestartContentStep, SameTabs DEF ContentInv
<1>6. CASE UNCHANGED contentVars
  BY <1>6, SameTabs, SameServer DEF contentVars, ContentInv, SeenOrLoaded, server, browser
<1> QED
  BY <1>1, <1>2, <1>3, <1>4, <1>5, <1>6 DEF ContentNext

\* The invariant contains the two properties.
LEMMA ContentInv_Kept == ContentInv => DraftIsKept /\ ContentSurvives
<1> SUFFICES ASSUME ContentInv, NEW t \in Tabs, unsaved[t] # Nothing
             PROVE  \/ (page[t].at = "open" /\ page[t].draft = unsaved[t])
                    \/ recovery[t].draft = unsaved[t]
  BY DEF ContentInv, ServerInv, DraftIsKept
<1> QED
  BY TabFacts DEF ContentInv, DraftInv, Page
=============================================================================
