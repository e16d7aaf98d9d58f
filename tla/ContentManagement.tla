-------------------------- MODULE ContentManagement --------------------------
(***************************************************************************)
(* The texts clients are shown: administrators edit them in browser tabs,  *)
(* ContentManagementService checks and saves them one request at a time,   *)
(* and the document with its history survives restarts.                    *)
(*                                                                         *)
(* A request is sent, waits in the service's queue, is served from one     *)
(* await to the next and answered, or its answer is lost; the user goes on *)
(* typing meanwhile.  An answer that takes time is not told from a user    *)
(* who acts later.  Sessions live in the server's memory, and a tab        *)
(* without one is sent to the login page.                                  *)
(*                                                                         *)
(* The version of a content is a hash of it: the model takes the content   *)
(* itself for its version.  Definitions marked "slip" are wrong variants   *)
(* of the definition that follows them; no specification uses them.        *)
(***************************************************************************)
EXTENDS Naturals, Sequences, FiniteSets

CONSTANTS
  Tabs,
  Types(_),      \* bound: the contents a tab's user types
  Initial,       \* the content of a new installation
  Nothing,       \* no text
  HistoryLimit,  \* revisions kept, 20 in the code
  MaxRevision,   \* bound: revisions written in all
  MaxQueue       \* bound: requests in progress

ASSUME ContentAssumption ==
  /\ HistoryLimit \in Nat \ {0} /\ MaxRevision \in Nat /\ MaxQueue \in Nat

VARIABLES
  document,  \* the settings file: content, and history with the newest first
  catalog,   \* the content in memory, which clients are shown
  jobs,      \* the service's queue, the first of it being served
  session,   \* whether the server knows the session, of all tabs of a browser
  page,      \* what each tab shows
  request,   \* the draft at the time of the save or restore a tab awaits
  recovery,  \* the draft each tab keeps in its sessionStorage
  unsaved,   \* history: text the user has typed and not given up
  agreed,    \* history: the user agreed to leave before a logout that failed
  unsure     \* history: the file may hold what clients are not shown

server == <<document, catalog, jobs, unsure>>
browser == <<page, request, recovery, unsaved, agreed>>
contentVars == <<server, session, browser>>

Kinds == {"save", "restore"}

NoPage == [at |-> "away", draft |-> Initial, saved |-> Initial,
           version |-> Initial, guarded |-> FALSE]
NoDraft == [draft |-> Nothing, saved |-> Initial, version |-> Initial]

Dirty(t) == page[t].draft # page[t].saved

-----------------------------------------------------------------------------
(* The tab: AdminShell, the workspace and the draft it recovers.           *)

\* The workspace tells the shell when its draft becomes dirty or clean; the
\* shell's guard stands as it was told last.
ShowPage(t, new) ==
  LET dirty == new.draft # new.saved IN
  page' = [page EXCEPT ![t] =
             IF dirty # Dirty(t) THEN [new EXCEPT !.guarded = dirty] ELSE new]

\* A workspace that is unmounted hears no answer any more.
Detach(t) ==
  /\ request' = [request EXCEPT ![t] = [k \in Kinds |-> Nothing]]
  /\ jobs' = [i \in DOMAIN jobs |->
                IF jobs[i].tab = t THEN [jobs[i] EXCEPT !.heard = FALSE]
                ELSE jobs[i]]

GoTo(t, place) ==
  /\ page' = [page EXCEPT ![t] = [NoPage EXCEPT !.at = place]]
  /\ Detach(t)

Open(t) ==
  /\ page[t].at = "away"
  /\ page' = [page EXCEPT ![t].at = "loading"]
  /\ UNCHANGED <<server, session, request, recovery, unsaved, agreed>>

\* slip: the draft is recovered with the version of today.
RecoverAsNew(t) ==
  IF recovery[t].draft = Nothing
  THEN [draft |-> catalog, saved |-> catalog, version |-> catalog]
  ELSE [recovery[t] EXCEPT !.version = catalog]

\* What the workspace starts from: the recovered draft with the version it was
\* written for, or what the server has.
Recovered(t) ==
  IF recovery[t].draft = Nothing
  THEN [draft |-> catalog, saved |-> catalog, version |-> catalog]
  ELSE recovery[t]

\* requireAuthorization, before every route of the console.
Authorized == session

LoadAnswered(t) ==
  /\ page[t].at = "loading" /\ Authorized
  /\ LET r == Recovered(t) IN
       page' = [page EXCEPT ![t] =
                  [at |-> "open", draft |-> r.draft, saved |-> r.saved,
                   version |-> r.version, guarded |-> r.draft # r.saved]]
  /\ recovery' = [recovery EXCEPT ![t] = NoDraft]
  /\ agreed' = [agreed EXCEPT ![t] = FALSE]
  /\ UNCHANGED <<server, session, request, unsaved>>

StartSession == session' = TRUE
EndSession == session' = FALSE

\* Without a session the login page comes first.
Login(t) ==
  /\ page[t].at = "loading" /\ ~Authorized
  /\ StartSession
  /\ UNCHANGED <<server, browser>>

Edit(t, c) ==
  /\ page[t].at = "open" /\ c # page[t].draft
  /\ ShowPage(t, [page[t] EXCEPT !.draft = c])
  /\ unsaved' = [unsaved EXCEPT ![t] = IF c = page[t].saved THEN Nothing ELSE c]
  /\ agreed' = [agreed EXCEPT ![t] = agreed[t] /\ c # page[t].saved]
  /\ UNCHANGED <<server, session, request, recovery>>

\* preserveContentDraft.
Preserve(t) ==
  recovery' = IF Dirty(t)
              THEN [recovery EXCEPT ![t] =
                      [draft |-> page[t].draft, saved |-> page[t].saved,
                       version |-> page[t].version]]
              ELSE recovery

\* A save, a restore or a refresh of the history is answered with 401: the
\* shell leaves for the login page.
Unauthorized(t) ==
  /\ page[t].at = "open" /\ ~Authorized
  /\ Preserve(t) /\ GoTo(t, "loading")
  /\ UNCHANGED <<document, catalog, unsure, session, unsaved, agreed>>

\* A save or a restore is sent.
Send(t, k, job) ==
  /\ page[t].at = "open" /\ request[t][k] = Nothing
  /\ Authorized /\ Len(jobs) < MaxQueue
  /\ jobs' = Append(jobs, [job EXCEPT !.tab = t, !.kind = k,
                                      !.version = page[t].version,
                                      !.base = page[t].saved])
  /\ request' = [request EXCEPT ![t][k] = page[t].draft]
  /\ UNCHANGED <<document, catalog, unsure, session, page, recovery, unsaved,
                 agreed>>

\* The fields of a job that Send sets are given as they come.
NoJob == [tab |-> Nothing, kind |-> "save", pc |-> "queued", heard |-> TRUE,
          content |-> Initial, revision |-> 0, version |-> Initial,
          base |-> Initial, wrote |-> FALSE]

Save(t) == Dirty(t) /\ Send(t, "save", [NoJob EXCEPT !.content = page[t].draft])

\* The history a tab shows may be out of date: any revision is asked for.
Restore(t) ==
  \E n \in 1..MaxRevision : Send(t, "restore", [NoJob EXCEPT !.revision = n])

\* slip: what was typed while the request was awaited is replaced, too.
ReplaceDraft(t, sent, c) ==
  [page[t] EXCEPT !.draft = c, !.saved = c, !.version = c]

\* The answer of a save or a restore takes the place of the draft unless that
\* was edited after the request was sent.
TakeAnswer(t, sent, c) ==
  [page[t] EXCEPT !.draft = IF @ = sent THEN c ELSE @, !.saved = c, !.version = c]

\* The tab hears that the content is now c.
Accept(t, k, c) ==
  LET sent == request[t][k] IN
  /\ ShowPage(t, TakeAnswer(t, sent, c))
  /\ unsaved' = [unsaved EXCEPT ![t] = IF @ \in {sent, c} THEN Nothing ELSE @]
  /\ agreed' = [agreed EXCEPT ![t] = @ /\ page'[t].draft # c]
  /\ request' = [request EXCEPT ![t][k] = Nothing]

\* The tab hears of an error, of any but a missing session: the draft stays.
Reject(t, k) ==
  /\ request' = [request EXCEPT ![t][k] = Nothing]
  /\ UNCHANGED <<page, unsaved, agreed>>

\* The connection breaks; the server may still serve what it received.
AnswerLost(t, k) ==
  /\ request[t][k] # Nothing
  /\ Reject(t, k)
  /\ jobs' = [i \in DOMAIN jobs |->
                IF jobs[i].tab = t /\ jobs[i].kind = k
                THEN [jobs[i] EXCEPT !.heard = FALSE] ELSE jobs[i]]
  /\ UNCHANGED <<document, catalog, unsure, session, recovery>>

\* The shell asks before the page is left, as far as it was told.
Asks(t) == page[t].guarded

\* History: what the user agreed to lose is not kept.
GiveUp(t, asked) ==
  /\ unsaved' = [unsaved EXCEPT ![t] = IF asked \/ agreed[t] THEN Nothing ELSE @]
  /\ agreed' = [agreed EXCEPT ![t] = FALSE]

\* Another page of the console is opened, or the tab's page is reloaded: the
\* shell asks in the one case, the browser in the other.
Leave(t) ==
  /\ page[t].at = "open"
  /\ GiveUp(t, Asks(t)) \/ GiveUp(t, Dirty(t))
  /\ GoTo(t, "away")
  /\ UNCHANGED <<document, catalog, unsure, session, recovery>>

\* logOut: the guard is given up before the server has answered.
LogOut(t) ==
  /\ page[t].at = "open"
  /\ \/ /\ EndSession
        /\ GiveUp(t, Asks(t))
        /\ GoTo(t, "away")
     \/ /\ page' = [page EXCEPT ![t].guarded = FALSE]
        /\ agreed' = [agreed EXCEPT ![t] = @ \/ Asks(t)]
        /\ UNCHANGED <<session, request, jobs, unsaved>>
  /\ UNCHANGED <<document, catalog, unsure, recovery>>

SessionExpires ==
  /\ session
  /\ EndSession
  /\ UNCHANGED <<server, browser>>

-----------------------------------------------------------------------------
(* The service: one job at a time.                                         *)

Min2(a, b) == IF a < b THEN a ELSE b
NextRevision == IF document.history = <<>> THEN 1 ELSE document.history[1].revision + 1

\* findChangedSections finds none.
Unchanged(c) == c = document.content

\* FileContentSettingsStore.save: nothing is written when nothing changed.
StoreContent(c) ==
  IF Unchanged(c) THEN UNCHANGED document
  ELSE /\ NextRevision <= MaxRevision
       /\ document' =
            [content |-> c,
             history |-> SubSeq(<<[revision |-> NextRevision, content |-> c]>>
                                  \o document.history,
                                1, Min2(HistoryLimit, Len(document.history) + 1))]

\* The answer goes to the tab, if that still waits.
AnswerOk(j) ==
  IF j.heard THEN Accept(j.tab, j.kind, j.content)
  ELSE UNCHANGED <<page, request, unsaved, agreed>>

AnswerError(j) ==
  IF j.heard THEN Reject(j.tab, j.kind)
  ELSE UNCHANGED <<page, request, unsaved, agreed>>

\* assertVersion.
VersionMatches(j) == j.version = catalog

Kept(n) == {i \in DOMAIN document.history : document.history[i].revision = n}

\* What a job is to save, if there is such a thing.
Targets(j) ==
  IF j.kind = "save" THEN {j.content}
  ELSE {document.history[i].content : i \in Kept(j.revision)}

\* The first job up to the end of the write: the new file is in its place, and
\* clients are still shown the old content.
WriteDocument ==
  /\ jobs # <<>> /\ jobs[1].pc = "queued"
  /\ VersionMatches(jobs[1])
  /\ \E c \in Targets(jobs[1]) :
       /\ StoreContent(c)
       /\ jobs' = [jobs EXCEPT ![1].pc = "written", ![1].content = c,
                               ![1].wrote = ~Unchanged(c)]
  /\ UNCHANGED <<catalog, unsure, session, browser>>

\* Another version, no such revision, or a file that cannot be read or written.
JobRefused ==
  /\ jobs # <<>> /\ jobs[1].pc = "queued"
  /\ AnswerError(jobs[1])
  /\ jobs' = Tail(jobs)
  /\ UNCHANGED <<document, catalog, unsure, session, recovery>>

\* The catalog is replaced and the request answered.
JobDone ==
  /\ jobs # <<>> /\ jobs[1].pc = "written"
  /\ catalog' = jobs[1].content
  /\ unsure' = FALSE
  /\ AnswerOk(jobs[1])
  /\ jobs' = Tail(jobs)
  /\ UNCHANGED <<document, session, recovery>>

\* chmod fails after the file was replaced: memory keeps the old content.
JobFailsLate ==
  /\ jobs # <<>> /\ jobs[1].pc = "written" /\ jobs[1].wrote
  /\ unsure' = TRUE
  /\ AnswerError(jobs[1])
  /\ jobs' = Tail(jobs)
  /\ UNCHANGED <<document, catalog, session, recovery>>

\* What the file is parsed to.
Loaded == document.content

\* A file that cannot be read, or is not valid to this start, is ignored: the
\* catalog stays as a new installation has it, and the file as it is.
LoadsAtBoot ==
  /\ catalog' \in {Loaded, Initial}
  /\ unsure' = (catalog' # Loaded)

\* The document is loaded, sessions and requests are gone.
RestartContent ==
  /\ LoadsAtBoot
  /\ jobs' = <<>>
  /\ session' = FALSE
  /\ request' = [t \in Tabs |-> [k \in Kinds |-> Nothing]]
  /\ UNCHANGED <<document, page, recovery, unsaved, agreed>>

ContentInit ==
  /\ document = [content |-> Initial, history |-> <<>>]
  /\ catalog = Initial
  /\ jobs = <<>>
  /\ session = FALSE
  /\ page = [t \in Tabs |-> NoPage]
  /\ request = [t \in Tabs |-> [k \in Kinds |-> Nothing]]
  /\ recovery = [t \in Tabs |-> NoDraft]
  /\ unsaved = [t \in Tabs |-> Nothing]
  /\ agreed = [t \in Tabs |-> FALSE]
  /\ unsure = FALSE

ContentNext ==
  \/ \E t \in Tabs :
       \/ Open(t) \/ LoadAnswered(t) \/ Login(t)
       \/ \E c \in Types(t) : Edit(t, c)
       \/ Save(t) \/ Restore(t)
       \/ Unauthorized(t) \/ \E k \in Kinds : AnswerLost(t, k)
       \/ Leave(t) \/ LogOut(t)
  \/ SessionExpires
  \/ WriteDocument \/ JobRefused \/ JobDone \/ JobFailsLate

-----------------------------------------------------------------------------
\* "The information has been changed in another tab": what clients are shown is
\* replaced only by a user who was looking at it, also when the draft was
\* recovered after a login.  A restart may show what a refused write left, or
\* no text at all when it cannot read the file; a save is then based on that,
\* and replaces a file that nobody was shown.
NothingOverwrittenUnseen ==
  [][catalog' # catalog =>
       \/ (jobs # <<>> /\ jobs[1].base = catalog)
       \/ (unsure /\ catalog' = Loaded)
       \/ (unsure' /\ catalog' = Initial)]_contentVars

\* What the user has typed is on the page or in the tab's storage until it is
\* saved or the user agrees to lose it, through expired sessions, restarts and
\* late answers.  To agree at a logout that then fails counts until the draft is
\* clean or loaded again: the shell asks no more before that.
DraftIsKept ==
  \A t \in Tabs :
    unsaved[t] # Nothing =>
      \/ (page[t].at = "open" /\ page[t].draft = unsaved[t])
      \/ recovery[t].draft = unsaved[t]

\* A restart that reads the file shows clients what they were shown before.  It
\* shows something else when it interrupts a job, and after a write that was
\* refused when the file had been replaced or a start that could not read it.
ContentSurvives ==
  \/ unsure
  \/ document.content = catalog
  \/ (jobs # <<>> /\ jobs[1].pc = "written")
=============================================================================
