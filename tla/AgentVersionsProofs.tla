-------------------------- MODULE AgentVersionsProofs --------------------------
(***************************************************************************)
(* For every number of overlapping requests and of versions: an agent has  *)
(* one draft, the newest; what is live was published; a call speaks with   *)
(* one version; nothing invalid goes live.                                 *)
(***************************************************************************)
EXTENDS AgentVersions, SequenceTheorems, TLAPS

Row     == [state : States, content : Contents]
Request == [pc : {"idle", "save", "insert", "publish", "delete"}, n : Nat, new : BOOLEAN,
            content : Contents, change : Changes, old : Nat, was : States]
Caller  == [pc : {"none", "version", "tools", "talking"}, n : Nat,
            prompt : {"empty", "ready"}, tools : {"none", "some"}]

Typed ==
  /\ TypeOK
  /\ request \in [Requests -> Request]
  /\ call \in Caller
  /\ exists /\ call.pc # "none" => call.n \in 1..Latest

\* What a request read still holds whoever commits meanwhile: versions only grow in number,
\* and none becomes a draft again.
Fits(f) ==
  /\ f.pc = "insert" => f.new
  /\ f.pc \in {"insert", "save"} /\ f.new =>
       /\ f.n \in 2..MaxVersions /\ f.n <= Latest + 1
       /\ ~IsDraft(f.n - 1)
  /\ f.pc = "save" /\ f.new => f.n = Latest + 1
  /\ f.pc = "save" /\ ~f.new => f.n \in 1..Latest
  /\ f.pc = "publish" =>
       /\ f.n \in 1..Latest /\ f.old \in 0..Latest
       /\ f.was = "PUBLISHED" => ~IsDraft(f.n)

AllFit == exists => \A r \in Requests : Fits(request[r])

\* The unique number makes the second insert of a draft wait for the first.
Inserts(r) == request[r].pc = "save" /\ request[r].new
InsertsOnce == exists => \A q, r \in Requests : Inserts(q) /\ Inserts(r) => q = r

\* What a request read still is so while it is alone.
Truthful(f) ==
  /\ f.pc = "save" /\ ~f.new => IsDraft(f.n)
  /\ f.pc = "publish" =>
       /\ Publishable(f.n) /\ f.n # live /\ f.was = versions[f.n].state
       /\ f.old = IF live # 0 /\ versions[live].state = "PUBLISHED" THEN live ELSE 0

Alone == \A q, r \in Requests : Busy(q) /\ Busy(r) => q = r
CalmReads == calm => Alone /\ (exists => \A r \in Requests : Truthful(request[r]))

\* What a call has loaded is still what its version says.
CallReads ==
  calm /\ exists /\ call.pc # "none" =>
    /\ ~IsDraft(call.n)
    /\ call.pc \in {"tools", "talking"} => call.prompt = versions[call.n].content.prompt
    /\ call.pc = "talking" => call.tools = versions[call.n].content.tools

IInv == Typed /\ OneDraft /\ LiveIsPublished /\ AllFit /\ InsertsOnce /\ CalmReads /\ CallReads

-----------------------------------------------------------------------------

LEMMA NoRequestTyped == NoRequest \in Request /\ NoRequest.pc = "idle"
BY DEF NoRequest, Request, Contents, Changes, States

\* create_agent leaves one draft, no request and no call.
LEMMA InitInv == Init => IInv
<1> SUFFICES ASSUME Init PROVE IInv
    OBVIOUS
<1> USE VersionsAssumption DEF VersionsAssumption, Init
<1>1. /\ Latest = 1 /\ versions[1].state = "DRAFT"
      /\ versions \in Seq(Row)
  BY DEF Latest, Version, NoRequest, Row, States, Contents
<1>2. Typed
  <2>1. request \in [Requests -> Request]
    BY NoRequestTyped
  <2>2. call \in Caller /\ call.pc = "none"
    BY DEF NoCall, Caller
  <2> QED
    BY <1>1, <2>1, <2>2 DEF Typed, TypeOK, Row
<1>3. OneDraft /\ LiveIsPublished
  BY <1>1 DEF OneDraft, LiveIsPublished, Drafts, Published
<1>4. AllFit /\ InsertsOnce /\ CalmReads
  BY NoRequestTyped DEF AllFit, InsertsOnce, CalmReads, Fits, Inserts, Truthful, Alone, Busy
<1>5. CallReads
  BY DEF CallReads, NoCall
<1> QED
  BY <1>2, <1>3, <1>4, <1>5 DEF IInv

\* A version as the invariant knows it.
LEMMA VersionTyped ==
  ASSUME Typed
  PROVE  /\ versions \in Seq(Row) /\ Latest \in Nat /\ Latest = Len(versions)
         /\ \A m \in 1..Latest : versions[m] \in Row
BY ElementOfSeq, LenProperties DEF Typed, TypeOK, Latest, Row

-----------------------------------------------------------------------------
(* Requests that begin *)

\* A request that has read what is committed fits it, and is alone if the moment is calm.
LEMMA OpensKeeps ==
  ASSUME IInv, NEW r \in Requests, NEW f \in Request, Opens(r, f),
         Fits(f), f.pc # "idle", Truthful(f), ~(f.pc = "save" /\ f.new)
  PROVE  IInv'
<1>1. /\ exists /\ ~Busy(r)
      /\ request' = [request EXCEPT ![r] = f]
      /\ calm' = (calm /\ \A q \in Requests : ~Busy(q))
      /\ versions' = versions /\ live' = live /\ exists' = exists /\ did' = did /\ call' = call
  BY DEF Opens, rows
<1>2. /\ request' \in [Requests -> Request]
      /\ request'[r] = f /\ \A q \in Requests \ {r} : request'[q] = request[q]
  BY <1>1 DEF IInv, Typed
<1>3. calm' \in BOOLEAN /\ (calm' => calm /\ \A q \in Requests : ~Busy(q))
  BY <1>1
<1>4. Typed'
  BY <1>1, <1>2, <1>3 DEF IInv, Typed, TypeOK, Latest
<1>5. OneDraft' /\ LiveIsPublished'
  BY <1>1, <1>3 DEF IInv, OneDraft, LiveIsPublished, Drafts, Published, IsDraft, Latest
<1>6. AllFit'
  BY <1>1, <1>2 DEF IInv, AllFit, Fits, IsDraft, Latest
<1>7. InsertsOnce'
  BY <1>1, <1>2 DEF IInv, InsertsOnce, Inserts
<1>8. CalmReads'
  <2>1. Alone' \/ ~calm'
    BY <1>1, <1>2, <1>3 DEF Alone, Busy
  <2>2. calm' => \A q \in Requests : Truthful(request[q])'
    BY <1>1, <1>2, <1>3 DEF Truthful, Busy, IsDraft, Publishable
  <2> QED
    BY <2>1, <2>2 DEF CalmReads
<1>9. CallReads'
  BY <1>1, <1>3 DEF IInv, CallReads, IsDraft
<1> QED
  BY <1>4, <1>5, <1>6, <1>7, <1>8, <1>9 DEF IInv

\* The requests the handlers form from NoRequest.
LEMMA EditTyped ==
  ASSUME NEW f \in Request, NEW n \in Nat, NEW change \in Changes, NEW c \in Contents
  PROVE  [f EXCEPT !.pc = "save", !.n = n, !.change = change,
                   !.content[change.column] = c[change.column]] \in Request
<1>1. change.column \in {"prompt", "tools"} /\ f.content \in Contents
  BY DEF Changes, Request
<1>2. [f.content EXCEPT ![change.column] = c[change.column]] \in Contents
  <2>1. CASE change.column = "prompt"
    BY <1>1, <2>1 DEF Contents
  <2>2. CASE change.column = "tools"
    BY <1>1, <2>2 DEF Contents
  <2> QED
    BY <1>1, <2>1, <2>2
<1> QED
  BY <1>2 DEF Request

LEMMA CopyTyped ==
  ASSUME NEW f \in Request, NEW n \in Nat, NEW change \in Changes, NEW c \in Contents
  PROVE  [f EXCEPT !.pc = "insert", !.n = n, !.new = TRUE, !.change = change,
                   !.content = c] \in Request
BY DEF Request

LEMMA PublishTyped ==
  ASSUME NEW f \in Request, NEW n \in Nat, NEW was \in States, NEW old \in Nat
  PROVE  [f EXCEPT !.pc = "publish", !.n = n, !.was = was, !.old = old] \in Request
BY DEF Request

\* _editable_draft takes the draft, or a number beyond a newest version that is none.
LEMMA SaveDraftKeeps ==
  ASSUME IInv, NEW r \in Requests, NEW change \in Changes, SaveDraft(r, change)
  PROVE  IInv'
<1>1. exists /\ Latest \in 1..MaxVersions /\ Latest = Len(versions) /\ versions[Latest] \in Row
  BY VersionTyped, VersionsAssumption DEF SaveDraft, IInv, Typed, TypeOK, VersionsAssumption
<1> DEFINE edit == [NoRequest EXCEPT !.pc = "save", !.n = Latest, !.change = change,
                      !.content[change.column] = versions[Latest].content[change.column]]
           copy == [NoRequest EXCEPT !.pc = "insert", !.n = Latest + 1, !.new = TRUE,
                      !.change = change, !.content = versions[Latest].content]
<1>2. CASE IsDraft(Latest) /\ Opens(r, edit)
  <2>1. edit \in Request
    <3>1. NoRequest \in Request /\ Latest \in Nat /\ versions[Latest].content \in Contents
      BY <1>1, NoRequestTyped DEF Row
    <3> QED
      BY <3>1, EditTyped, Zenon
  <2>2. edit.pc = "save" /\ edit.n = Latest /\ ~edit.new
    BY DEF NoRequest
  <2>3. Fits(edit) /\ Truthful(edit)
    BY <1>1, <1>2, <2>2 DEF Fits, Truthful
  <2> HIDE DEF edit
  <2> QED
    BY <1>2, <2>1, <2>2, <2>3, OpensKeeps
<1>3. CASE ~IsDraft(Latest) /\ Latest < MaxVersions /\ Opens(r, copy)
  <2>1. copy \in Request
    <3>1. NoRequest \in Request /\ Latest + 1 \in Nat /\ versions[Latest].content \in Contents
      BY <1>1, NoRequestTyped DEF Row
    <3> QED
      BY <3>1, CopyTyped, Zenon
  <2>2. copy.pc = "insert" /\ copy.n = Latest + 1 /\ copy.new
    BY DEF NoRequest
  <2>3. Fits(copy) /\ Truthful(copy)
    BY <1>1, <1>3, <2>2, VersionsAssumption DEF Fits, Truthful, VersionsAssumption
  <2> HIDE DEF copy
  <2> QED
    BY <1>3, <2>1, <2>2, <2>3, OpensKeeps
<1> QED
  BY <1>2, <1>3 DEF SaveDraft

\* publish_agent and rollback_agent validate a version that is not the live one.
LEMMA PublishKeeps ==
  ASSUME IInv, NEW r \in Requests, NEW n \in 1..Latest, n # live, Publishable(n),
         Opens(r, Publishes(n))
  PROVE  IInv'
<1> DEFINE f == Publishes(n)
<1>1. versions[n] \in Row /\ Latest \in Nat /\ live \in 0..Latest
  BY VersionTyped DEF IInv, Typed, TypeOK
<1>2. f \in Request
  <2>1. /\ NoRequest \in Request /\ n \in Nat /\ versions[n].state \in States
        /\ (IF live # 0 /\ versions[live].state = "PUBLISHED" THEN live ELSE 0) \in Nat
    BY <1>1, NoRequestTyped DEF Row
  <2> QED
    BY <2>1, PublishTyped, Zenon DEF Publishes
<1>3. /\ f.pc = "publish" /\ f.n = n /\ f.was = versions[n].state
      /\ f.old = IF live # 0 /\ versions[live].state = "PUBLISHED" THEN live ELSE 0
  BY DEF Publishes, NoRequest
<1>4. Fits(f) /\ Truthful(f)
  BY <1>1, <1>3 DEF Fits, Truthful, IsDraft
<1> HIDE DEF f
<1> QED
  BY <1>2, <1>3, <1>4, OpensKeeps DEF f

\* delete_agent reads nothing that it later relies on.
LEMMA DeleteKeeps ==
  ASSUME IInv, NEW r \in Requests, Delete(r)
  PROVE  IInv'
<1> DEFINE f == [NoRequest EXCEPT !.pc = "delete"]
<1>1. f \in Request /\ f.pc = "delete"
  BY DEF Request, NoRequest, Contents, Changes, States
<1>2. Fits(f) /\ Truthful(f) /\ Opens(r, f)
  BY <1>1 DEF Fits, Truthful, Delete
<1> HIDE DEF f
<1> QED
  BY <1>1, <1>2, OpensKeeps

-----------------------------------------------------------------------------
(* Requests that go on or end *)

\* A request that ends while no row changes disturbs nothing.
LEMMA AbortKeeps ==
  ASSUME IInv, NEW r \in Requests, Aborts(r), UNCHANGED <<call, calm>>
  PROVE  IInv'
<1>1. /\ request' = [request EXCEPT ![r] = NoRequest]
      /\ versions' = versions /\ live' = live /\ exists' = exists /\ did' = did
      /\ call' = call /\ calm' = calm
  BY DEF Aborts, Ends, rows
<1>2. /\ request' \in [Requests -> Request]
      /\ request'[r] = NoRequest /\ \A q \in Requests \ {r} : request'[q] = request[q]
  BY <1>1, NoRequestTyped DEF IInv, Typed
<1>3. Typed' /\ OneDraft' /\ LiveIsPublished' /\ CallReads'
  BY <1>1, <1>2 DEF IInv, Typed, TypeOK, Latest, OneDraft, LiveIsPublished, Drafts, Published,
                    IsDraft, CallReads
<1>4. AllFit' /\ InsertsOnce'
  BY <1>1, <1>2, NoRequestTyped DEF IInv, AllFit, Fits, InsertsOnce, Inserts, IsDraft, Latest
<1>5. CalmReads'
  BY <1>1, <1>2, NoRequestTyped DEF IInv, CalmReads, Alone, Busy, Truthful, IsDraft, Publishable
<1> QED
  BY <1>3, <1>4, <1>5 DEF IInv

\* A flush that goes through is the only one with its number: another would have been
\* awaited, and a commit would have taken the number.
LEMMA InsertKeeps ==
  ASSUME IInv, NEW r \in Requests, Insert(r)
  PROVE  IInv'
<1> DEFINE n == request[r].n
<1>1. CASE Ends(r)
  BY <1>1, AbortKeeps DEF Insert, Aborts
<1>2. CASE ~Ends(r)
  <2> DEFINE f == [request[r] EXCEPT !.pc = "save", !.content.tools = versions[n - 1].content.tools]
  <2>1. /\ ~Awaited(r, n) /\ ~(n <= Latest) /\ exists /\ request[r].pc = "insert"
        /\ request' = [request EXCEPT ![r].pc = "save",
                                      ![r].content.tools = versions[n - 1].content.tools]
        /\ versions' = versions /\ live' = live /\ exists' = exists /\ did' = did
        /\ call' = call /\ calm' = calm
    BY <1>2 DEF Insert, Taken, rows
  <2>2. /\ n \in 2..MaxVersions /\ n <= Latest + 1 /\ request[r].new /\ ~IsDraft(n - 1)
        /\ Latest \in Nat /\ n = Latest + 1
        /\ versions[n - 1] \in Row /\ request[r] \in Request
    BY <2>1, VersionTyped, VersionsAssumption
       DEF IInv, AllFit, Fits, Typed, VersionsAssumption
  <2>3. request' = [request EXCEPT ![r] = f]
    BY <2>1 DEF IInv, Typed
  <2>4. f \in Request /\ f.pc = "save" /\ f.new /\ f.n = n
    <3>1. request[r].content \in Contents /\ versions[n - 1].content.tools \in {"none", "some"}
      BY <2>2 DEF Request, Row, Contents
    <3>2. [request[r].content EXCEPT !.tools = versions[n - 1].content.tools] \in Contents
      BY <3>1 DEF Contents
    <3> QED
      BY <2>2, <3>2 DEF Request
  <2> HIDE DEF f
  <2>5. /\ request' \in [Requests -> Request]
        /\ request'[r] = f /\ \A q \in Requests \ {r} : request'[q] = request[q]
    BY <2>3, <2>4 DEF IInv, Typed
  <2>6. Typed' /\ OneDraft' /\ LiveIsPublished' /\ CallReads'
    BY <2>1, <2>5 DEF IInv, Typed, TypeOK, Latest, OneDraft, LiveIsPublished, Drafts, Published,
                      IsDraft, CallReads
  <2>7. AllFit'
    BY <2>1, <2>2, <2>4, <2>5 DEF IInv, AllFit, Fits, IsDraft, Latest
  <2>8. InsertsOnce'
    <3>1. \A q \in Requests \ {r} : ~Inserts(q)
      BY <2>1, <2>2 DEF Awaited, Inserts, IInv, AllFit, Fits
    <3> QED
      BY <2>5, <3>1 DEF InsertsOnce, Inserts
  <2>9. CalmReads'
    BY <2>1, <2>4, <2>5 DEF IInv, CalmReads, Alone, Busy, Truthful, IsDraft, Publishable
  <2> QED
    BY <2>6, <2>7, <2>8, <2>9 DEF IInv
<1> QED
  BY <1>1, <1>2

\* The commit of a new draft: the version it follows is no draft, and no other insert is
\* under way.
LEMMA AppendKeeps ==
  ASSUME IInv, NEW r \in Requests, Inserts(r), exists, NEW content \in Contents,
         versions' = Append(versions, Version("DRAFT", content)), Ends(r),
         UNCHANGED <<live, exists, did, call, calm>>
  PROVE  IInv'
<1> DEFINE v == Version("DRAFT", content)
<1>1. v \in Row /\ v.state = "DRAFT"
  BY DEF Version, Row, States
<1>2. /\ versions \in Seq(Row) /\ Latest = Len(versions) /\ Latest \in Nat
      /\ live \in 0..Latest
  BY VersionTyped DEF IInv, Typed, TypeOK
<1> HIDE DEF v
<1>3. /\ versions' \in Seq(Row) /\ Latest' = Latest + 1
      /\ \A m \in 1..Latest : versions'[m] = versions[m]
      /\ versions'[Latest + 1] = v
  BY <1>1, <1>2, AppendProperties DEF v, Latest
<1>4. /\ request[r].n = Latest + 1 /\ Latest + 1 <= MaxVersions /\ 1 <= Latest /\ ~IsDraft(Latest)
      /\ \A q \in Requests \ {r} : ~Inserts(q)
  BY <1>2 DEF IInv, AllFit, Fits, InsertsOnce, Inserts
<1>5. /\ request' \in [Requests -> Request]
      /\ request'[r] = NoRequest /\ \A q \in Requests \ {r} : request'[q] = request[q]
  BY NoRequestTyped DEF Ends, IInv, Typed
<1>6. Typed'
  BY <1>2, <1>3, <1>4, <1>5, VersionsAssumption
     DEF IInv, Typed, TypeOK, Row, Caller, VersionsAssumption
<1>7. OneDraft'
  BY <1>2, <1>3, <1>4 DEF IInv, OneDraft, Drafts, IsDraft
<1>8. LiveIsPublished'
  BY <1>1, <1>2, <1>3 DEF IInv, LiveIsPublished, Published, IsDraft
<1>9. AllFit'
  <2> SUFFICES ASSUME NEW q \in Requests \ {r} PROVE Fits(request[q])'
      BY <1>5, NoRequestTyped DEF AllFit, Fits
  <2>1. Fits(request[q]) /\ request'[q] = request[q] /\ ~Inserts(q) /\ request[q] \in Request
    BY <1>4, <1>5 DEF IInv, AllFit, Typed
  <2> QED
    BY <1>2, <1>3, <2>1, VersionsAssumption
       DEF Fits, Inserts, IsDraft, Request, VersionsAssumption
<1>10. InsertsOnce'
  BY <1>4, <1>5, NoRequestTyped DEF InsertsOnce, Inserts
<1>11. CalmReads'
  BY <1>5, NoRequestTyped DEF IInv, CalmReads, Alone, Busy, Truthful, Inserts
<1>12. CallReads'
  BY <1>2, <1>3 DEF IInv, Typed, CallReads, IsDraft
<1> QED
  BY <1>6, <1>7, <1>8, <1>9, <1>10, <1>11, <1>12 DEF IInv

\* A request fits as long as no version goes and none becomes a draft again.
LEMMA FitsKept ==
  ASSUME NEW q \in Requests, request'[q] = request[q], request[q] \in Request, Fits(request[q]),
         Latest' = Latest, Latest \in Nat,
         \A m \in 1..Latest : versions'[m].state = "DRAFT" => versions[m].state = "DRAFT"
  PROVE  Fits(request[q])'
<1>1. \A n \in Nat : n \in 2..MaxVersions /\ n <= Latest + 1 => n - 1 \in 1..Latest
  BY VersionsAssumption DEF VersionsAssumption
<1>2. request[q].n \in Nat
  BY DEF Request
<1> QED
  BY <1>1, <1>2 DEF Fits, IsDraft

\* The commit of an edit: contents of one version, states of none.
LEMMA EditKeeps ==
  ASSUME IInv, NEW r \in Requests, exists, request[r].pc = "save", ~request[r].new,
         versions' \in Seq(Row), Len(versions') = Len(versions),
         \A m \in 1..Latest : versions'[m].state = versions[m].state,
         \A m \in 1..Latest : m # request[r].n => versions'[m] = versions[m],
         Ends(r), UNCHANGED <<live, exists, did, call, calm>>
  PROVE  IInv'
<1>1. /\ versions \in Seq(Row) /\ Latest = Len(versions) /\ Latest \in Nat /\ Latest' = Latest
      /\ live \in 0..Latest
  BY VersionTyped DEF IInv, Typed, TypeOK, Latest
<1>2. /\ request' \in [Requests -> Request]
      /\ request'[r] = NoRequest /\ \A q \in Requests \ {r} : request'[q] = request[q]
  BY NoRequestTyped DEF Ends, IInv, Typed
<1>9. /\ \A m \in 1..Latest : versions'[m].state = versions[m].state
      /\ \A m \in 1..Latest : IsDraft(m)' <=> IsDraft(m)
      /\ \A m \in 1..Latest : m # request[r].n => versions'[m] = versions[m]
  <2>1. ASSUME NEW m \in 1..Latest
        PROVE  /\ versions'[m].state = versions[m].state
               /\ IsDraft(m)' <=> IsDraft(m)
               /\ m # request[r].n => versions'[m] = versions[m]
    <3>1. versions'[m].state = versions[m].state
      OBVIOUS
    <3>2. m # request[r].n => versions'[m] = versions[m]
      OBVIOUS
    <3> QED
      BY <3>1, <3>2 DEF IsDraft
  <2> QED
    BY <2>1
<1>3. Typed'
  BY <1>1, <1>2 DEF IInv, Typed, TypeOK, Row
<1>4. OneDraft' /\ LiveIsPublished'
  <2>1. Drafts' = Drafts /\ Published' = Published
    BY <1>1, <1>9 DEF Drafts, Published
  <2>2. live # 0 => (IsDraft(live)' <=> IsDraft(live))
    BY <1>1, <1>9
  <2>3. live' = live /\ calm' = calm /\ exists' = exists
    OBVIOUS
  <2>4. OneDraft'
    BY <1>1, <2>1 DEF IInv, OneDraft
  <2>5. (live # 0 => ~IsDraft(live))'
    BY <2>2, <2>3 DEF IInv, LiveIsPublished, IsDraft
  <2> QED
    BY <2>1, <2>3, <2>4, <2>5 DEF IInv, LiveIsPublished
<1>5. AllFit'
  <2> SUFFICES ASSUME NEW q \in Requests \ {r} PROVE Fits(request[q])'
      BY <1>2, NoRequestTyped DEF AllFit, Fits
  <2>1. Fits(request[q]) /\ request'[q] = request[q] /\ request[q] \in Request
    BY <1>2 DEF IInv, AllFit, Typed
  <2> QED
    BY <1>1, <1>9, <2>1, FitsKept DEF IsDraft
<1>6. InsertsOnce'
  BY <1>2, NoRequestTyped DEF IInv, InsertsOnce, Inserts
<1>7. CalmReads'
  BY <1>2, NoRequestTyped DEF IInv, CalmReads, Alone, Busy, Truthful
<1>8. CallReads'
  <2>1. calm => IsDraft(request[r].n)
    BY DEF IInv, CalmReads, Truthful
  <2> QED
    BY <1>1, <1>9, <2>1 DEF IInv, Typed, CallReads, IsDraft
<1> QED
  BY <1>3, <1>4, <1>5, <1>6, <1>7, <1>8 DEF IInv

\* What one column becomes keeps a version a version.
LEMMA Changed ==
  ASSUME NEW content \in Contents, NEW change \in Changes
  PROVE  [content EXCEPT ![change.column] = change.value] \in Contents
<1>1. CASE change.column = "prompt"
  BY <1>1 DEF Contents, Changes
<1>2. CASE change.column = "tools"
  BY <1>2 DEF Contents, Changes
<1> QED
  BY <1>1, <1>2 DEF Changes

\* save_draft's commit.
LEMMA SaveKeeps ==
  ASSUME IInv, NEW r \in Requests, Save(r)
  PROVE  IInv'
<1> DEFINE n == request[r].n
           change == request[r].change
           changed == [request[r].content EXCEPT ![change.column] = change.value]
<1>1. request[r].pc = "save" /\ UNCHANGED <<call, calm>> /\ request[r] \in Request
      /\ change \in Changes /\ request[r].content \in Contents
  BY DEF Save, IInv, Typed, Request
<1>2. changed \in Contents
  BY <1>1, Changed
<1>3. CASE ~exists
  BY <1>3, AbortKeeps DEF Save
<1>4. CASE exists /\ request[r].new
  <2>1. versions' = Append(versions, Version("DRAFT", changed)) /\ Ends(r)
        /\ UNCHANGED <<live, exists, did, call, calm>>
    BY <1>4 DEF Save
  <2> HIDE DEF changed
  <2> QED
    BY <1>1, <1>2, <1>4, <2>1, AppendKeeps DEF Inserts
<1>5. CASE exists /\ ~request[r].new /\ versions' = versions
  <2>1. Ends(r) /\ UNCHANGED <<live, exists, did>>
    BY <1>5 DEF Save
  <2>2. versions \in Seq(Row)
    BY VersionTyped DEF IInv
  <2> QED
    BY <1>1, <1>5, <2>1, <2>2, EditKeeps
<1>6. CASE /\ exists /\ ~request[r].new
           /\ versions' = [versions EXCEPT ![n].content[change.column] = change.value]
  <2>1. Ends(r) /\ UNCHANGED <<live, exists, did>>
    BY <1>6 DEF Save
  <2>2. versions \in Seq(Row) /\ Latest = Len(versions) /\ n \in 1..Latest /\ versions[n] \in Row
    BY <1>1, <1>6, VersionTyped DEF IInv, AllFit, Fits
  <2> DEFINE c == [versions[n].content EXCEPT ![change.column] = change.value]
             v == [versions[n] EXCEPT !.content = c]
  <2>3. c \in Contents
    BY <1>1, <2>2, Changed DEF Row
  <2>4. v \in Row /\ v.state = versions[n].state
    BY <2>2, <2>3 DEF Row
  <2>5. versions' = [versions EXCEPT ![n] = v]
    BY <1>6, <2>2
  <2> HIDE DEF v, c
  <2>6. /\ versions' \in Seq(Row) /\ Len(versions') = Len(versions)
        /\ \A m \in 1..Len(versions) : versions'[m] = IF m = n THEN v ELSE versions[m]
    BY <2>2, <2>4, <2>5, ExceptSeq
  <2> QED
    BY <1>1, <1>6, <2>1, <2>2, <2>4, <2>6, EditKeeps
<1> QED
  BY <1>3, <1>4, <1>5, <1>6 DEF Save

\* The commit of a publication: the version that was live is archived, another becomes
\* PUBLISHED, no content moves.
LEMMA ActivateFacts ==
  ASSUME IInv, NEW r \in Requests, Activate(r), exists
  PROVE  LET n == request[r].n
             old == request[r].old
         IN  /\ versions' \in Seq(Row) /\ Len(versions') = Len(versions)
             /\ \A m \in 1..Latest :
                  /\ versions'[m].content = versions[m].content
                  /\ m # n /\ m # old => versions'[m] = versions[m]
                  /\ m # n /\ m = old => versions'[m].state = "ARCHIVED"
             /\ request[r].was # "PUBLISHED" => versions'[n].state = "PUBLISHED"
             /\ request[r].was = "PUBLISHED" =>
                  versions'[n].state = (IF n = old THEN "ARCHIVED" ELSE versions[n].state)
<1> DEFINE n == request[r].n
           old == request[r].old
           between == Archive(versions, old)
           state == IF request[r].was = "PUBLISHED" THEN between[n].state ELSE "PUBLISHED"
<1>1. /\ versions \in Seq(Row) /\ Latest = Len(versions) /\ Latest \in Nat
      /\ \A m \in 1..Latest : versions[m] \in Row
      /\ n \in 1..Latest /\ old \in 0..Latest
  BY VersionTyped DEF Activate, IInv, AllFit, Fits
<1>2. /\ between \in Seq(Row) /\ Len(between) = Latest
      /\ \A m \in 1..Latest : between[m] \in Row
      /\ \A m \in 1..Latest : between[m].content = versions[m].content
      /\ \A m \in 1..Latest : m # old => between[m] = versions[m]
      /\ \A m \in 1..Latest : m = old => between[m].state = "ARCHIVED"
  <2>1. CASE old = 0
    BY <1>1, <2>1 DEF Archive
  <2>2. CASE old # 0
    <3> DEFINE v == [versions[old] EXCEPT !.state = "ARCHIVED"]
    <3>1. old \in 1..Len(versions)
      BY <1>1, <2>2
    <3>2. v \in Row /\ v.content = versions[old].content /\ v.state = "ARCHIVED"
      BY <1>1, <3>1 DEF Row, States
    <3>3. between = [versions EXCEPT ![old] = v]
      BY <1>1, <2>2, <3>1 DEF Archive
    <3> HIDE DEF v, between
    <3>4. /\ between \in Seq(Row) /\ Len(between) = Len(versions)
          /\ \A m \in 1..Len(versions) : between[m] = IF m = old THEN v ELSE versions[m]
      BY <1>1, <3>1, <3>2, <3>3, ExceptSeq
    <3> QED
      BY <1>1, <3>2, <3>4
  <2> QED
    BY <2>1, <2>2
<1>3. versions' = [between EXCEPT ![n].state = state]
  BY DEF Activate
<1> HIDE DEF between, n, old
<1>14. /\ \A m \in 1..Latest : between[m] \in Row
       /\ \A m \in 1..Latest : between[m].content = versions[m].content
       /\ \A m \in 1..Latest : m # old => between[m] = versions[m]
       /\ \A m \in 1..Latest : m = old => between[m].state = "ARCHIVED"
       /\ Len(between) = Latest /\ Latest \in Nat /\ n \in 1..Latest /\ between \in Seq(Row)
  BY <1>1, <1>2
<1> DEFINE v == [between[n] EXCEPT !.state = state]
<1>12. /\ state \in States
       /\ request[r].was # "PUBLISHED" => state = "PUBLISHED"
       /\ request[r].was = "PUBLISHED" => state = between[n].state
  BY <1>14 DEF Row, States
<1>13. between[n] \in Row /\ between[n].content = versions[n].content
  BY <1>14
<1> HIDE DEF state
<1>4. v \in Row /\ v.content = versions[n].content /\ v.state = state
  BY <1>12, <1>13 DEF Row
<1>5. versions' = [between EXCEPT ![n] = v]
  BY <1>3, <1>14
<1> HIDE DEF v
<1>6. /\ versions' \in Seq(Row) /\ Len(versions') = Len(between)
      /\ \A m \in 1..Len(between) : versions'[m] = IF m = n THEN v ELSE between[m]
  BY <1>4, <1>5, <1>14, ExceptSeq
<1>7. versions'[n] = v
  BY <1>6, <1>14
<1>8. \A m \in 1..Latest : m # n => versions'[m] = between[m]
  BY <1>6, <1>14
<1>9. \A m \in 1..Latest : versions'[m].content = versions[m].content
  BY <1>4, <1>7, <1>8, <1>14
<1>10. /\ \A m \in 1..Latest : m # n /\ m # old => versions'[m] = versions[m]
       /\ \A m \in 1..Latest : m # n /\ m = old => versions'[m].state = "ARCHIVED"
  BY <1>8, <1>14
<1>11. /\ request[r].was # "PUBLISHED" => versions'[n].state = "PUBLISHED"
       /\ request[r].was = "PUBLISHED" =>
            versions'[n].state = (IF n = old THEN "ARCHIVED" ELSE versions[n].state)
  BY <1>4, <1>7, <1>12, <1>14
<1> QED
  BY <1>1, <1>2, <1>6, <1>9, <1>10, <1>11 DEF n, old

\* publish_agent's and rollback_agent's commit.
LEMMA ActivateKeeps ==
  ASSUME IInv, NEW r \in Requests, Activate(r)
  PROVE  IInv'
<1>1. CASE ~exists
  BY <1>1, AbortKeeps DEF Activate
<1>2. CASE exists
  <2> DEFINE n == request[r].n
             old == request[r].old
  <2>1. /\ request[r].pc = "publish" /\ live' = n /\ Ends(r)
        /\ UNCHANGED <<exists, did, call, calm>>
    BY <1>2 DEF Activate
  <2>2. /\ versions \in Seq(Row) /\ Latest = Len(versions) /\ Latest \in Nat
        /\ n \in 1..Latest /\ old \in 0..Latest /\ live \in 0..Latest
        /\ request[r].was = "PUBLISHED" => ~IsDraft(n)
    BY <1>2, <2>1, VersionTyped DEF IInv, AllFit, Fits, Typed, TypeOK
  <2>3. /\ versions' \in Seq(Row) /\ Latest' = Latest
        /\ \A m \in 1..Latest :
             /\ versions'[m].content = versions[m].content
             /\ m # n /\ m # old => versions'[m] = versions[m]
             /\ m # n /\ m = old => versions'[m].state = "ARCHIVED"
        /\ request[r].was # "PUBLISHED" => versions'[n].state = "PUBLISHED"
        /\ request[r].was = "PUBLISHED" =>
             versions'[n].state = (IF n = old THEN "ARCHIVED" ELSE versions[n].state)
    BY <1>2, ActivateFacts DEF Latest
  <2>4. \A m \in 1..Latest : versions'[m].state = "DRAFT" => m # n /\ IsDraft(m)
    BY <2>2, <2>3 DEF IsDraft
  <2>5. /\ request' \in [Requests -> Request]
        /\ request'[r] = NoRequest /\ \A q \in Requests \ {r} : request'[q] = request[q]
    BY <2>1, NoRequestTyped DEF Ends, IInv, Typed
  <2> HIDE DEF n, old
  <2>6. Typed'
    BY <1>2, <2>1, <2>2, <2>3, <2>5 DEF IInv, Typed, TypeOK, Row
  <2>7. OneDraft'
    BY <2>2, <2>3, <2>4 DEF IInv, OneDraft, Drafts, IsDraft
  <2>8. LiveIsPublished'
    <3>1. (live # 0 => ~IsDraft(live))'
      BY <2>1, <2>2, <2>4, <2>3 DEF IsDraft
    <3>2. ASSUME calm PROVE Published' = {n}
      <4>1. /\ n # live /\ request[r].was = versions[n].state
            /\ old = IF live # 0 /\ versions[live].state = "PUBLISHED" THEN live ELSE 0
        BY <1>2, <2>1, <3>2 DEF IInv, CalmReads, Truthful, n, old
      <4>2. \A m \in 1..Latest : versions[m].state = "PUBLISHED" <=> m = live
        BY <1>2, <2>2, <3>2 DEF IInv, LiveIsPublished, Published
      <4>3. versions'[n].state = "PUBLISHED"
        BY <2>2, <2>3, <4>1, <4>2
      <4>4. \A m \in 1..Latest : m # n => versions'[m].state # "PUBLISHED"
        BY <2>2, <2>3, <4>1, <4>2
      <4> QED
        BY <2>2, <2>3, <4>3, <4>4 DEF Published
    <3> QED
      BY <2>1, <2>2, <3>1, <3>2 DEF LiveIsPublished
  <2>9. AllFit'
    <3> SUFFICES ASSUME NEW q \in Requests \ {r} PROVE Fits(request[q])'
        BY <2>5, NoRequestTyped DEF AllFit, Fits
    <3>1. Fits(request[q]) /\ request'[q] = request[q] /\ request[q] \in Request
      BY <1>2, <2>5 DEF IInv, AllFit, Typed
    <3> QED
      BY <2>2, <2>3, <2>4, <3>1, FitsKept DEF IsDraft
  <2>10. InsertsOnce'
    BY <2>1, <2>5, NoRequestTyped DEF IInv, InsertsOnce, Inserts
  <2>11. CalmReads'
    BY <2>1, <2>5, NoRequestTyped DEF IInv, CalmReads, Alone, Busy, Truthful
  <2>12. CallReads'
    BY <1>2, <2>1, <2>2, <2>3, <2>4 DEF IInv, Typed, CallReads, IsDraft
  <2> QED
    BY <2>6, <2>7, <2>8, <2>9, <2>10, <2>11, <2>12 DEF IInv
<1> QED
  BY <1>1, <1>2

\* delete_agent's commit leaves nothing to speak of.
LEMMA RemoveKeeps ==
  ASSUME IInv, NEW r \in Requests, Remove(r)
  PROVE  IInv'
<1>1. /\ exists' = FALSE /\ live' = 0 /\ did' = "none" /\ versions' = <<>>
      /\ UNCHANGED <<call, calm>> /\ request' = [request EXCEPT ![r] = NoRequest]
  BY DEF Remove, Ends
<1>2. /\ request' \in [Requests -> Request]
      /\ request'[r] = NoRequest /\ \A q \in Requests \ {r} : request'[q] = request[q]
  BY <1>1, NoRequestTyped DEF IInv, Typed
<1>3. versions' \in Seq(Row) /\ Latest' = 0
  BY <1>1, EmptySeq DEF Latest
<1>7. 0 \in 0..MaxVersions /\ 0 \in 0..0
  BY VersionsAssumption DEF VersionsAssumption
<1>8. TypeOK'
  BY <1>1, <1>3, <1>7 DEF IInv, Typed, TypeOK, Row
<1>4. Typed'
  BY <1>1, <1>2, <1>8 DEF IInv, Typed
<1>5. OneDraft' /\ LiveIsPublished' /\ AllFit' /\ InsertsOnce' /\ CallReads'
  BY <1>1, <1>3 DEF OneDraft, LiveIsPublished, Drafts, AllFit, InsertsOnce, CallReads
<1>6. CalmReads'
  BY <1>1, <1>2, NoRequestTyped DEF IInv, CalmReads, Alone, Busy
<1> QED
  BY <1>4, <1>5, <1>6 DEF IInv

-----------------------------------------------------------------------------
(* The number and the call *)

LEMMA RouteKeeps ==
  ASSUME IInv, NEW d \in {"none", "direct", "rule"}, Route(d)
  PROVE  IInv'
<1>1. /\ versions' = versions /\ live' = live /\ exists' = exists /\ did' = d
      /\ request' = request /\ call' = call
      /\ calm' \in BOOLEAN /\ (calm' => calm)
  BY DEF Route
<1> QED
  BY <1>1 DEF IInv, Typed, TypeOK, Latest, OneDraft, LiveIsPublished, Drafts, Published, IsDraft,
              AllFit, Fits, InsertsOnce, Inserts, CalmReads, Alone, Busy, Truthful, Publishable,
              CallReads

\* A call goes on with the version it has resolved; while nobody races it, what it loads
\* later is what it would have loaded at once.
LEMMA CallKeeps ==
  ASSUME IInv, Resolve \/ LoadVersion \/ LoadTools \/ HangUp
  PROVE  IInv'
<1>1. /\ versions' = versions /\ live' = live /\ exists' = exists /\ did' = did
      /\ request' = request /\ calm' = calm
  BY DEF Resolve, LoadVersion, LoadTools, HangUp, rows
<1>2. /\ call \in Caller /\ live \in 0..Latest /\ Latest \in Nat
      /\ exists /\ call.pc # "none" => call.n \in 1..Latest /\ versions[call.n] \in Row
  BY VersionTyped DEF IInv, Typed, TypeOK
<1>3. /\ NoCall \in Caller /\ NoCall.pc = "none"
      /\ \A n \in Nat : [NoCall EXCEPT !.pc = "version", !.n = n] \in Caller
  BY DEF NoCall, Caller
<1>4. /\ call' \in Caller
      /\ (exists /\ call.pc # "none" => call.n \in 1..Latest)'
      /\ CallReads'
  <2>1. CASE Resolve
    <3>1. call' = [NoCall EXCEPT !.pc = "version", !.n = live] /\ live # 0
      BY <2>1 DEF Resolve
    <3>2. call'.pc = "version" /\ call'.n = live
      BY <3>1 DEF NoCall
    <3>3. call' \in Caller
      <4>1. live \in Nat
        BY <1>2
      <4> QED
        BY <1>3, <3>1, <4>1, Zenon
    <3> QED
      BY <1>1, <1>2, <3>1, <3>2, <3>3 DEF IInv, LiveIsPublished, CallReads, IsDraft, Latest
  <2>2. CASE LoadVersion /\ ~exists
    BY <1>1, <1>3, <2>2 DEF LoadVersion, CallReads
  <2>3. CASE LoadVersion /\ exists
    <3> DEFINE p == versions[call.n].content.prompt
    <3>1. call' = [call EXCEPT !.pc = "tools", !.prompt = p] /\ call.pc = "version"
      BY <2>3 DEF LoadVersion
    <3>2. p \in {"empty", "ready"}
      BY <1>2, <2>3, <3>1 DEF Row, Contents
    <3> HIDE DEF p
    <3>3. call' \in Caller /\ call'.pc = "tools" /\ call'.n = call.n /\ call'.prompt = p
      BY <1>2, <3>1, <3>2 DEF Caller
    <3> QED
      BY <1>1, <1>2, <2>3, <3>1, <3>3 DEF IInv, CallReads, IsDraft, Latest, p
  <2>4. CASE LoadTools
    <3> DEFINE t == IF exists THEN versions[call.n].content.tools ELSE "none"
    <3>1. call' = [call EXCEPT !.pc = "talking", !.tools = t] /\ call.pc = "tools"
      BY <2>4 DEF LoadTools
    <3>2. t \in {"none", "some"}
      BY <1>2, <3>1 DEF Row, Contents
    <3> HIDE DEF t
    <3>3. /\ call' \in Caller /\ call'.pc = "talking" /\ call'.n = call.n
          /\ call'.prompt = call.prompt /\ call'.tools = t
      BY <1>2, <3>1, <3>2 DEF Caller
    <3> QED
      BY <1>1, <1>2, <3>1, <3>3 DEF IInv, CallReads, IsDraft, Latest, t
  <2>5. CASE HangUp
    BY <1>1, <1>3, <2>5 DEF HangUp, CallReads
  <2> QED
    BY <2>1, <2>2, <2>3, <2>4, <2>5
<1>5. Typed' /\ OneDraft' /\ LiveIsPublished'
  BY <1>1, <1>4 DEF IInv, Typed, TypeOK, Latest, OneDraft, LiveIsPublished, Drafts, Published,
                    IsDraft
<1>6. AllFit' /\ InsertsOnce' /\ CalmReads'
  BY <1>1 DEF IInv, AllFit, Fits, IsDraft, Latest, InsertsOnce, Inserts, CalmReads, Alone, Busy,
              Truthful, Publishable
<1> QED
  BY <1>4, <1>5, <1>6 DEF IInv

-----------------------------------------------------------------------------
(* The theorems *)

\* A draft is not live, so publishing one makes another version live.
LEMMA PublishRollback ==
  ASSUME IInv, NEW r \in Requests,
         Publish(r) \/ \E n \in 1..Latest : Rollback(r, n)
  PROVE  IInv'
<1>1. PICK n \in 1..Latest : n # live /\ Publishable(n) /\ Opens(r, Publishes(n))
  BY DEF Publish, Rollback, Drafts, IInv, LiveIsPublished
<1> QED
  BY <1>1, PublishKeeps

\* Every step keeps the invariant.
LEMMA NextInv == IInv /\ [Next]_vars => IInv'
<1> SUFFICES ASSUME IInv, [Next]_vars PROVE IInv'
    OBVIOUS
<1>1. ASSUME NEW r \in Requests, NEW change \in Changes, SaveDraft(r, change) PROVE IInv'
  BY <1>1, SaveDraftKeeps
<1>2. ASSUME NEW r \in Requests, Insert(r) \/ Save(r) PROVE IInv'
  BY <1>2, InsertKeeps, SaveKeeps
<1>3. ASSUME NEW r \in Requests, Publish(r) \/ \E n \in 1..Latest : Rollback(r, n) PROVE IInv'
  BY <1>3, PublishRollback
<1>4. ASSUME NEW r \in Requests, Activate(r) \/ Delete(r) \/ Remove(r) PROVE IInv'
  BY <1>4, ActivateKeeps, DeleteKeeps, RemoveKeeps
<1>5. ASSUME NEW d \in {"none", "direct", "rule"}, Route(d) PROVE IInv'
  BY <1>5, RouteKeeps
<1>6. CASE Resolve \/ LoadVersion \/ LoadTools \/ HangUp
  BY <1>6, CallKeeps
<1>7. CASE UNCHANGED vars
  BY <1>7 DEF vars, IInv, Typed, TypeOK, Latest, OneDraft, LiveIsPublished, Drafts, Published,
              IsDraft, AllFit, Fits, InsertsOnce, Inserts, CalmReads, Alone, Busy, Truthful,
              Publishable, CallReads
<1> QED
  BY <1>1, <1>2, <1>3, <1>4, <1>5, <1>6, <1>7 DEF Next

\* An agent has at most one draft, the newest; the pointer never names a draft, and without a
\* race names the one PUBLISHED version (_editable_draft, publish_agent, rollback_agent).
THEOREM VersionsCorrect == Spec => []VersionsSound
<1>1. Init => IInv
  BY InitInv
<1>2. IInv /\ [Next]_vars => IInv'
  BY NextInv
<1>3. IInv => VersionsSound
  BY DEF IInv, Typed, VersionsSound
<1> QED
  BY <1>1, <1>2, <1>3, PTL DEF Spec

\* A call speaks with the prompt and the tools of one version, although it loads them in
\* three steps between which versions are published (config_loader.py).
THEOREM CallsAreConsistent == Spec => []CallIsOneVersion
<1>1. Init => IInv
  BY InitInv
<1>2. IInv /\ [Next]_vars => IInv'
  BY NextInv
<1>3. IInv => CallIsOneVersion
  <2> SUFFICES ASSUME IInv, calm, exists, call.pc = "talking"
               PROVE  [prompt |-> call.prompt, tools |-> call.tools] = versions[call.n].content
      BY DEF CallIsOneVersion
  <2>1. versions[call.n] \in Row
    BY VersionTyped DEF IInv, Typed
  <2>2. call.prompt = versions[call.n].content.prompt /\ call.tools = versions[call.n].content.tools
    BY DEF IInv, CallReads
  <2> QED
    BY <2>1, <2>2 DEF Row, Contents
<1> QED
  BY <1>1, <1>2, <1>3, PTL DEF Spec

-----------------------------------------------------------------------------
(* Action properties *)

\* Without a race a commit writes no version but a draft.
LEMMA ImmutableStep ==
  ASSUME IInv, [Next]_vars, calm', exists', NEW n \in 1..Latest, ~IsDraft(n)
  PROVE  versions'[n].content = versions[n].content
<1>1. versions \in Seq(Row) /\ Latest = Len(versions) /\ \A m \in 1..Latest : versions[m] \in Row
  BY VersionTyped DEF IInv
<1>2. CASE versions' = versions
  BY <1>2
<1>3. ASSUME NEW r \in Requests, Save(r), versions' # versions
      PROVE  versions'[n].content = versions[n].content
  <2>1. exists /\ calm
    BY <1>3 DEF Save, Aborts, rows
  <2>2. CASE request[r].new
    <3>1. PICK v : versions' = Append(versions, v)
      BY <1>3, <2>1, <2>2 DEF Save
    <3> QED
      BY <1>1, <3>1
  <2>3. CASE ~request[r].new
    <3>1. IsDraft(request[r].n) /\ request[r].n \in 1..Latest
      BY <1>3, <2>1, <2>3 DEF Save, IInv, CalmReads, Truthful, AllFit, Fits
    <3>2. \A m \in 1..Latest : m # request[r].n => versions'[m] = versions[m]
      BY <1>1, <1>3, <2>1, <2>3 DEF Save
    <3> QED
      BY <3>1, <3>2
  <2> QED
    BY <2>2, <2>3
<1>4. ASSUME NEW r \in Requests, Activate(r), versions' # versions
      PROVE  versions'[n].content = versions[n].content
  <2>1. exists
    BY <1>4 DEF Activate, Aborts, rows
  <2> QED
    BY <1>4, <2>1, ActivateFacts
<1>5. ASSUME NEW r \in Requests, Remove(r) PROVE FALSE
  BY <1>5 DEF Remove
<1> QED
  BY <1>2, <1>3, <1>4, <1>5
     DEF Next, vars, rows, SaveDraft, Insert, Aborts, Publish, Rollback, Delete, Opens, Route,
         Resolve, LoadVersion, LoadTools, HangUp

\* What becomes live without a race was complete when it was validated, and nobody has
\* written it since.
LEMMA ValidStep ==
  ASSUME IInv, [Next]_vars, calm', live' # live, live' # 0
  PROVE  versions'[live'].content.prompt # "empty"
<1>1. PICK r \in Requests : Activate(r)
  BY DEF Next, vars, rows, SaveDraft, Insert, Save, Aborts, Publish, Rollback, Delete, Remove,
         Opens, Route, Resolve, LoadVersion, LoadTools, HangUp
<1>2. exists /\ calm /\ request[r].pc = "publish" /\ live' = request[r].n
  BY <1>1 DEF Activate, Aborts, rows
<1>3. Publishable(request[r].n) /\ request[r].n \in 1..Latest
  BY <1>2 DEF IInv, CalmReads, Truthful, AllFit, Fits
<1>4. versions'[request[r].n].content = versions[request[r].n].content
  BY <1>1, <1>2, <1>3, ActivateFacts
<1> QED
  BY <1>2, <1>3, <1>4 DEF Publishable

\* Without a race no version that was ever published is written again ("an immutable
\* snapshot", AgentVersion).
THEOREM PublishedIsImmutable == Spec => PublishedImmutable
<1> DEFINE Kept == calm' /\ exists' =>
                     \A n \in 1..Latest : ~IsDraft(n) => versions'[n].content = versions[n].content
<1>1. Init => IInv
  BY InitInv
<1>2. IInv /\ [Next]_vars => IInv'
  BY NextInv
<1>3. IInv /\ [Next]_vars => [Kept]_vars
  BY ImmutableStep
<1> HIDE DEF Kept
<1>4. Spec => [][Kept]_vars
  BY <1>1, <1>2, <1>3, PTL DEF Spec
<1> QED
  BY <1>4 DEF Kept, PublishedImmutable

\* Without a race nothing incomplete goes live (_validate_version, spec 63).
THEOREM LiveIsValid == Spec => NothingInvalidGoesLive
<1> DEFINE Valid == calm' /\ live' # live /\ live' # 0 =>
                      versions'[live'].content.prompt # "empty"
<1>1. Init => IInv
  BY InitInv
<1>2. IInv /\ [Next]_vars => IInv'
  BY NextInv
<1>3. IInv /\ [Next]_vars => [Valid]_vars
  BY ValidStep
<1> HIDE DEF Valid
<1>4. Spec => [][Valid]_vars
  BY <1>1, <1>2, <1>3, PTL DEF Spec
<1> QED
  BY <1>4 DEF Valid, NothingInvalidGoesLive
=============================================================================
