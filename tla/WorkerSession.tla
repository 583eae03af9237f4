----------------------------- MODULE WorkerSession -----------------------------
(***************************************************************************)
(* One PO, Dev or QA worker from its context to its exit, with the calls   *)
(* it makes and what they leave in the control-api: rows of the model      *)
(* gateway, stored artifacts, an accepted outcome.                         *)
(*                                                                         *)
(* A call may be refused, fail, or take effect and lose its answer; the    *)
(* lease may expire and the scheduler may end the task at any moment.      *)
(***************************************************************************)
EXTENDS Handoffs

CONSTANTS
  Roles,       \* the workers to consider
  Answers,     \* Answers[role]: what the model may answer
  NotJson,     \* an answer that is no JSON object
  Criteria,    \* the criteria of the story of a Dev or a QA
  MaxRepairs,
  ConfigPath, EvidencePath, SourcePath, ManifestPath,
  Faults,      \* calls may get lost, leases expire and tasks be ended
  None

ASSUME RepairsAssumption == MaxRepairs \in Nat
ASSUME CriteriaAssumption == Criteria # {}
ASSUME FaultsAssumption == Faults \in BOOLEAN
ASSUME RolesAssumption == Roles \subseteq {"po", "dev", "qa"}
ASSUME NoneAssumption == None \notin Nat \union {"PASS", "FAIL"}
ASSUME PoAnswersAssumption ==
  "po" \in Roles => \A answer \in Answers["po"] \ {NotJson} : IsBacklog(answer.stories)
ASSUME DevAnswersAssumption ==
  "dev" \in Roles =>
    \A answer \in Answers["dev"] \ {NotJson} :
      answer.files \in Seq(Range(answer.files))

VARIABLES
  role,
  pc,        \* where the worker is
  attempt,   \* model calls that were repaired
  doc,       \* the answer of the model
  todo,      \* what remains to upload, records of a path and a content
  local,     \* the files the worker wrote, by path
  report,    \* the verdict of the QA's report, once it was made
  exit,
  task,      \* the state of its task
  token,     \* the token matches and the lease has not expired
  call,      \* the gateway waits for the provider
  paid, recorded,  \* model calls paid for, and those with a committed row
  reported,  \* the usage in the event of the outcome
  stored     \* the artifacts of the task, by path

worker == <<pc, attempt, doc, todo, exit>>
made == <<local, report>>
gateway == <<call, paid, recorded>>
served == <<task, token, reported, stored>>
vars == <<role, worker, made, gateway, served>>

Init ==
  /\ role \in Roles
  /\ pc = "context" /\ attempt = 0 /\ doc = None /\ todo = <<>> /\ exit = None
  /\ local = <<>> /\ report = None
  /\ task = "RUNNING" /\ token = TRUE
  /\ call = FALSE /\ paid = 0 /\ recorded = 0
  /\ reported = None
  /\ stored = <<>>

Base == {"context:read", "output:write", "heartbeat:write"}
Scopes(r) == CASE r = "po" -> Base \union {"model:invoke"}
               [] r \in {"dev", "qa"} -> Base \union {"model:invoke", "artifact:write"}
               [] OTHER -> Base

\* What every endpoint but the outcomes' asks of the caller.
Permitted(scope) == token /\ task = "RUNNING" /\ scope \in Scopes(role)
-----------------------------------------------------------------------------
(* How a step of the worker ends. *)
GoOn(next) == pc' = next /\ UNCHANGED <<attempt, doc, todo, exit>>
Finish(code) == pc' = "ended" /\ exit' = code /\ doc' = None /\ todo' = <<>> /\ UNCHANGED attempt
GiveUp == Finish(1)

\* The call took effect; its answer may get lost.
Answer(Step) == Step \/ (Faults /\ GiveUp)

(* Context, heartbeat and model. *)
GetContext ==
  /\ pc = "context" /\ Permitted("context:read")
  /\ Answer(GoOn(IF role = "dev" THEN "invoke" ELSE "heartbeat"))
  /\ UNCHANGED <<role, made, gateway, served>>

Heartbeat ==
  /\ pc = "heartbeat" /\ Permitted("heartbeat:write")
  /\ Answer(GoOn("invoke"))
  /\ UNCHANGED <<role, made, gateway, served>>

InvokeStart ==
  /\ pc = "invoke" /\ Permitted("model:invoke")
  /\ GoOn("waiting")
  /\ call' = TRUE
  /\ UNCHANGED <<role, made, paid, recorded, served>>

\* Mutation: a failed call is one more answer to repair.
RetryInvoke ==
  IF role = "po" /\ attempt < MaxRepairs
  THEN pc' = "heartbeat" /\ attempt' = attempt + 1 /\ UNCHANGED <<doc, todo, exit>>
  ELSE GiveUp

\* An HTTP error is an OSError, which the repair loops do not catch.
InvokeFailed == GiveUp

\* The provider answers and the audit row is committed; or the provider refuses or
\* fails, and the row has no usage; or it answers and the commit fails.
InvokeEnd ==
  /\ call /\ pc = "waiting"
  /\ call' = FALSE
  /\ \/ /\ paid' = paid + 1 /\ recorded' = recorded + 1
        /\ \/ \E answer \in Answers[role] :
                pc' = "judge" /\ doc' = answer /\ UNCHANGED <<attempt, todo, exit>>
           \/ Faults /\ InvokeFailed
     \/ InvokeFailed /\ UNCHANGED <<paid, recorded>>
     \/ Faults /\ InvokeFailed /\ paid' = paid + 1 /\ UNCHANGED recorded
  /\ UNCHANGED <<role, made, served>>

\* The worker is gone and the transaction goes on.
InvokeUnread ==
  /\ call /\ pc # "waiting"
  /\ call' = FALSE
  /\ \/ UNCHANGED <<paid, recorded>>
     \/ paid' = paid + 1 /\ recorded' \in {recorded, recorded + 1}
  /\ UNCHANGED <<role, worker, made, served>>
-----------------------------------------------------------------------------
(* The answer is judged, and repaired or used. *)
Valid ==
  /\ doc # NotJson
  /\ CASE role = "po" -> PoWorkerAccepts(doc)
       [] role = "qa" -> QaWorkerAccepts(doc, Criteria)
       [] role = "dev" -> DevWorkerAccepts(doc, Criteria)

\* Mutation: one repair too many.
RepairableOnceMore ==
  attempt <= MaxRepairs /\ (role = "po" \/ (role = "qa" /\ doc # NotJson))

\* The QA does not repair what is no JSON, the Dev repairs nothing.
Repairable ==
  attempt < MaxRepairs /\ (role = "po" \/ (role = "qa" /\ doc # NotJson))

Repair ==
  /\ pc' = "heartbeat" /\ doc' = None /\ attempt' = attempt + 1
  /\ UNCHANGED <<todo, exit>>

\* The files or artifacts of a directory by their paths, with one written.
Bind(files, path, content) ==
  [p \in DOMAIN files \union {path} |-> IF p = path THEN content ELSE files[p]]

\* Files written in order: a later one replaces an earlier one of its path.
Written(files) ==
  [path \in {f.path : f \in Range(files)} |->
     files[SelectLastInSeq(files, LAMBDA f : f.path = path)].content]

UpTo(files) ==
  SelectInSeq(files, LAMBDA f : ~(f.criteria \subseteq Criteria)) - 1

Reject ==
  /\ pc = "judge" /\ ~Valid
  /\ IF Repairable THEN Repair ELSE GiveUp
  /\ local' = IF role = "dev" /\ doc # NotJson THEN Written(SubSeq(doc.files, 1, UpTo(doc.files))) ELSE local
  /\ UNCHANGED <<role, report, gateway, served>>

UsePo ==
  /\ role = "po" /\ pc = "judge" /\ Valid
  /\ GoOn("submit")
  /\ UNCHANGED <<role, made, gateway, served>>

\* The config file is the plan itself.
UseQa ==
  /\ role = "qa" /\ pc = "judge" /\ Valid
  /\ pc' = "write"
  /\ todo' = [i \in DOMAIN doc.files |-> [path |-> doc.files[i].path, content |-> doc.files[i].content]]
               \o <<[path |-> ConfigPath, content |-> "plan"]>>
  /\ UNCHANGED <<role, attempt, doc, exit, made, gateway, served>>

\* Files, a commit, which may fail, and an archive of the workspace.
UseDev ==
  /\ role = "dev" /\ pc = "judge" /\ Valid
  /\ local' = Written(doc.files)
  /\ \/ /\ pc' = "upload"
        /\ todo' = <<[path |-> SourcePath, content |-> local'],
                     [path |-> ManifestPath,
                      content |-> {<<f.path, f.content>> : f \in Range(doc.files)}]>>
        /\ UNCHANGED <<attempt, doc, exit>>
     \/ Faults /\ GiveUp
  /\ UNCHANGED <<role, report, gateway, served>>
-----------------------------------------------------------------------------
(* Files, artifacts and the outcome. *)
WriteTest ==
  /\ pc = "write"
  /\ local' = Bind(local, Head(todo).path, Head(todo).content)
  /\ GoOn("upload")
  /\ UNCHANGED <<role, report, gateway, served>>

\* Mutation: another content for a path is ignored.
ConflictsNever(item) == item.path \in DOMAIN stored /\ FALSE

Conflicts(item) == item.path \in DOMAIN stored /\ stored[item.path] # item.content

NextItem ==
  IF Tail(todo) = <<>> /\ report # None
  THEN Finish(IF report = "PASS" THEN 0 ELSE 2)
  ELSE /\ pc' = CASE Tail(todo) = <<>> -> "submit"
                  [] Tail(todo) # <<>> /\ role = "qa" -> "write"
                  [] OTHER -> "upload"
       /\ todo' = Tail(todo)
       /\ UNCHANGED <<attempt, doc, exit>>

Upload ==
  /\ pc = "upload" /\ Permitted("artifact:write")
  /\ GoOn("storing")
  /\ UNCHANGED <<role, made, gateway, served>>

\* The store is written after the transaction that looked at the task.
Store ==
  /\ pc = "storing"
  /\ LET item == Head(todo)
     IN IF Conflicts(item)
        THEN GiveUp /\ UNCHANGED stored
        ELSE /\ stored' = IF item.path \in DOMAIN stored THEN stored
                          ELSE Bind(stored, item.path, item.content)
             /\ Answer(NextItem)
  /\ UNCHANGED <<role, made, gateway, task, token, reported>>

Taken ==
  CASE role = "po" -> PoServerAccepts(doc) /\ PoStorable(doc)
    [] role = "qa" -> QaServerAccepts(doc)
    [] role = "dev" -> LET delivery == DeliveryOf(doc, Criteria)
                       IN DevServerAccepts(delivery, Criteria) /\ DevStorable(delivery)

\* The outcome carries the usage of the task; its task may have ended meanwhile.
Submit ==
  /\ pc = "submit" /\ token
  /\ IF Taken
     THEN /\ task' = "SUCCEEDED" /\ reported' = recorded
          /\ Answer(IF role = "qa" THEN GoOn("execute") ELSE Finish(0))
     ELSE GiveUp /\ UNCHANGED <<task, reported>>
  /\ UNCHANGED <<role, made, gateway, token, stored>>

\* Each case passes, fails, or times out with output, which is of a type the report
\* cannot be written with; a command outside the allowlist ends the worker.
RunCases ==
  /\ pc = "execute"
  /\ \/ /\ \E c \in Range(doc.cases) : ~c.allowed
        /\ GiveUp /\ UNCHANGED report
     \/ /\ \A c \in Range(doc.cases) : c.allowed
        /\ \E results \in [DOMAIN doc.cases -> {"PASS", "FAIL", "TIMEOUT"}] :
             IF "TIMEOUT" \in Range(results)
             THEN GiveUp /\ UNCHANGED report
             ELSE /\ report' = IF \A i \in DOMAIN results :
                                    doc.cases[i].required => results[i] = "PASS"
                               THEN "PASS" ELSE "FAIL"
                  /\ pc' = "upload"
                  /\ todo' = <<[path |-> EvidencePath, content |-> report']>>
                  /\ UNCHANGED <<attempt, doc, exit>>
  /\ UNCHANGED <<role, local, gateway, served>>

(* What goes wrong. *)
Refused ==
  /\ \/ pc = "context" /\ ~Permitted("context:read")
     \/ pc = "heartbeat" /\ ~Permitted("heartbeat:write")
     \/ pc = "invoke" /\ ~Permitted("model:invoke")
     \/ pc = "upload" /\ ~Permitted("artifact:write")
     \/ pc = "submit" /\ ~token
  /\ GiveUp
  /\ UNCHANGED <<role, made, gateway, served>>

\* Mutation: a model call is waited for without a timeout.
NoAnswerToOthers ==
  /\ Faults
  /\ pc \in {"context", "heartbeat", "invoke", "upload", "storing", "submit"}
  /\ GiveUp
  /\ UNCHANGED <<role, made, gateway, served>>

\* No answer in time, and no effect; a model call goes on.
NoAnswer ==
  /\ Faults
  /\ pc \in {"context", "heartbeat", "invoke", "waiting", "upload", "storing", "submit"}
  /\ GiveUp
  /\ UNCHANGED <<role, made, gateway, served>>

Expire ==
  /\ Faults /\ token
  /\ token' = FALSE
  /\ UNCHANGED <<role, worker, made, gateway, task, reported, stored>>

\* The scheduler's compensation, which also throws the token away.
Settle ==
  /\ Faults /\ task = "RUNNING"
  /\ task' = "FAILED" /\ token' = FALSE
  /\ UNCHANGED <<role, worker, made, gateway, reported, stored>>
-----------------------------------------------------------------------------
Work ==
  \/ GetContext \/ Heartbeat \/ InvokeStart
  \/ Reject \/ UsePo \/ UseQa \/ UseDev
  \/ WriteTest \/ Upload \/ Store \/ Submit \/ RunCases
  \/ Refused \/ NoAnswer

Next == Work \/ InvokeEnd \/ InvokeUnread \/ Expire \/ Settle

Spec == Init /\ [][Next]_vars

\* The script runs, and every call it makes has a timeout; the provider may hang.
FairSpec == Spec /\ WF_vars(Work)
-----------------------------------------------------------------------------
\* Every variable holds a value of its type; in particular no session makes more
\* model calls than the repairs allow.
TypeOK ==
  /\ role \in Roles
  /\ pc \in {"context", "heartbeat", "invoke", "waiting", "judge", "write", "upload",
             "storing", "submit", "execute", "ended"}
  /\ attempt \in 0..MaxRepairs
  /\ exit \in {None, 0, 1, 2} /\ (exit # None <=> pc = "ended")
  /\ report \in {None, "PASS", "FAIL"}
  /\ task \in {"RUNNING", "SUCCEEDED", "FAILED"} /\ token \in BOOLEAN /\ call \in BOOLEAN
  /\ paid \in 0..(attempt + 1) /\ recorded \in 0..paid
  /\ reported \in {None} \union 0..paid

\* The copies of the validation agree where they should and differ only where it is
\* known: the search finds exactly the cycles; the invariants of packages/contracts
\* also want criterion ids unique in the backlog and no unknown story covered, want
\* of a plan the delivery's revision and manifest, its own case ids and no unknown
\* criterion, and refuse every delivery the endpoint takes.
ValidatorsAgree ==
  pc = "judge" /\ doc # NotJson =>
    CASE role = "po" ->
           /\ HasCycle(doc.stories) <=> DependsOnItself(doc.stories)
           /\ PoServerAccepts(doc) =>
                (PoContractAccepts(doc) <=>
                   CriterionIdsUnique(doc) /\ doc.coverage \subseteq StoryIds(doc.stories))
      [] role = "qa" ->
           QaWorkerAccepts(doc, Criteria) =>
             (QaContractAccepts(doc, Criteria) <=>
                /\ doc.delivery
                /\ IsInjective([i \in DOMAIN doc.cases |-> doc.cases[i].id])
                /\ CaseCriteria(doc) \subseteq Criteria)
      [] role = "dev" ->
           LET delivery == DeliveryOf(doc, Criteria)
           IN DevServerAccepts(delivery, Criteria) => ~DevContractAccepts(delivery, Criteria)

\* What the model is asked for of the Dev, and the delivery or its event does not take.
TooMuchForDelivery(answer) ==
  answer.length.title > 200 \/ answer.length.consequences > 1000 \/ answer.nul

\* What a worker submits, after its own checks and its paid repairs, is taken, but for
\* what it does not check: a PO's ids, twice in a story or longer than their columns,
\* and NULs; of a Dev's answer its schema, which allows a title and consequences the
\* delivery does not, and NULs.  The other limits of the two schemas fit.
SubmissionIsTaken ==
  pc = "submit" =>
    \/ Taken
    \/ role = "po" /\ ~PoStorable(doc)
    \/ role = "dev" /\ (~KeepsSchema(doc) \/ TooMuchForDelivery(doc))

\* The usage in the event of an accepted outcome is that of every model call that was
\* paid for, although the row of a call may get lost with its transaction.
UsageIsComplete == reported # None => reported = paid

\* What the QA executes and what the Dev committed is what the control-api has stored;
\* the manifest describes the archive unless the Dev generated two files of one path.
StoredIsWhatWasMade ==
  reported # None =>
    CASE role = "qa" -> \A p \in DOMAIN local : p \in DOMAIN stored /\ stored[p] = local[p]
      [] role = "dev" ->
           /\ stored[SourcePath] = local
           /\ \A p \in DOMAIN local : <<p, local[p]>> \in stored[ManifestPath]
      [] OTHER -> stored = <<>>

\* A worker ends, whatever the model answers and whichever calls fail, and success is
\* claimed only of an outcome that was accepted.
WorkerEnds == <>(pc = "ended" /\ (exit = 0 => reported # None))

\* The exit codes and the output of the QA's commands are stored as evidence.
EvidenceIsStored == pc = "ended" /\ report # None => EvidencePath \in DOMAIN stored
=============================================================================
