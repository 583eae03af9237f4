------------------------------- MODULE Handoffs -------------------------------
(***************************************************************************)
(* The documents the agents hand over, and who accepts them: the worker    *)
(* that made one, the endpoint that takes it, and the invariants of        *)
(* packages/contracts, which the endpoints do not call.                    *)
(*                                                                         *)
(* A backlog is a record of its stories, the stories its coverage names,   *)
(* whether it asks for a human, whether its schema and its run and         *)
(* briefing are right, and whether a NUL is in one of its texts.  A        *)
(* description is its text, with or without blanks around it; the size of  *)
(* a story or a criterion is the length of its id.                         *)
(***************************************************************************)
EXTENDS Naturals, Sequences, SequencesExt, Functions

StoryIds(stories) == {stories[i].id : i \in DOMAIN stories}

\* Lists, as JSON can have them.
IsBacklog(stories) ==
  /\ stories \in Seq(Range(stories))
  /\ \A i \in DOMAIN stories : stories[i].deps \in Seq(Range(stories[i].deps))

\* A later story replaces the dependencies of an earlier one with its id.
GraphOf(stories) ==
  [id \in StoryIds(stories) |->
     LET last == CHOOSE i \in DOMAIN stories :
                   stories[i].id = id /\ \A j \in (i + 1)..Len(stories) : stories[j].id # id
     IN stories[last].deps]

CriteriaOf(stories) == FlattenSeq([i \in DOMAIN stories |-> stories[i].criteria])
Raw(criterion) == <<criterion.text, criterion.padded>>
Stripped(criterion) == criterion.text
AllDifferent(F(_), criteria) == IsInjective([i \in DOMAIN criteria |-> F(criteria[i])])
InOrder(criteria) == \A i \in DOMAIN criteria : criteria[i].order = i
-----------------------------------------------------------------------------
(* The depth-first search for a cycle, of which worker, endpoint and contract *)
(* have a copy each.                                                          *)
Start == [visiting |-> {}, visited |-> {}, cyclic |-> FALSE]
Enter(search, node) == [search EXCEPT !.visiting = @ \union {node}]

\* Mutation: a node that is done is still on the path.
LeaveOpen(search, node) == [search EXCEPT !.visited = @ \union {node}]

Leave(search, node) ==
  [search EXCEPT !.visiting = @ \ {node}, !.visited = @ \union {node}]

Searches(nodes) == [visiting : SUBSET nodes, visited : SUBSET nodes, cyclic : BOOLEAN]

\* The nodes of a list are visited in order until a cycle is found; what the list
\* names outside the graph is passed over.
VisitNext(visit, nodes, search, node) ==
  IF search.cyclic \/ node \notin nodes THEN search ELSE visit[<<search, node>>]

VisitAll(visit, nodes, search, list) ==
  LET after[k \in 0..Len(list)] ==
        IF k = 0 THEN search ELSE VisitNext(visit, nodes, after[k - 1], list[k])
  IN after[Len(list)]

VisitNode(visit, graph, search, node) ==
  IF node \in search.visiting THEN [search EXCEPT !.cyclic = TRUE]
  ELSE IF node \in search.visited THEN search
  ELSE Leave(VisitAll(visit, DOMAIN graph, Enter(search, node), graph[node]), node)

Visit(graph) ==
  LET visit[at \in Searches(DOMAIN graph) \X DOMAIN graph] ==
        VisitNode(visit, graph, at[1], at[2])
  IN visit

HasCycle(stories) ==
  VisitAll(Visit(GraphOf(stories)), StoryIds(stories), Start,
           [i \in DOMAIN stories |-> stories[i].id]).cyclic

\* The reference: there are stories each of which depends on one of them.
DependsOnItself(stories) ==
  LET graph == GraphOf(stories)
  IN \E circle \in SUBSET StoryIds(stories) :
       circle # {} /\ \A id \in circle : \E other \in circle : other \in Range(graph[id])
-----------------------------------------------------------------------------
(* The backlog of the PO. *)
KnownDependencies(stories) ==
  \A i \in DOMAIN stories : Range(stories[i].deps) \subseteq StoryIds(stories)

DistinctIds(stories) == IsInjective([i \in DOMAIN stories |-> stories[i].id])

\* What worker and endpoint check with the same words.
Coherent(doc) ==
  /\ doc.identity
  /\ DistinctIds(doc.stories)
  /\ KnownDependencies(doc.stories)
  /\ \A i \in DOMAIN doc.stories : InOrder(doc.stories[i].criteria)
  /\ ~HasCycle(doc.stories)
  /\ StoryIds(doc.stories) \subseteq doc.coverage
  /\ doc.needsHuman => \E i \in DOMAIN doc.stories : ~doc.stories[i].ready

\* Mutation: descriptions are compared within one story only.
PoWorkerAcceptsPerStory(doc) ==
  /\ doc.schema
  /\ Coherent(doc)
  /\ \A i \in DOMAIN doc.stories :
       /\ doc.stories[i].id \notin Range(doc.stories[i].deps)
       /\ AllDifferent(Stripped, doc.stories[i].criteria)

PoWorkerAccepts(doc) ==
  /\ doc.schema
  /\ Coherent(doc)
  /\ \A i \in DOMAIN doc.stories : doc.stories[i].id \notin Range(doc.stories[i].deps)
  /\ AllDifferent(Stripped, CriteriaOf(doc.stories))

PoServerAccepts(doc) ==
  /\ doc.schema
  /\ Coherent(doc)
  /\ AllDifferent(Raw, CriteriaOf(doc.stories))

IdColumn == 32

\* The unique keys and the columns of the tables of stories and criteria: the pattern
\* of an id has no end.  PostgreSQL takes no NUL, in a text or in JSON.
PoStorable(doc) ==
  /\ ~doc.nul
  /\ \A i \in DOMAIN doc.stories :
       LET story == doc.stories[i]
       IN /\ story.size <= IdColumn
          /\ \A j \in DOMAIN story.criteria : story.criteria[j].size <= IdColumn
          /\ IsInjective([j \in DOMAIN story.criteria |-> story.criteria[j].id])

\* Criterion ids are unique in the backlog, and only ready stories need coverage.
CriterionIdsUnique(doc) ==
  LET criteria == CriteriaOf(doc.stories)
  IN IsInjective([i \in DOMAIN criteria |-> criteria[i].id])

PoContractAccepts(doc) ==
  /\ doc.schema
  /\ DistinctIds(doc.stories)
  /\ KnownDependencies(doc.stories)
  /\ \A i \in DOMAIN doc.stories : /\ doc.stories[i].id \notin Range(doc.stories[i].deps)
                                   /\ InOrder(doc.stories[i].criteria)
  /\ CriterionIdsUnique(doc)
  /\ ~HasCycle(doc.stories)
  /\ doc.coverage \subseteq StoryIds(doc.stories)
  /\ {s.id : s \in {t \in Range(doc.stories) : t.ready}} \subseteq doc.coverage
-----------------------------------------------------------------------------
(* The delivery of the Dev, built from its generated files for the criteria *)
(* of a story.  Of the texts the model wrote it keeps the lengths, of its   *)
(* paths the longest, and whether there is a NUL in the decision.           *)

\* MODEL_SCHEMA, which the prompt asks for and nothing validates.
AskedLimits ==
  [path |-> 240, title |-> 2000, decision |-> 2000, rationale |-> 2000, consequences |-> 2000]

KeepsSchema(doc) == \A t \in DOMAIN AskedLimits : doc.length[t] \in 1..AskedLimits[t]

DevWorkerAccepts(doc, criteria) == \A i \in DOMAIN doc.files : doc.files[i].criteria \subseteq criteria

DeliveryOf(doc, criteria) ==
  [length |-> doc.length, nul |-> doc.nul,
   tasks |-> <<[id |-> "T1", criteria |-> criteria, state |-> "DONE"]>>,
   changes |-> [i \in DOMAIN doc.files |-> {"T1"}],
   evidence |-> [c \in criteria |-> "NOT_RUN"],
   runs |-> <<"PASS">>,
   status |-> "READY_FOR_QA"]

\* The schema of the delivery, of whose consequences the worker makes one.
DeliveryLimits ==
  [path |-> 500, title |-> 200, decision |-> 2000, rationale |-> 4000, consequences |-> 1000]

DevServerAccepts(delivery, criteria) ==
  /\ \A t \in DOMAIN DeliveryLimits : delivery.length[t] \in 1..DeliveryLimits[t]
  /\ criteria \subseteq DOMAIN delivery.evidence
  /\ "PASS" \notin Range(delivery.evidence)

\* The decision becomes the payload of an event.
DevStorable(delivery) == ~delivery.nul

\* packages/contracts and the Dev's own library ask for the same.
DevContractAccepts(delivery, criteria) ==
  LET tasks == delivery.tasks
  IN /\ IsInjective([i \in DOMAIN tasks |-> tasks[i].id])
     /\ criteria \subseteq UNION {tasks[i].criteria : i \in DOMAIN tasks}
     /\ \A i \in DOMAIN delivery.changes :
          delivery.changes[i] \subseteq {tasks[j].id : j \in DOMAIN tasks}
     /\ DOMAIN delivery.evidence \subseteq criteria
     /\ delivery.status = "READY_FOR_QA" =>
          /\ \A i \in DOMAIN tasks : tasks[i].state = "DONE"
          /\ Range(delivery.runs) \subseteq {"PASS"}
          /\ \A c \in criteria : delivery.evidence[c] = "PASS"
-----------------------------------------------------------------------------
(* The test plan of the QA, with the files its commands name. *)
CaseCriteria(doc) == {c.criterion : c \in Range(doc.cases)}

QaWorkerAccepts(doc, criteria) ==
  /\ doc.schema /\ doc.identity
  /\ doc.criteria = criteria
  /\ criteria \subseteq {c.criterion : c \in {d \in Range(doc.cases) : d.required}}
  /\ {c.file : c \in Range(doc.cases)} \subseteq {f.path : f \in Range(doc.files)}

QaServerAccepts(doc) == doc.schema /\ doc.identity

QaContractAccepts(doc, criteria) ==
  /\ doc.identity /\ doc.delivery
  /\ doc.criteria = criteria
  /\ doc.cases # <<>>
  /\ IsInjective([i \in DOMAIN doc.cases |-> doc.cases[i].id])
  /\ CaseCriteria(doc) = criteria
=============================================================================
