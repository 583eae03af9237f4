---------------------------- MODULE MCWorkerSession ----------------------------
(* Small instances of WorkerSession: what the model may answer to each role. *)
EXTENDS WorkerSession

\* STORY-001 and AC-001 have nine and six characters.
Criterion(id, order, text, padded) ==
  [id |-> id, order |-> order, text |-> text, padded |-> padded, size |-> 6]
Story(id, deps, criteria, ready) ==
  [id |-> id, deps |-> deps, criteria |-> criteria, ready |-> ready, size |-> 9]
Backlog(stories, coverage, needsHuman) ==
  [stories |-> stories, coverage |-> coverage, needsHuman |-> needsHuman,
   schema |-> TRUE, identity |-> TRUE, nul |-> FALSE]

\* Every graph of three stories.
Lists == {<<>>, <<"a">>, <<"b">>, <<"c">>, <<"a", "b">>, <<"a", "c">>, <<"c", "b">>, <<"c", "a", "b">>}
Graphs3 ==
  {Backlog(<<Story("a", da, <<Criterion(1, 1, "s", FALSE)>>, TRUE),
             Story("b", db, <<Criterion(2, 1, "t", FALSE)>>, TRUE),
             Story("c", dc, <<Criterion(3, 1, "u", FALSE)>>, TRUE)>>, {"a", "b", "c"}, FALSE) :
     da \in Lists, db \in Lists, dc \in Lists}

\* A story beside another one, with what may be wrong with it.
SecondCriteria ==
  {<<Criterion(2, 1, "t", FALSE)>>,
   <<Criterion(1, 1, "t", FALSE)>>,
   <<Criterion(2, 1, "s", FALSE)>>,
   <<Criterion(2, 1, "s", TRUE)>>,
   <<Criterion(2, 2, "t", FALSE)>>,
   <<Criterion(2, 1, "t", FALSE), Criterion(2, 2, "u", FALSE)>>,
   <<Criterion(2, 1, "t", FALSE), Criterion(3, 2, "t", TRUE)>>}
Pairs ==
  {Backlog(<<Story("a", <<>>, <<Criterion(1, 1, "s", FALSE)>>, TRUE),
             Story(id, deps, criteria, ready)>>, coverage, needsHuman) :
     id \in {"a", "b"}, deps \in {<<"a">>, <<"z">>}, criteria \in SecondCriteria,
     ready \in BOOLEAN, coverage \in {{"a"}, {"a", "b"}, {"a", "b", "z"}}, needsHuman \in BOOLEAN}

Good == Backlog(<<Story("a", <<>>, <<Criterion(1, 1, "s", FALSE)>>, TRUE)>>, {"a"}, FALSE)

\* What every check lets pass, and the tables or the columns do not.
Unstorable ==
  {[Good EXCEPT !.nul = TRUE],
   [Good EXCEPT !.stories[1].size = 33],
   [Good EXCEPT !.stories[1].criteria[1].size = 33]}

PoAnswers == Graphs3 \union Pairs \union Unstorable \union
  {NotJson, Good, [Good EXCEPT !.schema = FALSE], [Good EXCEPT !.identity = FALSE]}

SomeCriteria == {"c1", "c2"}

\* One or two generated files.
GeneratedFiles(Paths, criteria) ==
  LET File == {[path |-> p, content |-> x, criteria |-> c] : p \in Paths, x \in {"x", "y"}, c \in criteria}
  IN {<<f>> : f \in File} \union (File \X File)

Usual == [path |-> 10, title |-> 60, decision |-> 200, rationale |-> 400, consequences |-> 300]

DevAnswer(files, length, nul) == [files |-> files, length |-> length, nul |-> nul]

OneFile == <<[path |-> "index", content |-> "x", criteria |-> {"c1"}]>>

\* Texts at a limit and one beyond it, of what is asked for and of the delivery; a file
\* without a path cannot be written.
Lengths ==
  {[Usual EXCEPT ![t] = n] : t \in DOMAIN Usual, n \in {200, 201, 240, 241, 1000, 1001, 2000, 2001}}
    \union {[Usual EXCEPT ![t] = 0] : t \in DOMAIN Usual \ {"path"}}

DevAnswers == {NotJson} \union
  {DevAnswer(f, Usual, FALSE) : f \in GeneratedFiles({"index", "style"}, {{"c1"}, {"c1", "c9"}})} \union
  {DevAnswer(OneFile, l, FALSE) : l \in Lengths} \union {DevAnswer(OneFile, Usual, TRUE)}

Case(id, criterion, required, file, allowed) ==
  [id |-> id, criterion |-> criterion, required |-> required, file |-> file, allowed |-> allowed]
CaseLists ==
  {<<Case(1, "c1", TRUE, "test", TRUE), Case(2, "c2", r, "test", a)>> : r \in BOOLEAN, a \in BOOLEAN}
  \union {<<Case(1, "c1", TRUE, "test", TRUE), Case(i, "c2", TRUE, f, TRUE)>> : i \in {1, 2}, f \in {"test", "none"}}
  \union {<<Case(1, "c1", TRUE, "test", TRUE), Case(2, "c2", TRUE, "test", TRUE), Case(3, c, FALSE, "test", TRUE)>> :
            c \in {"c1", "c9"}}

Plans ==
  {[files |-> f, cases |-> c, criteria |-> SomeCriteria, delivery |-> TRUE, schema |-> TRUE, identity |-> TRUE] :
     f \in GeneratedFiles({"test", ConfigPath}, {{}}), c \in CaseLists}
GoodPlan == CHOOSE p \in Plans : Len(p.files) = 1 /\ QaWorkerAccepts(p, SomeCriteria)
QaAnswers == Plans \union
  {NotJson, [GoodPlan EXCEPT !.schema = FALSE], [GoodPlan EXCEPT !.identity = FALSE],
   [GoodPlan EXCEPT !.delivery = FALSE], [GoodPlan EXCEPT !.criteria = {"c1"}]}

AllAnswers == [r \in {"po", "dev", "qa"} |->
  CASE r = "po" -> PoAnswers [] r = "dev" -> DevAnswers [] r = "qa" -> QaAnswers]
=============================================================================
