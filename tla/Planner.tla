------------------------------ MODULE Planner ------------------------------
(***************************************************************************)
(* The reconciliation planner (domain/planner.rs) and the part of the      *)
(* canonical document it depends on (domain/canonical.rs), applied again   *)
(* and again to a graph that other programs edit.                          *)
(*                                                                         *)
(* A document is what canonicalize renders of an entity: its type, its     *)
(* observations and one line for each relation, which names the            *)
(* counterpart and its type.  Layout, normalisation and truncation are     *)
(* left out, and a content hash is as good as its document.  A run reads,  *)
(* plans and applies its plan at once: IndexRun takes that step apart.     *)
(***************************************************************************)
EXTENDS Integers

CONSTANTS
  Names,          \* exact entity names
  Types,          \* entity types
  Observations,   \* distinct normalised observations
  RelationTypes,
  NoEntity,       \* a name the graph does not have
  NoDocument,     \* no row in status indexed
  InitialGraphs,  \* graphs the service may meet when it is first started
  MaxEdits        \* bound: edits of the graph

VARIABLES
  graph,    \* the knowledge graph: entities by name, and relations
  index,    \* the document of each indexed row
  touched,  \* history: names an edit may concern that no run has handled since
  edits     \* history: edits so far

planVars == <<graph, index, touched, edits>>

Entity == [type: Types, observations: SUBSET Observations]
Relation == [from: Names, type: RelationTypes, to: Names]
Graph == [entity: [Names -> Entity \cup {NoEntity}], relations: SUBSET Relation]

(* A rendered relation, as seen from the entity it is rendered for.        *)
Line == [direction: {"outgoing", "incoming"}, relation: RelationTypes,
         name: Names, type: Types]
DocumentType == [type: Types, observations: SUBSET Observations,
                 relations: SUBSET Line]

Selector == [kind: {"full"}] \cup [kind: {"entity"}, name: Names]
              \cup [kind: {"type"}, type: Types]

(* What read_graph returns; a name in twice was listed twice.               *)
Snapshot == [entity: [Names -> Entity \cup {NoEntity}],
             relations: SUBSET Relation,
             twice: SUBSET Names, complete: BOOLEAN]

ASSUME PlannerAssumption ==
  /\ NoEntity \notin Entity
  /\ NoDocument \notin DocumentType
  /\ InitialGraphs \subseteq Graph
  /\ MaxEdits \in Nat

-----------------------------------------------------------------------------
NamesIn(g) == {n \in Names : g.entity[n] # NoEntity}

(* A relation of an entity to itself is rendered as outgoing only.          *)
Joins(r, n, l) ==
  /\ r.type = l.relation
  /\ \/ l.direction = "outgoing" /\ r.from = n /\ r.to = l.name
     \/ l.direction = "incoming" /\ r.to = n /\ r.from = l.name /\ r.from # n

Lines(n, g) ==
  {l \in Line : /\ l.name \in NamesIn(g) /\ g.entity[l.name].type = l.type
                /\ \E r \in g.relations : Joins(r, n, l)}

(* Mutant: the counterpart's observations are part of the document.         *)
DocumentWholeCounterpart(n, g) ==
  [type |-> g.entity[n].type,
   observations |-> g.entity[n].observations \cup
     UNION {g.entity[l.name].observations : l \in Lines(n, g)},
   relations |-> Lines(n, g)]

Document(n, g) ==
  [type |-> g.entity[n].type, observations |-> g.entity[n].observations,
   relations |-> Lines(n, g)]

(* canonicalize fails when a relation of n leads out of the snapshot.       *)
Dangling(n, g) ==
  \E r \in g.relations : \/ r.from = n /\ r.to \notin NamesIn(g)
                         \/ r.to = n /\ r.from \notin NamesIn(g)

Selected(s, sel) ==
  {n \in NamesIn(s) : \/ sel.kind = "full"
                      \/ sel.kind = "entity" /\ sel.name = n
                      \/ sel.kind = "type" /\ sel.type = s.entity[n].type}

(* plan succeeds.                                                           *)
Plannable(s, sel) ==
  /\ s.twice = {}
  /\ \A n \in Selected(s, sel) : ~Dangling(n, s)

(* Mutant: only an entity's own fields are compared.                        *)
UpsertsByOwnFields(s, sel) ==
  {n \in Selected(s, sel) :
     \/ index[n] = NoDocument
     \/ index[n].type # s.entity[n].type
     \/ index[n].observations # s.entity[n].observations}

Upserts(s, sel) == {n \in Selected(s, sel) : index[n] # Document(n, s)}

(* Mutant: an unproven snapshot deletes too.                                *)
DeletesUnproven(s, sel) ==
  IF sel.kind = "full"
  THEN {n \in Names : index[n] # NoDocument} \ NamesIn(s) ELSE {}

Deletes(s, sel) ==
  IF s.complete /\ sel.kind = "full"
  THEN {n \in Names : index[n] # NoDocument} \ NamesIn(s) ELSE {}

-----------------------------------------------------------------------------
PlannerInit ==
  /\ graph \in InitialGraphs
  /\ index = [n \in Names |-> NoDocument]
  /\ touched = NamesIn(graph)
  /\ edits = 0

Neighbours(n) == {m \in Names : \E r \in graph.relations :
                    \/ r.from = n /\ r.to = m
                    \/ r.to = n /\ r.from = m}

(* An entity appears, disappears or changes.  Others see its type only.     *)
EditEntity(n, e) ==
  /\ edits < MaxEdits /\ graph.entity[n] # e
  /\ graph' = [graph EXCEPT !.entity[n] = e]
  /\ touched' = touched \cup {n} \cup
       (IF e # NoEntity /\ graph.entity[n] # NoEntity /\ e.type = graph.entity[n].type
        THEN {} ELSE Neighbours(n))
  /\ edits' = edits + 1
  /\ UNCHANGED index

EditRelation(r) ==
  /\ edits < MaxEdits
  /\ graph' = [graph EXCEPT !.relations = IF r \in graph.relations
                                          THEN graph.relations \ {r}
                                          ELSE graph.relations \cup {r}]
  /\ touched' = touched \cup {r.from, r.to}
  /\ edits' = edits + 1
  /\ UNCHANGED index

(* A snapshot that does not prove itself complete may miss anything.        *)
ReadOf(s) ==
  /\ \A n \in Names : s.entity[n] \in {graph.entity[n], NoEntity}
  /\ s.relations \subseteq graph.relations
  /\ s.complete => s.entity = graph.entity /\ s.relations = graph.relations

Unread(s) == {n \in Names : \E r \in graph.relations \ s.relations :
                n \in {r.from, r.to}}

(* A run whose plan was made and carried out; a refused plan changes        *)
(* nothing.                                                                 *)
Reconcile(s, sel) ==
  /\ Plannable(s, sel)
  /\ ReadOf(s)
  /\ LET upserts == Upserts(s, sel)
         deletes == Deletes(s, sel)
     IN index' = [n \in Names |-> IF n \in upserts THEN Document(n, s)
                                  ELSE IF n \in deletes THEN NoDocument
                                  ELSE index[n]]
  /\ touched' = (touched \ (Selected(s, sel) \cup Deletes(s, sel))) \cup Unread(s)
  /\ UNCHANGED <<graph, edits>>

(* The snapshots that can be read of the graph.                             *)
Snapshots ==
  [entity: {[n \in Names |-> IF n \in N THEN graph.entity[n] ELSE NoEntity] :
              N \in SUBSET NamesIn(graph)},
   relations: SUBSET graph.relations,
   twice: SUBSET NamesIn(graph), complete: {FALSE}]
  \cup [entity: {graph.entity}, relations: {graph.relations},
        twice: SUBSET NamesIn(graph), complete: {TRUE}]

PlannerNext ==
  \/ \E n \in Names, e \in Entity \cup {NoEntity} : EditEntity(n, e)
  \/ \E r \in Relation : EditRelation(r)
  \/ \E s \in Snapshots, sel \in Selector : Reconcile(s, sel)

PlannerSpec == PlannerInit /\ [][PlannerNext]_planVars

-----------------------------------------------------------------------------
(* Types of the graph and of the index.                                     *)
PlannerTypeOK ==
  /\ graph \in Graph
  /\ index \in [Names -> DocumentType \cup {NoDocument}]
  /\ touched \subseteq Names
  /\ edits \in 0..MaxEdits

(* What the index should hold for a name of the graph.                      *)
Current(n) == IF n \in NamesIn(graph) THEN Document(n, graph) ELSE NoDocument

(* An edit concerns only the entity, the ends of the relation, or, when a   *)
(* type or an existence changes, the neighbours; and a run settles every    *)
(* entity it selects, whatever it skips.  So a narrow run for each touched  *)
(* name is as good as a full one: outside touched the index is up to date,  *)
(* also after runs on incomplete snapshots.                                 *)
StaleIsTouched == \A n \in Names \ touched : index[n] = Current(n)

(* No run forgets an entity that the graph still has, however little of the *)
(* graph it read.                                                           *)
LiveEntitiesStay ==
  [][\A n \in Names : (index[n] # NoDocument /\ index'[n] = NoDocument) =>
       n \notin NamesIn(graph)]_planVars

(* Nothing is embedded without need: a run rewrites an entity only if an    *)
(* edit touched it, or if it read the graph without some relation of it.    *)
RewritesHaveCause ==
  [][\A n \in Names : index'[n] # index[n] => n \in touched \cup touched']_planVars
=============================================================================
