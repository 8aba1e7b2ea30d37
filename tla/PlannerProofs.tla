--------------------------- MODULE PlannerProofs ---------------------------
(***************************************************************************)
(* Theorems about the planner: what an edit can make stale, what a run     *)
(* settles, and that no run forgets what the graph still has.              *)
(***************************************************************************)
EXTENDS Planner, TLAPS

PlannerInv == PlannerTypeOK /\ StaleIsTouched

-----------------------------------------------------------------------------
(* What is read of the graph is the graph's or missing.                     *)
LEMMA SnapshotIsRead ==
  ASSUME PlannerTypeOK, NEW s \in Snapshots
  PROVE  /\ s \in Snapshot /\ ReadOf(s)
         /\ NamesIn(s) \subseteq NamesIn(graph)
         /\ \A n \in NamesIn(s) : s.entity[n] = graph.entity[n]
<1>1. /\ graph.entity \in [Names -> Entity \cup {NoEntity}]
      /\ graph.relations \in SUBSET Relation
  BY DEF PlannerTypeOK, Graph
<1>2. CASE s.complete = TRUE
  <2>1. /\ s.entity = graph.entity /\ s.relations = graph.relations
        /\ s.twice \in SUBSET NamesIn(graph)
        /\ s = [entity |-> s.entity, relations |-> s.relations,
                twice |-> s.twice, complete |-> s.complete]
    BY <1>2 DEF Snapshots
  <2>2. NamesIn(s) = NamesIn(graph)
    BY <2>1 DEF NamesIn
  <2>3. ReadOf(s)
    BY <2>1, <2>2 DEF ReadOf
  <2>4. s.twice \in SUBSET Names
    BY <2>1 DEF NamesIn
  <2>5. s \in Snapshot
    BY <1>1, <1>2, <2>1, <2>4 DEF Snapshot
  <2> QED BY <2>1, <2>2, <2>3, <2>5
<1>3. CASE s.complete = FALSE
  <2>1. PICK N \in SUBSET NamesIn(graph) :
          s.entity = [n \in Names |-> IF n \in N THEN graph.entity[n] ELSE NoEntity]
    BY <1>3 DEF Snapshots
  <2>2. /\ s.relations \in SUBSET graph.relations
        /\ s.twice \in SUBSET NamesIn(graph)
        /\ s = [entity |-> s.entity, relations |-> s.relations,
                twice |-> s.twice, complete |-> s.complete]
    BY <1>3 DEF Snapshots
  <2>3. NamesIn(s) = N
    BY <2>1 DEF NamesIn
  <2>4. s.entity \in [Names -> Entity \cup {NoEntity}]
    BY <1>1, <2>1 DEF NamesIn
  <2>5. s.relations \in SUBSET Relation /\ s.twice \in SUBSET Names
    BY <1>1, <2>2 DEF NamesIn
  <2>6. s \in Snapshot
    BY <1>3, <2>2, <2>4, <2>5 DEF Snapshot
  <2>7. \A n \in Names : s.entity[n] \in {graph.entity[n], NoEntity}
    BY <2>1
  <2>8. ReadOf(s)
    BY <1>3, <2>2, <2>7 DEF ReadOf
  <2>9. \A n \in NamesIn(s) : s.entity[n] = graph.entity[n]
    BY <2>1, <2>3 DEF NamesIn
  <2> QED BY <2>3, <2>6, <2>8, <2>9
<1>4. s.complete \in BOOLEAN
  BY DEF Snapshots
<1> QED BY <1>2, <1>3, <1>4

(* A document is never taken for the absence of one.                        *)
LEMMA DocumentIsTyped ==
  ASSUME NEW g, NEW n \in NamesIn(g), g.entity \in [Names -> Entity \cup {NoEntity}]
  PROVE  Document(n, g) \in DocumentType /\ Document(n, g) # NoDocument
<1>1. g.entity[n] \in Entity
  BY DEF NamesIn
<1>2. g.entity[n].type \in Types /\ g.entity[n].observations \in SUBSET Observations
  BY <1>1 DEF Entity
<1>3. Lines(n, g) \in SUBSET Line
  BY DEF Lines
<1>4. Document(n, g) \in DocumentType
  BY <1>2, <1>3 DEF Document, DocumentType
<1> QED BY <1>4, PlannerAssumption

(* The document of an entity depends on its own fields, on its relations,   *)
(* and on the types of their other ends.                                    *)
LEMMA DocumentIsLocal ==
  ASSUME NEW g, NEW h, NEW n \in Names, g.entity[n] = h.entity[n],
         NEW A, A = {l \in Line : \E r \in g.relations : Joins(r, n, l)},
         A = {l \in Line : \E r \in h.relations : Joins(r, n, l)},
         \A l \in A : /\ l.name \in NamesIn(g) <=> l.name \in NamesIn(h)
                      /\ l.name \in NamesIn(g) =>
                           g.entity[l.name].type = h.entity[l.name].type
  PROVE  Document(n, g) = Document(n, h)
<1>1. ASSUME NEW l \in Line PROVE l \in Lines(n, g) <=> l \in Lines(n, h)
  <2>1. l \in Lines(n, g) <=> /\ l \in A /\ l.name \in NamesIn(g)
                              /\ g.entity[l.name].type = l.type
    BY <1>1 DEF Lines
  <2>2. l \in Lines(n, h) <=> /\ l \in A /\ l.name \in NamesIn(h)
                              /\ h.entity[l.name].type = l.type
    BY <1>1 DEF Lines
  <2> QED BY <2>1, <2>2
<1>2. Lines(n, g) = Lines(n, h)
  BY <1>1 DEF Lines
<1> QED BY <1>2 DEF Document

-----------------------------------------------------------------------------
LEMMA PlannerInitInv == PlannerInit => PlannerInv
<1> SUFFICES ASSUME PlannerInit PROVE PlannerInv
  OBVIOUS
<1>1. PlannerTypeOK
  BY PlannerAssumption DEF PlannerInit, PlannerTypeOK, NamesIn
<1>2. StaleIsTouched
  BY DEF PlannerInit, StaleIsTouched, Current
<1> QED BY <1>1, <1>2 DEF PlannerInv

(* An edit of an entity leaves every document it does not touch.            *)
LEMMA EditEntityInv ==
  ASSUME PlannerInv, NEW n \in Names, NEW e \in Entity \cup {NoEntity},
         EditEntity(n, e)
  PROVE  PlannerInv'
<1> USE DEF PlannerInv
<1>1. /\ graph \in Graph /\ graph' = [graph EXCEPT !.entity[n] = e]
      /\ UNCHANGED index /\ edits' = edits + 1 /\ edits < MaxEdits
  BY DEF EditEntity, PlannerTypeOK
<1>2. /\ graph' \in Graph /\ graph'.relations = graph.relations
      /\ graph'.entity[n] = e
      /\ \A m \in Names : m # n => graph'.entity[m] = graph.entity[m]
  BY <1>1 DEF Graph
<1>3. touched \subseteq touched' /\ n \in touched' /\ touched' \subseteq Names
  BY DEF EditEntity, PlannerTypeOK, Neighbours
<1>4. PlannerTypeOK'
  BY <1>1, <1>2, <1>3, PlannerAssumption DEF PlannerTypeOK
<1>5. ASSUME NEW m \in Names \ touched'
      PROVE  index'[m] = Current(m)'
  <2>1. m # n /\ m \notin touched /\ index'[m] = Current(m)
    BY <1>1, <1>3, <1>5 DEF StaleIsTouched
  <2>2. m \in NamesIn(graph') <=> m \in NamesIn(graph)
    BY <1>2, <2>1 DEF NamesIn
  <2>3. CASE m \in NamesIn(graph)
    <3> DEFINE A == {l \in Line : \E r \in graph.relations : Joins(r, m, l)}
    <3>1. ASSUME NEW l \in A
          PROVE  /\ l.name \in NamesIn(graph) <=> l.name \in NamesIn(graph')
                 /\ l.name \in NamesIn(graph) =>
                      graph.entity[l.name].type = graph'.entity[l.name].type
      <4>1. l.name \in Names
        BY <3>1 DEF Line
      <4>2. CASE l.name # n
        BY <1>2, <4>1, <4>2 DEF NamesIn
      <4>3. CASE l.name = n
        <5>1. m \in Neighbours(n)
          BY <3>1, <4>3 DEF Joins, Neighbours
        <5>2. e # NoEntity /\ graph.entity[n] # NoEntity /\ e.type = graph.entity[n].type
          BY <1>5, <5>1 DEF EditEntity
        <5> QED BY <1>2, <4>3, <5>2 DEF NamesIn
      <4> QED BY <4>2, <4>3
    <3>2. A = {l \in Line : \E r \in graph'.relations : Joins(r, m, l)}
      BY <1>2
    <3>3. graph.entity[m] = graph'.entity[m]
      BY <1>2, <2>1
    <3> HIDE DEF A
    <3>4. A = {l \in Line : \E r \in graph.relations : Joins(r, m, l)}
      BY DEF A
    <3>5. Document(m, graph) = Document(m, graph')
      BY <3>1, <3>2, <3>3, <3>4, DocumentIsLocal
    <3> QED BY <2>1, <2>2, <2>3, <3>5 DEF Current
  <2>4. CASE m \notin NamesIn(graph)
    BY <2>1, <2>2, <2>4 DEF Current
  <2> QED BY <2>3, <2>4
<1> QED BY <1>4, <1>5 DEF StaleIsTouched

(* An edit of a relation leaves every document but those of its two ends.   *)
LEMMA EditRelationInv ==
  ASSUME PlannerInv, NEW r \in Relation, EditRelation(r)
  PROVE  PlannerInv'
<1> USE DEF PlannerInv
<1>1. /\ graph \in Graph /\ touched' = touched \cup {r.from, r.to}
      /\ UNCHANGED index /\ edits' = edits + 1 /\ edits < MaxEdits
  BY DEF EditRelation, PlannerTypeOK
<1>2. /\ graph' \in Graph /\ graph'.entity = graph.entity
      /\ \A q : q # r => (q \in graph'.relations <=> q \in graph.relations)
  BY <1>1 DEF EditRelation, Graph
<1>3. PlannerTypeOK'
  BY <1>1, <1>2, PlannerAssumption DEF PlannerTypeOK, Relation
<1>4. NamesIn(graph') = NamesIn(graph)
  BY <1>2 DEF NamesIn
<1>5. ASSUME NEW m \in Names \ touched'
      PROVE  index'[m] = Current(m)'
  <2>1. m # r.from /\ m # r.to /\ index'[m] = Current(m)
    BY <1>1, <1>5 DEF StaleIsTouched
  <2> DEFINE A == {l \in Line : \E q \in graph.relations : Joins(q, m, l)}
  <2>2. \A l \in Line : ~Joins(r, m, l)
    BY <2>1 DEF Joins
  <2>3. A = {l \in Line : \E q \in graph'.relations : Joins(q, m, l)}
    BY <1>2, <2>2
  <2>4. A = {l \in Line : \E q \in graph.relations : Joins(q, m, l)}
    OBVIOUS
  <2> HIDE DEF A
  <2>5. Document(m, graph) = Document(m, graph')
    BY <1>2, <1>4, <2>3, <2>4, DocumentIsLocal
  <2> QED BY <1>4, <2>1, <2>5 DEF Current
<1> QED BY <1>3, <1>5 DEF StaleIsTouched

(* What a plan names.                                                       *)
LEMMA PlanNames ==
  ASSUME PlannerTypeOK, NEW s \in Snapshots, NEW sel \in Selector
  PROVE  /\ Upserts(s, sel) \subseteq Selected(s, sel)
         /\ Selected(s, sel) \subseteq NamesIn(s)
         /\ Deletes(s, sel) \subseteq Names \ NamesIn(s)
         /\ Deletes(s, sel) # {} => s.complete
  BY DEF Upserts, Selected, Deletes

(* A selected entity whose relations were all read and whose counterparts   *)
(* are all known has the document of the whole graph.                       *)
LEMMA ReadDocument ==
  ASSUME PlannerTypeOK, NEW s \in Snapshots, NEW n \in NamesIn(s),
         ~Dangling(n, s), n \notin Unread(s)
  PROVE  Document(n, s) = Document(n, graph)
<1>1. /\ ReadOf(s) /\ NamesIn(s) \subseteq NamesIn(graph) /\ n \in Names
      /\ \A m \in NamesIn(s) : s.entity[m] = graph.entity[m]
  BY SnapshotIsRead DEF NamesIn
<1> DEFINE A == {l \in Line : \E r \in s.relations : Joins(r, n, l)}
<1>2. ASSUME NEW r \in graph.relations, NEW l \in Line, Joins(r, n, l)
      PROVE  r \in s.relations
  BY <1>1, <1>2 DEF Unread, Joins
<1>3. A = {l \in Line : \E r \in graph.relations : Joins(r, n, l)}
  BY <1>1, <1>2 DEF ReadOf
<1>4. ASSUME NEW l \in A
      PROVE  l.name \in NamesIn(s)
  BY <1>4 DEF Dangling, Joins
<1>5. A = {l \in Line : \E r \in s.relations : Joins(r, n, l)}
  OBVIOUS
<1> HIDE DEF A
<1>6. \A l \in A : /\ l.name \in NamesIn(s) <=> l.name \in NamesIn(graph)
                   /\ l.name \in NamesIn(s) =>
                        s.entity[l.name].type = graph.entity[l.name].type
  BY <1>1, <1>4
<1>7. s.entity[n] = graph.entity[n]
  BY <1>1
<1>8. n \in Names
  BY <1>1
<1> QED BY <1>3, <1>5, <1>6, <1>7, <1>8, DocumentIsLocal

(* What a run leaves in the index.                                          *)
LEMMA ReconcileIndex ==
  ASSUME PlannerTypeOK, NEW s \in Snapshots, NEW sel \in Selector, Reconcile(s, sel)
  PROVE  /\ \A n \in Selected(s, sel) : index'[n] = Document(n, s)
         /\ \A n \in Deletes(s, sel) : index'[n] = NoDocument
         /\ \A n \in Names \ (Selected(s, sel) \cup Deletes(s, sel)) : index'[n] = index[n]
         /\ index' \in [Names -> DocumentType \cup {NoDocument}]
<1>1. index' = [n \in Names |-> IF n \in Upserts(s, sel) THEN Document(n, s)
                                ELSE IF n \in Deletes(s, sel) THEN NoDocument
                                ELSE index[n]]
  BY DEF Reconcile
<1>2. /\ Upserts(s, sel) \subseteq Selected(s, sel) /\ Selected(s, sel) \subseteq NamesIn(s)
      /\ Deletes(s, sel) \subseteq Names \ NamesIn(s) /\ NamesIn(s) \subseteq Names
  BY PlanNames DEF NamesIn
<1>3. ASSUME NEW n \in Selected(s, sel) PROVE index'[n] = Document(n, s)
  <2>1. CASE n \in Upserts(s, sel)
    BY <1>1, <1>2, <2>1
  <2>2. CASE n \notin Upserts(s, sel)
    <3>1. index[n] = Document(n, s)
      BY <1>3, <2>2 DEF Upserts
    <3> QED BY <1>1, <1>2, <2>2, <3>1
  <2> QED BY <2>1, <2>2
<1>4. \A n \in Upserts(s, sel) : Document(n, s) \in DocumentType
  <2>1. s.entity \in [Names -> Entity \cup {NoEntity}]
    BY SnapshotIsRead DEF Snapshot
  <2> QED BY <1>2, <2>1, DocumentIsTyped
<1>5. \A n \in Names : index'[n] \in DocumentType \cup {NoDocument}
  BY <1>1, <1>4 DEF PlannerTypeOK
<1>6. index' \in [Names -> DocumentType \cup {NoDocument}]
  BY <1>1, <1>5
<1> QED BY <1>1, <1>2, <1>3, <1>6

LEMMA ReconcileInv ==
  ASSUME PlannerInv, NEW s \in Snapshots, NEW sel \in Selector, Reconcile(s, sel)
  PROVE  PlannerInv'
<1> USE DEF PlannerInv
<1> DEFINE settled == Selected(s, sel) \cup Deletes(s, sel)
<1>1. /\ UNCHANGED <<graph, edits>> /\ Plannable(s, sel)
      /\ touched' = (touched \ settled) \cup Unread(s)
  BY DEF Reconcile
<1>2. PlannerTypeOK'
  BY <1>1, ReconcileIndex DEF PlannerTypeOK, Unread
<1>3. ASSUME NEW m \in Names \ touched'
      PROVE  index'[m] = Current(m)'
  <2>1. Current(m)' = Current(m) /\ m \notin Unread(s)
    BY <1>1, <1>3 DEF Current, NamesIn, Document, Lines
  <2>2. CASE m \in Selected(s, sel)
    <3>1. index'[m] = Document(m, s) /\ m \in NamesIn(s) /\ ~Dangling(m, s)
      BY <1>1, <2>2, ReconcileIndex, PlanNames DEF Plannable
    <3>2. Document(m, s) = Document(m, graph) /\ m \in NamesIn(graph)
      BY <2>1, <3>1, ReadDocument, SnapshotIsRead
    <3> QED BY <2>1, <3>1, <3>2 DEF Current
  <2>3. CASE m \in Deletes(s, sel)
    <3>1. index'[m] = NoDocument /\ m \notin NamesIn(s) /\ s.complete
      BY <2>3, ReconcileIndex, PlanNames
    <3>2. m \notin NamesIn(graph)
      BY <3>1, SnapshotIsRead DEF ReadOf, NamesIn
    <3> QED BY <2>1, <3>1, <3>2 DEF Current
  <2>4. CASE m \notin settled
    <3>1. index'[m] = index[m] /\ m \notin touched
      BY <1>1, <1>3, <2>4, ReconcileIndex
    <3> QED BY <2>1, <3>1 DEF StaleIsTouched
  <2> QED BY <2>2, <2>3, <2>4
<1> QED BY <1>2, <1>3 DEF StaleIsTouched

LEMMA PlannerNextInv == PlannerInv /\ [PlannerNext]_planVars => PlannerInv'
<1> SUFFICES ASSUME PlannerInv, [PlannerNext]_planVars PROVE PlannerInv'
  OBVIOUS
<1>1. CASE UNCHANGED planVars
  BY <1>1 DEF planVars, PlannerInv, PlannerTypeOK, StaleIsTouched, Current, NamesIn,
              Document, Lines
<1>2. CASE PlannerNext
  BY <1>2, EditEntityInv, EditRelationInv, ReconcileInv DEF PlannerNext
<1> QED BY <1>1, <1>2

(* The inductive invariant.                                                 *)
THEOREM PlannerInvariant == PlannerSpec => []PlannerInv
BY PlannerInitInv, PlannerNextInv, PTL DEF PlannerSpec

(* Types of the graph and of the index.                                     *)
THEOREM PlannerTypeCorrect == PlannerSpec => []PlannerTypeOK
<1>1. PlannerInv => PlannerTypeOK
  BY DEF PlannerInv
<1> QED BY <1>1, PlannerInvariant, PTL

(* Edits are local: outside the names they concern the index is up to date, *)
(* whatever mixture of narrow, full and incomplete runs went before.        *)
THEOREM EditsAreLocal == PlannerSpec => []StaleIsTouched
<1>1. PlannerInv => StaleIsTouched
  BY DEF PlannerInv
<1> QED BY <1>1, PlannerInvariant, PTL

(* No run forgets an entity the graph still has.                            *)
THEOREM NoLiveEntityForgotten == PlannerSpec => LiveEntitiesStay
<1>1. ASSUME PlannerInv, PlannerNext, NEW n \in Names,
             index[n] # NoDocument, index'[n] = NoDocument
      PROVE  n \notin NamesIn(graph)
  <2>1. CASE UNCHANGED index
    BY <1>1, <2>1
  <2>2. CASE \E s \in Snapshots, sel \in Selector : Reconcile(s, sel)
    <3>1. PICK s \in Snapshots, sel \in Selector : Reconcile(s, sel)
      BY <2>2
    <3>2. PlannerTypeOK
      BY <1>1 DEF PlannerInv
    <3>3. n \notin Selected(s, sel)
      <4>1. SUFFICES ASSUME n \in Selected(s, sel) PROVE FALSE
        OBVIOUS
      <4>2. index'[n] = Document(n, s) /\ n \in NamesIn(s)
        BY <3>1, <3>2, <4>1, ReconcileIndex, PlanNames
      <4>3. s.entity \in [Names -> Entity \cup {NoEntity}]
        BY <3>2, SnapshotIsRead DEF Snapshot
      <4> QED BY <1>1, <4>2, <4>3, DocumentIsTyped
    <3>4. n \in Deletes(s, sel)
      BY <1>1, <3>1, <3>2, <3>3, ReconcileIndex
    <3>5. n \notin NamesIn(s) /\ s.complete
      BY <3>2, <3>4, PlanNames
    <3> QED BY <3>2, <3>5, SnapshotIsRead DEF ReadOf, NamesIn
  <2> QED BY <1>1, <2>1, <2>2 DEF PlannerNext, EditEntity, EditRelation
<1>2. PlannerInv /\ [PlannerNext]_planVars =>
        [\A n \in Names : (index[n] # NoDocument /\ index'[n] = NoDocument) =>
           n \notin NamesIn(graph)]_planVars
  BY <1>1
<1> QED BY <1>2, PlannerInvariant, PTL DEF PlannerSpec, LiveEntitiesStay

(* A run rewrites only what an edit touched or what it read in part.        *)
THEOREM NoIdleRewrite == PlannerSpec => RewritesHaveCause
<1>1. ASSUME PlannerInv, PlannerInv', PlannerNext, NEW n \in Names,
             index'[n] # index[n]
      PROVE  n \in touched \cup touched'
  <2>1. UNCHANGED index \/ UNCHANGED graph
    BY <1>1 DEF PlannerNext, EditEntity, EditRelation, Reconcile
  <2>2. UNCHANGED graph
    BY <1>1, <2>1
  <2>3. Current(n)' = Current(n)
    BY <2>2 DEF Current, NamesIn, Document, Lines
  <2>4. /\ n \notin touched => index[n] = Current(n)
        /\ n \notin touched' => index'[n] = Current(n)'
    BY <1>1 DEF PlannerInv, StaleIsTouched
  <2> QED BY <1>1, <2>3, <2>4
<1>2. PlannerInv /\ PlannerInv' /\ [PlannerNext]_planVars =>
        [\A n \in Names : index'[n] # index[n] => n \in touched \cup touched']_planVars
  BY <1>1
<1> QED BY <1>2, PlannerInvariant, PTL DEF PlannerSpec, RewritesHaveCause

(* A full run on a complete snapshot brings the whole index up to date,     *)
(* whatever runs on incomplete snapshots had left.                          *)
THEOREM CompleteRunConverges ==
  ASSUME PlannerInv, NEW s \in Snapshots, NEW sel \in Selector,
         s.complete, sel.kind = "full", Reconcile(s, sel)
  PROVE  \A n \in Names : index'[n] = Current(n)'
<1>1. PlannerTypeOK /\ PlannerInv'
  BY ReconcileInv DEF PlannerInv
<1>2. touched' = touched \ (Selected(s, sel) \cup Deletes(s, sel))
  BY <1>1, SnapshotIsRead DEF Reconcile, Unread, ReadOf
<1>3. ASSUME NEW n \in Names
      PROVE  index'[n] = Current(n)'
  <2>1. CASE n \in NamesIn(s)
    <3>1. n \in Selected(s, sel)
      BY <2>1 DEF Selected
    <3> QED BY <1>1, <1>2, <1>3, <3>1 DEF PlannerInv, StaleIsTouched
  <2>2. CASE n \notin NamesIn(s) /\ index[n] # NoDocument
    <3>1. n \in Deletes(s, sel)
      BY <1>3, <2>2 DEF Deletes
    <3> QED BY <1>1, <1>2, <1>3, <3>1 DEF PlannerInv, StaleIsTouched
  <2>3. CASE n \notin NamesIn(s) /\ index[n] = NoDocument
    <3>1. n \notin Selected(s, sel) /\ n \notin Deletes(s, sel)
      BY <2>3 DEF Selected, Deletes
    <3>2. index'[n] = NoDocument
      BY <1>1, <1>3, <2>3, <3>1, ReconcileIndex
    <3>3. n \notin NamesIn(graph) /\ UNCHANGED graph
      BY <1>1, <2>3, SnapshotIsRead DEF ReadOf, NamesIn, Reconcile
    <3> QED BY <3>2, <3>3 DEF Current, NamesIn
  <2> QED BY <2>1, <2>2, <2>3
<1> QED BY <1>3

(* The same run once more has nothing left to do.                           *)
THEOREM RepeatIsIdle ==
  ASSUME PlannerTypeOK, NEW s \in Snapshots, NEW sel \in Selector, Reconcile(s, sel)
  PROVE  Upserts(s, sel)' = {} /\ Deletes(s, sel)' = {}
<1>1. Upserts(s, sel)' = {}
  BY ReconcileIndex DEF Upserts, Selected, NamesIn, Document, Lines
<1>2. Deletes(s, sel)' = {}
  BY ReconcileIndex DEF Deletes, Selected, NamesIn
<1> QED BY <1>1, <1>2
=============================================================================
