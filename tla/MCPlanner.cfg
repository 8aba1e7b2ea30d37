\* Two entities, relations of every direction, edits between complete and partial runs.
SPECIFICATION PlannerSpec
CONSTANTS
  Names = {e1, e2}
  Types = {t1, t2}
  Observations = {o1}
  RelationTypes = {knows}
  NoEntity = NoEntity
  NoDocument = NoDocument
  InitialGraphs <- MCInitialGraphs
  MaxEdits = 4
INVARIANTS StaleIsTouched
PROPERTIES LiveEntitiesStay RewritesHaveCause
SYMMETRY Symmetry
