----------------------------- MODULE MCIndexRun -----------------------------
(* IndexRun on small sets: one process, two selectors.                       *)
EXTENDS IndexRun, TLC

CONSTANTS service, oneEntity, whole

MCOwnerOf == [w \in Workers |-> service]

(* The narrow selector covers one entity.                                   *)
MCSelects == [s \in Selectors |-> IF s = Full THEN Entities ELSE {oneEntity}]

(* One content loses lines, and becomes any other, when relations are left   *)
(* out.                                                                     *)
MCShortOf == [h \in Hashes |-> IF h = whole THEN Hashes \ {whole} ELSE {}]

(* A content is edited to the whole one, the whole one is removed.           *)
OneWay == {<<h, whole>> : h \in Hashes \ {whole}} \cup {<<whole, NoRow>>}
AnyEdit == {c \in Content \X Content : c[1] # c[2]}

Symmetry == Permutations(RunIds)
=============================================================================
