--------------------------- MODULE EmbeddingReply ---------------------------
(***************************************************************************)
(* How the embedding adapters turn a reply into one embedding per input     *)
(* (adapters/openai.rs, adapters/ollama.rs).                                *)
(***************************************************************************)
EXTENDS Integers, Sequences, FiniteSets

CONSTANTS
  Vectors,        \* embeddings, all of the configured dimension or not
  Fitting,        \* those of the configured dimension
  InvalidResponse

ASSUME ReplyAssumption == Fitting \subseteq Vectors

(* Mutant: the order of the reply is taken for the order of the inputs.     *)
UnorderedEmbeddings(items, expected) ==
  IF Len(items) # expected \/ \E i \in DOMAIN items : items[i].embedding \notin Fitting
  THEN InvalidResponse
  ELSE [i \in DOMAIN items |-> items[i].embedding]

(* sort_by_key is a stable sort: an item goes behind those with a smaller    *)
(* index and behind the earlier ones with the same index.                   *)
Before(items, j, i) ==
  \/ items[j].index < items[i].index
  \/ items[j].index = items[i].index /\ j < i

Position(items, i) == 1 + Cardinality({j \in DOMAIN items : Before(items, j, i)})

SortByIndex(items) ==
  [k \in DOMAIN items |-> items[CHOOSE i \in DOMAIN items : Position(items, i) = k]]

(* OpenAI: the items are sorted by index and the indices must be 0, 1, ...  *)
OrderedEmbeddings(items, expected) ==
  LET ordered == SortByIndex(items) IN
  IF \/ Len(items) # expected
     \/ \E i \in DOMAIN items : items[i].embedding \notin Fitting
     \/ \E i \in DOMAIN ordered : ordered[i].index # i - 1
  THEN InvalidResponse
  ELSE [i \in DOMAIN ordered |-> ordered[i].embedding]

(* Ollama: the embeddings come without indices.                             *)
PlainEmbeddings(embeddings, expected) ==
  IF Len(embeddings) # expected \/ \E i \in DOMAIN embeddings : embeddings[i] \notin Fitting
  THEN InvalidResponse
  ELSE embeddings

-----------------------------------------------------------------------------
(* The replies that are checked: every reply of up to MaxItems items with    *)
(* indices up to MaxItems.                                                  *)
CONSTANTS MaxItems

Items == [index: 0..MaxItems, embedding: Vectors]
Replies == UNION {[1..n -> Items] : n \in 0..MaxItems}

(* A reply is accepted just when it holds one fitting embedding for each     *)
(* input, in whatever order, and then each input gets the one with its       *)
(* index.  A provider without indices is read the same way as one that lists *)
(* its items in order.                                                      *)
ReadRight(items, expected) ==
  LET result == OrderedEmbeddings(items, expected)
      For(input) == {i \in DOMAIN items : items[i].index = input - 1}
  IN
  /\ IF /\ Len(items) = expected
        /\ \A i \in DOMAIN items : items[i].embedding \in Fitting
        /\ \A input \in 1..expected : For(input) # {}
     THEN /\ Len(result) = expected
          /\ \A input \in 1..expected : \A i \in For(input) : result[input] = items[i].embedding
     ELSE result = InvalidResponse
  /\ (\A i \in DOMAIN items : items[i].index = i - 1)
       => result = PlainEmbeddings([i \in DOMAIN items |-> items[i].embedding], expected)

MisreadReplies ==
  {items \in Replies : \E expected \in 0..MaxItems : ~ReadRight(items, expected)}
=============================================================================
