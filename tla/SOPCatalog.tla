------------------------------ MODULE SOPCatalog ------------------------------
(***************************************************************************)
(* The definition of a customer: the base SOP with the customer's JSON     *)
(* patches (src/src/orchestrator/sop_catalog.py).  A document has a map    *)
(* and a list, which is what _set_at and _remove_at tell apart: a path     *)
(* names the container and a key of the map or a position of the list.     *)
(***************************************************************************)
EXTENDS Naturals, Sequences, SequencesExt, Functions, CallModels

CONSTANTS
  Base,        \* the base document [constraints : a map, steps : a list, raised : FALSE]
  Overlays     \* by customer: the sequences of patches that operators may store

\* A patch is [op : {"add", "replace", "remove"}, at : {"constraints", "steps"},
\* key, value].  Positions count from 0; the key End stands for the one after
\* the last step.
End == 99

Position(list, key) == IF key = End THEN Len(list) ELSE key

\* _set_at: a position inside the list is overwritten, for "add" too.
SetInList(list, key, value) ==
  LET i == Position(list, key) IN
  IF i = Len(list) THEN Append(list, value) ELSE ReplaceAt(list, i + 1, value)

SetInMap(map, key, value) ==
  [k \in DOMAIN map \cup {key} |-> IF k = key THEN value ELSE map[k]]

\* The code raises IndexError or KeyError.
PatchRaises(doc, patch) ==
  CASE patch.at = "steps" /\ patch.op = "remove" -> patch.key >= Len(doc.steps)
    [] patch.at = "steps" /\ patch.op # "remove" -> Position(doc.steps, patch.key) > Len(doc.steps)
    [] patch.at = "constraints" ->
         patch.op = "remove" /\ patch.key \notin DOMAIN doc.constraints

Patched(doc, patch) ==
  CASE patch.at = "steps" /\ patch.op = "remove" ->
         [doc EXCEPT !.steps = RemoveAt(@, patch.key + 1)]
    [] patch.at = "steps" /\ patch.op # "remove" ->
         [doc EXCEPT !.steps = SetInList(@, patch.key, patch.value)]
    [] patch.at = "constraints" /\ patch.op = "remove" ->
         [doc EXCEPT !.constraints = Restrict(@, DOMAIN @ \ {patch.key})]
    [] patch.at = "constraints" /\ patch.op # "remove" ->
         [doc EXCEPT !.constraints = SetInMap(@, patch.key, patch.value)]

ApplyPatch(doc, patch) ==
  IF doc.raised THEN doc
  ELSE IF PatchRaises(doc, patch) THEN [doc EXCEPT !.raised = TRUE]
  ELSE Patched(doc, patch)

\* _apply_patches
ApplyPatches(patches) == FoldLeft(ApplyPatch, Base, patches)

\* The definitions that a customer can be served with.
Definitions(customer) ==
  {Base} \cup (IF customer = None THEN {} ELSE {ApplyPatches(p) : p \in Overlays[customer]})

=============================================================================
