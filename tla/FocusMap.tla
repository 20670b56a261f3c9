------------------------------ MODULE FocusMap ------------------------------
(***************************************************************************)
(* The focus routing table of crates/core/src/input.rs: the dispatch       *)
(* thread's replica of who is on screen, where, and in which order.        *)
(* A table is a function from the routable surfaces to their entries.      *)
(***************************************************************************)
EXTENDS Integers, SequencesExt

CONSTANT NoSurface

EmptyTable == <<>>

(* `cells` is the entry's rectangle; z its index in composition order.       *)
Entry(cells, z, focusable) == [cells |-> cells, z |-> z, focusable |-> focusable]

MapSurface(table, id, entry) == (id :> entry) @@ table

Unmap(table, id) == [x \in DOMAIN table \ {id} |-> table[x]]

(* max_by_key(|(id, e)| (e.z, id)) over the candidates; None if there is none. *)
Uppermost(table, ids) ==
  IF ids = {} THEN NoSurface
  ELSE CHOOSE id \in ids :
         \A x \in ids \ {id} :
            \/ table[x].z < table[id].z
            \/ table[x].z = table[id].z /\ x < id

Topmost(table) == Uppermost(table, {id \in DOMAIN table : table[id].focusable})

(* The hit test: the uppermost entry whose rectangle holds the point.        *)
At(table, cell) == Uppermost(table, {id \in DOMAIN table : cell \in table[id].cells})
=============================================================================
