------------------------------ MODULE NodeIndex ------------------------------
(***************************************************************************)
(* The two ways a memory field (core/memory_field.py) keeps its nodes: an   *)
(* ordered list of ids, and a dictionary from id to place in the list.      *)
(* Places are numbered from 1.                                             *)
(***************************************************************************)
EXTENDS SequencesExt

(* {nid: i for i, nid in enumerate(ids)} *)
IndexOfIds(ids) == [n \in ToSet(ids) |-> CHOOSE i \in DOMAIN ids : ids[i] = n]
=============================================================================
