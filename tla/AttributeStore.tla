--------------------------- MODULE AttributeStore ---------------------------
(***************************************************************************)
(* Attributes on disk (db_attributes.c).  Every attribute is a record of   *)
(* the database of its own, written and removed at once; which attributes  *)
(* an object has is one more attribute, A_LIST, and that one is kept in    *)
(* memory, for the object changed last, until another is changed or        *)
(* al_store is called.  The operators map a store to the store after a     *)
(* call:                                                                   *)
(*   stored     the attributes of each object that are in the database     *)
(*   listed     what its A_LIST in the database names                      *)
(*   mod_al_id  the object whose list is in memory, or Nothing             *)
(*   mod_alist  that list                                                  *)
(*   dirty      the objects with the DIRTY flag, set by s_Modified         *)
(***************************************************************************)
EXTENDS Integers

CONSTANT Nothing   (* NOTHING (-1) *)

(* al_store: the list in memory is written. *)
AlStore(S) ==
  IF S.mod_al_id = Nothing THEN S
  ELSE [S EXCEPT !.listed[S.mod_al_id] = S.mod_alist,
                 !.dirty = @ \cup {S.mod_al_id},
                 !.mod_al_id = Nothing, !.mod_alist = {}]

(* Mutant of AlFetch: the list in memory is dropped, not written. *)
AlFetchDropping(S, o) ==
  IF S.mod_al_id = o THEN S
  ELSE [S EXCEPT !.mod_al_id = o, !.mod_alist = S.listed[o]]

(* al_fetch: the list in memory is that of o. *)
AlFetch(S, o) ==
  IF S.mod_al_id = o THEN S
  ELSE [AlStore(S) EXCEPT !.mod_al_id = o, !.mod_alist = S.listed[o]]

(* atr_add_raw: o gets the attribute a. *)
AtrAddRaw(S, o, a) ==
  [AlFetch(S, o) EXCEPT !.stored[o] = @ \cup {a}, !.mod_alist = @ \cup {a},
                        !.dirty = @ \cup {o}]

(* atr_clr: o loses the attribute a. *)
AtrClr(S, o, a) ==
  [AlFetch(S, o) EXCEPT !.stored[o] = @ \ {a}, !.mod_alist = @ \ {a},
                        !.dirty = @ \cup {o}]

(* What atr_head and atr_next go through: the list, wherever it is newer. *)
ListOf(S, o) == IF S.mod_al_id = o THEN S.mod_alist ELSE S.listed[o]

(***************************************************************************)
(* atr_free: o loses what its list names, and the list itself.             *)
(***************************************************************************)
AtrFree(S, o) ==
  LET T == IF ListOf(S, o) = {} THEN S ELSE AlFetch(S, o)
      mine == T.mod_al_id = o
  IN  [T EXCEPT !.stored[o] = @ \ ListOf(S, o), !.listed[o] = {},
                !.dirty = @ \cup {o},
                !.mod_al_id = IF mine THEN Nothing ELSE @,
                !.mod_alist = IF mine THEN {} ELSE @]
=============================================================================
