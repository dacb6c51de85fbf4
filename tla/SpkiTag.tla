------------------------------ MODULE SpkiTag ------------------------------
(***************************************************************************)
(* Authorization tags of libspki (spki/tag.c): the internal form a tag     *)
(* expression is compiled to, inclusion of a request in a delegation, and  *)
(* the intersection of two tags.                                           *)
(*                                                                         *)
(* An expression is an atom, with a display type and a sequence of octets, *)
(* or a list of expressions.  Reference counts and allocation failures are *)
(* left out.  Invalid stands for a NULL tag, Aborted for a failed          *)
(* assertion.                                                              *)
(***************************************************************************)
EXTENDS Integers, Sequences, SequencesExt

Atom(s) == [kind |-> "atom", display |-> "none", string |-> s, items |-> <<>>]
List(items) == [kind |-> "list", display |-> "none", string |-> <<>>, items |-> items]
Star == Atom(<<"*">>)

Tag(type, display, string, children) ==
  [type |-> type, display |-> display, string |-> string, children |-> children]
Invalid == Tag("invalid", "none", <<>>, <<>>)
Aborted == Tag("aborted", "none", <<>>, <<>>)
spki_tag_any == Tag("any", "none", <<>>, <<>>)

(* The order in which spki_tag_intersect handles the types.                *)
Rank == [any |-> 1, set |-> 2, list |-> 3, prefix |-> 4, atom |-> 6]

-----------------------------------------------------------------------------
(* The set of already normalised tags c: one member stands for itself, the *)
(* members of inner sets become members.  Consing reverses the order.      *)
spki_tag_set_alloc(c) ==
  IF Len(c) = 1 THEN c[1]
  ELSE Tag("set", "none", <<>>,
           Reverse(FlattenSeq([j \in 1..Len(c) |-> IF c[j].type = "set" THEN c[j].children ELSE <<c[j]>>])))

SetForm == Atom(<<"s", "e", "t">>)
PrefixForm == Atom(<<"p", "r", "e", "f", "i", "x">>)

(* What kind of tag an expression is; ranges are recognised and then       *)
(* refused.                                                                *)
spki_tag_classify(e) ==
  IF e.kind = "atom" THEN "atom"
  ELSE IF e.items = <<>> \/ e.items[1].kind # "atom" THEN "invalid"
  ELSE IF e.items[1] # Star THEN "list"
  ELSE IF Len(e.items) = 1 THEN "any"
  ELSE IF e.items[2] = SetForm THEN "set"
  ELSE IF e.items[2] = PrefixForm THEN "prefix"
  ELSE "invalid"

RECURSIVE spki_tag_compile(_)

(* Compiles the expressions in turn and conses them up in reverse.         *)
spki_tag_compile_list(items) == Reverse([j \in 1..Len(items) |-> spki_tag_compile(items[j])])

(* The first child that cannot be compiled decides; the atom of a prefix   *)
(* is only asserted to be there.                                           *)
Unusable(tag) == tag \in {Invalid, Aborted}

spki_tag_compile(e) ==
  LET type == spki_tag_classify(e)
      children == spki_tag_compile_list(IF type = "set" THEN SubSeq(e.items, 3, Len(e.items)) ELSE e.items)
  IN CASE type = "atom" -> Tag("atom", e.display, e.string, <<>>)
       [] type = "any" -> spki_tag_any
       [] type = "prefix" ->
            IF Len(e.items) = 2 \/ e.items[3].kind # "atom" THEN Aborted
            ELSE IF Len(e.items) > 3 THEN Invalid
            ELSE Tag("prefix", e.items[3].display, e.items[3].string, <<>>)
       [] type \in {"set", "list"} /\ SelectSeq(children, Unusable) # <<>> ->
            Last(SelectSeq(children, Unusable))
       [] type = "set" -> spki_tag_set_alloc(children)
       [] type = "list" -> Tag("list", "none", <<>>, Reverse(children))
       [] OTHER -> Invalid

-----------------------------------------------------------------------------
(* atom_prefix asserts that b is an atom, although both its callers also   *)
(* pass a prefix.                                                          *)
AtomPrefixFails(a, b) == a.type = "prefix" /\ b.type = "prefix"
atom_prefix(a, b) == a.display = b.display /\ IsPrefix(a.string, b.string)
atom_equal(a, b) == a.display = b.display /\ a.string = b.string

RECURSIVE spki_tag_includes(_, _)

(* A set is included member by member in the delegated set.                *)
set_includes(set, request) ==
  IF request.type = "set"
  THEN \A j \in 1..Len(request.children) :
         \E k \in 1..Len(set) : spki_tag_includes(set[k], request.children[j])
  ELSE \E k \in 1..Len(set) : spki_tag_includes(set[k], request)

(* The delegation may be shorter than the request.                         *)
list_includes(list, request) ==
  /\ request.type = "list"
  /\ Len(list) <= Len(request.children)
  /\ \A j \in 1..Len(list) : spki_tag_includes(list[j], request.children[j])

(* Whether the delegated authorization includes the requested one.         *)
spki_tag_includes(delegated, request) ==
  CASE delegated.type = "atom" -> request.type = "atom" /\ atom_equal(delegated, request)
    [] delegated.type = "prefix" -> request.type \in {"atom", "prefix"} /\ atom_prefix(delegated, request)
    [] delegated.type = "list" -> list_includes(delegated.children, request)
    [] delegated.type = "any" -> TRUE
    [] delegated.type = "set" -> set_includes(delegated.children, request)

-----------------------------------------------------------------------------
RECURSIVE spki_tag_intersect(_, _)

(* Only two sets have an intersection: a set and anything else narrower    *)
(* than the any form have none.                                            *)
set_intersect(set, b) ==
  LET pairs == IF b.type = "set"
               THEN FlattenSeq([j \in 1..Len(set) |->
                      [k \in 1..Len(b.children) |-> spki_tag_intersect(set[j], b.children[k])]])
               ELSE <<>>
      head == SelectSeq(pairs, LAMBDA t : t # Invalid)
  IN IF Contains(pairs, Aborted) THEN Aborted
     ELSE IF head = <<>> THEN Invalid
     ELSE spki_tag_set_alloc(Reverse(head))

(* Element by element, then the rest of the longer list.  Elements that do *)
(* not intersect are left out; if none does, the assertion on the head of  *)
(* the list fails.                                                         *)
list_intersect(a, b) ==
  LET n == IF Len(a) < Len(b) THEN Len(a) ELSE Len(b)
      both == [j \in 1..n |-> spki_tag_intersect(a[j], b[j])]
      head == SelectSeq(both, LAMBDA t : t # Invalid)
      longer == IF n = Len(a) THEN b ELSE a
  IN IF Contains(both, Aborted) \/ head = <<>> THEN Aborted
     ELSE Tag("list", "none", <<>>, head \o SubSeq(longer, n + 1, Len(longer)))

prefix_intersect(prefix, b) ==
  IF AtomPrefixFails(prefix, b) THEN Aborted
  ELSE IF b.type = "atom" /\ atom_prefix(prefix, b) THEN b ELSE Invalid

spki_tag_intersect(x, y) ==
  LET swap == Rank[x.type] > Rank[y.type]
      a == IF swap THEN y ELSE x
      b == IF swap THEN x ELSE y
  IN IF x = Aborted \/ y = Aborted THEN Aborted ELSE
     CASE a.type = "any" -> b
       [] a.type = "set" -> set_intersect(a.children, b)
       [] a.type = "list" -> IF b.type = "list" THEN list_intersect(a.children, b.children) ELSE Invalid
       [] a.type = "prefix" -> prefix_intersect(a, b)
       [] a.type = "atom" -> IF atom_equal(a, b) THEN b ELSE Invalid

-----------------------------------------------------------------------------
(* A tag written out as an expression again.                               *)
RECURSIVE spki_tag_format(_)
spki_tag_format(tag) ==
  LET atom == [Atom(tag.string) EXCEPT !.display = tag.display]
      items == [j \in 1..Len(tag.children) |-> spki_tag_format(tag.children[j])]
  IN CASE tag.type = "any" -> List(<<Star>>)
       [] tag.type = "set" -> List(<<Star, SetForm>> \o items)
       [] tag.type = "list" -> List(items)
       [] tag.type = "prefix" -> List(<<Star, PrefixForm, atom>>)
       [] tag.type = "atom" -> atom

-----------------------------------------------------------------------------
(* What a tag expression means, from the definition of tags in RFC 2693:   *)
(* whether expression e authorizes the plain request r, one without star   *)
(* forms.                                                                  *)
RECURSIVE Authorizes(_, _)
Authorizes(e, r) ==
  IF e.kind = "atom" THEN e = r
  ELSE IF e.items[1] # Star
  THEN /\ r.kind = "list"
       /\ Len(e.items) <= Len(r.items)
       /\ \A j \in 1..Len(e.items) : Authorizes(e.items[j], r.items[j])
  ELSE IF Len(e.items) = 1 THEN TRUE
  ELSE IF e.items[2] = SetForm THEN \E j \in 3..Len(e.items) : Authorizes(e.items[j], r)
  ELSE r.kind = "atom" /\ r.display = e.items[3].display /\ IsPrefix(e.items[3].string, r.string)
=============================================================================
