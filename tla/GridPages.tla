------------------------------- MODULE GridPages -------------------------------
(***************************************************************************)
(* The pages of the editor of post-conditions: one meta-group after the    *)
(* other, each cut into chunks of PageSize conditions in the order of type *)
(* and id (group_by_meta, split_by_meta_group).                            *)
(***************************************************************************)
EXTENDS PostConditions, FiniteSets

CONSTANTS
    Kind,         \* condition_type of each, as its place in the alphabet
    Group,        \* the place of its meta-group in META_GROUPS; 0: a type of no group
    PageSize      \* _PAGE_SIZE

ASSUME PagesAssumption ==
    /\ IsFiniteSet(Condition) /\ Condition \subseteq Nat
    /\ Kind \in [Condition -> Nat] /\ Group \in [Condition -> Nat]
    /\ PageSize \in Nat \ {0}

\* The conditions that have a place at all.
Known(listed) == {c \in listed : Group[c] # 0}

Precedes(c, d) == Kind[c] < Kind[d] \/ (Kind[c] = Kind[d] /\ c < d)

\* sorted_conds of the group of c, up to c.
Ahead(listed, c) == {d \in listed : Group[d] = Group[c] /\ Precedes(d, c)}

\* Mutant of Chunk: one condition too many on a page.
ChunkOfOneMore(listed, c) == Cardinality(Ahead(listed, c)) \div (PageSize + 1)

\* range(0, len(sorted_conds), page_size)
Chunk(listed, c) == Cardinality(Ahead(listed, c)) \div PageSize

\* A page is named by its group and the number of its chunk.
Slot(listed, c) == <<Group[c], Chunk(listed, c)>>

Slots(listed) == {Slot(listed, c) : c \in Known(listed)}

SlotBefore(s, t) == s[1] < t[1] \/ (s[1] = t[1] /\ s[2] < t[2])

PageCount(listed) == Cardinality(Slots(listed))

PageOf(listed, c) ==
    Cardinality({s \in Slots(listed) : SlotBefore(s, Slot(listed, c))}) + 1

Page(listed, i) == {c \in Known(listed) : PageOf(listed, c) = i}

--------------------------------------------------------------------------------
\* Every condition of a known type has one page; no page is empty, mixes two
\* meta-groups or holds more than PageSize buttons; and going through the pages
\* one meets the groups, the types and the ids in their order.
PagesInOrder(listed) ==
    /\ \A c \in Known(listed) : PageOf(listed, c) \in 1 .. PageCount(listed)
    /\ \A i \in 1 .. PageCount(listed) :
          /\ Page(listed, i) # {}
          /\ Cardinality(Page(listed, i)) <= PageSize
    /\ \A c, d \in Known(listed) :
          /\ PageOf(listed, c) = PageOf(listed, d) => Group[c] = Group[d]
          /\ Group[c] < Group[d] => PageOf(listed, c) < PageOf(listed, d)
          /\ Group[c] = Group[d] /\ Precedes(c, d) => PageOf(listed, c) <= PageOf(listed, d)
================================================================================
