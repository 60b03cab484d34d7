----------------------------- MODULE HashTable ------------------------------
(***************************************************************************)
(* The doubly linked lists of list.c and, on top of them, the hash table   *)
(* of hash_table.c with its chains in the order of the keys.  Links are    *)
(* followed and changed as in the code; the reference beside them is a set *)
(* of elements and a sequence.                                             *)
(*                                                                         *)
(* A LIST_ENTRY is in one list at a time: an element is in the table, in   *)
(* the list at ListHead, or free.  While the table is iterated a caller    *)
(* may remove the element it was given and no other, as hash_table.h says. *)
(***************************************************************************)
EXTENDS Naturals, SequencesExt

CONSTANTS
    Elements,
    KeyOf,              \* the key of an element; keys compare as cl_rmemcmp does, as numbers
    MaxKeys,            \* the number of chains
    ListHead,           \* the head of a list outside the table
    NULL,
    HASH_UNIVERSAL_A, HASH_UNIVERSAL_B, HASH_UNIVERSAL_P

ASSUME HashAssumption ==
    /\ IsFiniteSet(Elements) /\ KeyOf \in [Elements -> Nat]
    /\ MaxKeys \in Nat \ {0}
    /\ ListHead \notin Elements /\ (0 .. MaxKeys - 1) \cap (Elements \cup {ListHead}) = {}
    /\ NULL \notin Elements \cup [KeyIndex : 0 .. MaxKeys - 1,
                                  CurrentEntry : (0 .. MaxKeys - 1) \cup Elements \cup {ListHead}]
    /\ HASH_UNIVERSAL_A \in Nat /\ HASH_UNIVERSAL_B \in Nat /\ HASH_UNIVERSAL_P \in Nat \ {0}

Buckets == 0 .. MaxKeys - 1
Nodes == Buckets \cup Elements \cup {ListHead}

VARIABLES
    links,              \* Flink and Blink of every node
    HashFunc,
    NumberOfElements,
    it,                 \* HASH_ITERATOR: KeyIndex and CurrentEntry, or NULL
    pEntry,             \* what HashTableIteratorNext returned last
    clearing,           \* HashTableClear is active
    inTable,            \* the elements of the table
    inList,             \* the elements of the list, in order
    toVisit             \* the elements an iteration has not returned

hashVars == <<links, HashFunc, NumberOfElements, it, pEntry, clearing, inTable, inList, toVisit>>

HashFuncGenericIncremental(key) == key % MaxKeys
HashFuncUniversal(key) ==
    ((HASH_UNIVERSAL_A * (key % HASH_UNIVERSAL_P) + HASH_UNIVERSAL_B) % HASH_UNIVERSAL_P) % MaxKeys
Index(key) == IF HashFunc = "incremental" THEN HashFuncGenericIncremental(key) ELSE HashFuncUniversal(key)

----------------------------------------------------------------------------
\* list.c, on the links l.
_ValidateListEntry(l, e) == l.Blink[l.Flink[e]] = e /\ l.Flink[l.Blink[e]] = e

RemoveEntryList(l, e) ==
    [Flink |-> [l.Flink EXCEPT ![l.Blink[e]] = l.Flink[e]],
     Blink |-> [l.Blink EXCEPT ![l.Flink[e]] = l.Blink[e]]]

RemoveHeadList(l, head) ==
    LET next == l.Flink[l.Flink[head]]
    IN  [Flink |-> [l.Flink EXCEPT ![head] = next], Blink |-> [l.Blink EXCEPT ![next] = head]]

RemoveTailList(l, head) ==
    LET previous == l.Blink[l.Blink[head]]
    IN  [Flink |-> [l.Flink EXCEPT ![previous] = head], Blink |-> [l.Blink EXCEPT ![head] = previous]]

InsertTailList(l, head, e) ==
    [Flink |-> [l.Flink EXCEPT ![e] = head, ![l.Blink[head]] = e],
     Blink |-> [l.Blink EXCEPT ![e] = l.Blink[head], ![head] = e]]

InsertHeadList(l, head, e) ==
    [Flink |-> [l.Flink EXCEPT ![e] = l.Flink[head], ![head] = e],
     Blink |-> [l.Blink EXCEPT ![e] = head, ![l.Flink[head]] = e]]

\* The nodes a loop over the list visits, along Flink or Blink: at most one step for each node.
Further(link, head, before) ==
    LET next == link[IF before = <<>> THEN head ELSE Last(before)]
    IN  IF next = head THEN before ELSE Append(before, next)
VisitedUpTo(link, head) ==
    LET path[n \in 0 .. Cardinality(Nodes)] == IF n = 0 THEN <<>> ELSE Further(link, head, path[n - 1])
    IN  path
Visited(link, head) == VisitedUpTo(link, head)[Cardinality(Nodes)]

ListSize(l, head) == Len(Visited(l.Flink, head))

\* The entry goes in front of the first one that is greater.
InsertOrderedList(l, head, e) ==
    LET path == Visited(l.Flink, head)
        n == SelectInSeq(path, LAMBDA x : KeyOf[e] < KeyOf[x])
    IN  InsertTailList(l, IF n = 0 THEN head ELSE path[n], e)

----------------------------------------------------------------------------
\* An ordered search stops at the first key that is not smaller; 0 is the end of the list.
ListSearchForElement(path, key) == SelectInSeq(path, LAMBDA x : KeyOf[x] >= key)

\* Mutant: the place to insert at is the entry that ended the search, also when it is greater.
SearchIgnoresResult(key) ==
    LET bucket == Index(key)
        path == Visited(links.Flink, bucket)
        n == ListSearchForElement(path, key)
        last == IF n # 0 THEN path[n] ELSE IF path = <<>> THEN bucket ELSE Last(path)
    IN  [found |-> n # 0 /\ KeyOf[last] = key, place |-> last]

\* The place to insert behind is the last entry the search looked at, or the one before when
\* that is greater.
_HashTableSearchKeyInBucket(key) ==
    LET bucket == Index(key)
        path == Visited(links.Flink, bucket)
        n == ListSearchForElement(path, key)
        last == IF n # 0 THEN path[n] ELSE IF path = <<>> THEN bucket ELSE Last(path)
        greater == n # 0 /\ KeyOf[last] > key
    IN  [found |-> n # 0 /\ ~greater, place |-> IF greater THEN links.Blink[last] ELSE last]

HashTableLookup(key) ==
    LET search == _HashTableSearchKeyInBucket(key)
    IN  IF search.found THEN search.place ELSE NULL

HashTableInit ==
    /\ links = [Flink |-> [n \in Nodes |-> n], Blink |-> [n \in Nodes |-> n]]
    /\ HashFunc \in {"incremental", "universal"}
    /\ NumberOfElements = 0 /\ it = NULL /\ pEntry = NULL /\ clearing = FALSE
    /\ inTable = {} /\ inList = <<>> /\ toVisit = {}

Free(e) == e \notin inTable /\ ~Contains(inList, e)

\* An element with the same key is replaced and handed back.
HashTableInsert(e) ==
    LET search == _HashTableSearchKeyInBucket(KeyOf[e])
        inserted == InsertHeadList(links, search.place, e)
    IN  /\ Free(e) /\ it = NULL
        /\ links' = IF search.found THEN RemoveEntryList(inserted, search.place) ELSE inserted
        /\ NumberOfElements' = IF search.found THEN NumberOfElements ELSE NumberOfElements + 1
        /\ inTable' = {x \in inTable : KeyOf[x] # KeyOf[e]} \cup {e}
        /\ UNCHANGED <<HashFunc, it, pEntry, clearing, inList, toVisit>>

HashTableRemoveEntry(e) ==
    /\ links' = RemoveEntryList(links, e)
    /\ NumberOfElements' = NumberOfElements - 1
    /\ inTable' = inTable \ {e}
    /\ UNCHANGED <<HashFunc, clearing, inList, toVisit>>

HashTableRemove(key) ==
    LET e == HashTableLookup(key)
    IN  /\ it = NULL /\ e # NULL
        /\ HashTableRemoveEntry(e)
        /\ UNCHANGED <<it, pEntry>>

----------------------------------------------------------------------------
\* HashTableIteratorInit; HashTableClear begins with it.
HashTableIteratorInit(clear) ==
    /\ it = NULL
    /\ it' = [KeyIndex |-> 0, CurrentEntry |-> links.Flink[0]]
    /\ pEntry' = NULL /\ clearing' = clear /\ toVisit' = inTable
    /\ UNCHANGED <<links, HashFunc, NumberOfElements, inTable, inList>>

\* HashTableIteratorNext goes to the chain that has an entry left; the next entry is
\* taken from the links before the caller can remove the one it gets.
HashTableIteratorNext ==
    LET rest == {b \in Buckets : b > it.KeyIndex /\ links.Flink[b] # b}
        index == IF it.CurrentEntry # it.KeyIndex THEN it.KeyIndex
                 ELSE CHOOSE b \in rest : \A c \in rest : b <= c
        entry == IF it.CurrentEntry # it.KeyIndex THEN it.CurrentEntry ELSE links.Flink[index]
    IN  /\ it # NULL
        /\ clearing => pEntry = NULL
        /\ IF it.CurrentEntry = it.KeyIndex /\ rest = {}
              THEN it' = NULL /\ pEntry' = NULL /\ clearing' = FALSE /\ UNCHANGED toVisit
              ELSE /\ it' = [KeyIndex |-> index, CurrentEntry |-> links.Flink[entry]]
                   /\ pEntry' = entry /\ toVisit' = toVisit \ {entry}
                   /\ UNCHANGED clearing
        /\ UNCHANGED <<links, HashFunc, NumberOfElements, inTable, inList>>

\* The caller, or HashTableClear, removes the entry it was given.
RemoveVisited ==
    /\ it # NULL /\ pEntry # NULL
    /\ HashTableRemoveEntry(pEntry)
    /\ pEntry' = NULL /\ UNCHANGED it

----------------------------------------------------------------------------
\* The list outside the table.
ChangeList(l, s) == /\ links' = l /\ inList' = s
                    /\ UNCHANGED <<HashFunc, NumberOfElements, it, pEntry, clearing, inTable, toVisit>>

Sorted(s) == \A m, n \in DOMAIN s : m < n => KeyOf[s[m]] <= KeyOf[s[n]]

ListNext ==
    /\ ~clearing
    /\ \/ \E e \in Elements : /\ Free(e)
                              /\ \/ ChangeList(InsertTailList(links, ListHead, e), Append(inList, e))
                                 \/ ChangeList(InsertHeadList(links, ListHead, e), <<e>> \o inList)
       \/ \E e \in Elements :
              /\ Free(e) /\ Sorted(inList)
              /\ LET n == SelectInSeq(inList, LAMBDA x : KeyOf[x] > KeyOf[e])
                 IN  ChangeList(InsertOrderedList(links, ListHead, e),
                                IF n = 0 THEN Append(inList, e) ELSE InsertAt(inList, n, e))
       \/ ChangeList(RemoveHeadList(links, ListHead), IF inList = <<>> THEN inList ELSE Tail(inList))
       \/ ChangeList(RemoveTailList(links, ListHead), IF inList = <<>> THEN inList ELSE Front(inList))
       \/ \E n \in DOMAIN inList : ChangeList(RemoveEntryList(links, inList[n]), RemoveAt(inList, n))

TableNext == \/ \E e \in Elements : HashTableInsert(e)
             \/ \E e \in Elements : HashTableRemove(KeyOf[e])
             \/ \E clear \in BOOLEAN : HashTableIteratorInit(clear)
             \/ HashTableIteratorNext
             \/ RemoveVisited

HashSpec == HashTableInit /\ [][TableNext \/ ListNext]_hashVars

----------------------------------------------------------------------------
HashTypeOK ==
    /\ links.Flink \in [Nodes -> Nodes] /\ links.Blink \in [Nodes -> Nodes]
    /\ it # NULL => it.KeyIndex \in Buckets /\ it.CurrentEntry \in Nodes
    /\ pEntry \in Elements \cup {NULL} /\ clearing \in BOOLEAN

\* Every list is a ring in both directions, so that the validation of list.c never fails
\* for an entry that is linked.
RingsAreWhole ==
    \A head \in Buckets \cup {ListHead} :
        LET path == Visited(links.Flink, head)
        IN  /\ Visited(links.Blink, head) = Reverse(path)
            /\ \A n \in {head} \cup Range(path) : _ValidateListEntry(links, n)

\* A chain has the elements of the table with its index, once, with increasing keys; a
\* lookup that stops at the first greater key finds every element.
TableIsExact ==
    /\ NumberOfElements = Cardinality(inTable)
    /\ \A b \in Buckets :
           LET path == Visited(links.Flink, b)
           IN  /\ Range(path) = {e \in inTable : Index(KeyOf[e]) = b}
               /\ \A m, n \in DOMAIN path : m < n => KeyOf[path[m]] < KeyOf[path[n]]
    /\ \A e \in Elements : LET found == HashTableLookup(KeyOf[e])
                           IN  IF found = NULL THEN \A x \in inTable : KeyOf[x] # KeyOf[e]
                               ELSE found \in inTable /\ KeyOf[found] = KeyOf[e]

\* An iteration returns every element once although the caller removes elements, and
\* HashTableClear leaves nothing.
IterationIsComplete ==
    /\ it = NULL => toVisit = {}
    /\ it # NULL => toVisit \subseteq inTable
    /\ clearing => toVisit \cup ({pEntry} \ {NULL}) = inTable

HashInv == HashTypeOK /\ RingsAreWhole /\ TableIsExact /\ IterationIsComplete
           /\ Visited(links.Flink, ListHead) = inList /\ ListSize(links, ListHead) = Len(inList)

=============================================================================
