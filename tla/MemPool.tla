------------------------------ MODULE MemPool ------------------------------
(***************************************************************************)
(* The memory pool of the two programs in mempool/.  Small requests are    *)
(* cut from the front of nodes of a page each; large ones go to malloc and *)
(* get a header, itself a small block, by which the pool can free them.    *)
(* Nothing small is ever freed alone: mp_reset_pool gives all back.        *)
(*                                                                         *)
(* An address is a node and an offset into the chunk of memory the node is *)
(* in; chunks start at a multiple of MP_ALIGNMENT.  The first chunk begins *)
(* with the pool's own structure.  The two programs differ in HeadGap and  *)
(* ResetsHead only, apart from what README.md says.                        *)
(***************************************************************************)
EXTENDS Integers, Sequences

CONSTANTS MP_ALIGNMENT,
          PoolSize, NodeSize, HeaderSize, \* of mp_pool_s, mp_node_s, mp_large_s
          HeadGap,       \* bytes mp_create_pool leaves for the first node
          ResetsHead,    \* does mp_reset_pool reset the first node, too?
          size,          \* of a page
          max,           \* the largest small request
          FailLimit,     \* 4: failures before a node is passed over
          Probes,        \* 5: headers searched for a free one
          Requests,      \* what callers ask for: how much, aligned or not
          Larges, None,  \* what malloc returns for large requests
          MaxNodes,      \* bound: nodes in the pool
          MaxOffset      \* bound: how far from a chunk's beginning blocks are followed

Header == [len |-> HeaderSize, aligned |-> TRUE]

ASSUME MemPoolAssumption ==
    /\ MP_ALIGNMENT \in Nat \ {0} /\ size \in Nat /\ max \in Nat
    /\ PoolSize \in Nat /\ NodeSize \in Nat /\ HeaderSize \in Nat /\ HeadGap \in Nat
    /\ FailLimit \in Nat /\ Probes \in Nat /\ MaxNodes \in Nat /\ MaxOffset \in Nat
    /\ max <= size /\ HeaderSize <= max
    /\ Requests \subseteq [len : 1..max, aligned : BOOLEAN]
    /\ ResetsHead \in BOOLEAN
ASSUME NoneAssumption == None \notin Larges

VARIABLES last,      \* of each node, in list order: where its free space begins
          failed,    \* of each node: searches that ended in a new node
          current,   \* where the search begins
          blocks,    \* history: the small blocks handed out and not reset
          large,     \* the list of headers
          heap,      \* the large blocks that are allocated
          up         \* FALSE after mp_destory_pool

nodeVars == <<last, failed, current, blocks>>
vars == <<nodeVars, large, heap, up>>

(* The node's own structure is the first thing in its chunk, but for the   *)
(* first node, which comes after the pool's structure.                     *)
Base(i) == IF i = 1 THEN PoolSize ELSE 0

(* psize: what the first node has from its own start to its end, and every *)
(* other node gets.                                                        *)
PageSize == HeadGap + size
End(i) == IF i = 1 THEN PoolSize + PageSize ELSE PageSize

Init == /\ last = <<PoolSize + HeadGap>>
        /\ failed = <<0>>
        /\ current = 1
        /\ blocks = <<>>
        /\ large = <<>>
        /\ heap = {}
        /\ up = TRUE
-----------------------------------------------------------------------------
mp_align_ptr(n) == (n + (MP_ALIGNMENT - 1)) - ((n + (MP_ALIGNMENT - 1)) % MP_ALIGNMENT)

Start(i, r) == IF r.aligned THEN mp_align_ptr(last[i]) ELSE last[i]

(* (size_t)(p->end - m) >= size: behind the end the difference is negative *)
(* and, unsigned, larger than any request.  The mutant is off by one.      *)
FitsLoosely(i, r) == LET room == End(i) - Start(i, r) IN room < 0 \/ room + 1 >= r.len
Fits(i, r) == LET room == End(i) - Start(i, r) IN room < 0 \/ room >= r.len

(* A new node gives its first block away, whatever the node's room is. *)
FirstBlock == mp_align_ptr(NodeSize)

(* The first element of a set of list indices, and the last, as sets. *)
First(F) == {i \in F : \A j \in F : i <= j}
Last(F) == {i \in F : \A j \in F : j <= i}

(* The block for r: in the first node from current on where it fits, or    *)
(* else in a new node.                                                     *)
Grant(r) ==
    LET F == {i \in current..Len(last) : Fits(i, r)} IN
    IF F # {} THEN {[node |-> i, at |-> Start(i, r), len |-> r.len] : i \in First(F)}
    ELSE {[node |-> Len(last) + 1, at |-> FirstBlock, len |-> r.len]}

(* mp_alloc_block: the search went in vain through all nodes from current  *)
(* on; those that have a successor count it.                               *)
Counted == [i \in DOMAIN failed |-> IF current <= i /\ i < Len(failed) THEN failed[i] + 1
                                    ELSE failed[i]]

(* current moves behind the last node that has failed often enough. *)
Passed == LET P == {i \in current..(Len(failed) - 1) : failed[i] > FailLimit} IN
          IF P = {} THEN {current} ELSE {i + 1 : i \in Last(P)}

(* The mutant forgets where the block ends. *)
LastKept(b) == last[b.node]
LastAfter(b) == b.at + b.len

Carve(b) ==
    /\ b.node <= MaxNodes /\ b.at + b.len <= MaxOffset
    /\ blocks' = Append(blocks, b)
    /\ IF b.node <= Len(last)
         THEN /\ last' = [last EXCEPT ![b.node] = LastAfter(b)]
              /\ UNCHANGED <<failed, current>>
         ELSE /\ last' = Append(last, b.at + b.len)
              /\ failed' = Append(Counted, 0)
              /\ current' \in Passed
-----------------------------------------------------------------------------
(* mp_alloc, mp_calloc and (not aligned) mp_nalloc of at most max. *)
mp_alloc(r) == /\ up
               /\ \E b \in Grant(r) : Carve(b)
               /\ UNCHANGED <<large, heap, up>>

NewHeader(x) == /\ \E b \in Grant(Header) : Carve(b)
                /\ large' = <<x>> \o large

(* mp_memalign: always with a new header. *)
mp_memalign(x) == /\ up
                  /\ x \notin heap
                  /\ heap' = heap \cup {x}
                  /\ NewHeader(x)
                  /\ UNCHANGED up

(* mp_alloc_large: one of the first headers may be free. *)
FreeHeaders == {i \in DOMAIN large : i <= Probes /\ large[i] = None}

mp_alloc_large(x) ==
    /\ up
    /\ x \notin heap
    /\ heap' = heap \cup {x}
    /\ \/ /\ FreeHeaders = {}
          /\ NewHeader(x)
       \/ \E i \in First(FreeHeaders) :
             /\ large' = [large EXCEPT ![i] = x]
             /\ UNCHANGED nodeVars
    /\ UNCHANGED up

(* mp_alloc_large, and mp_memalign alike, when there is no memory for the  *)
(* header's node: the large block is freed again.  mp_alloc_large of       *)
(* yzx_mempool.c crashes instead: it has no check (lines 134 to 137).      *)
GivenBack(h, x) == h \ {x}

NoHeader(x) == /\ up
               /\ x \notin heap
               /\ FreeHeaders = {}
               /\ \A b \in Grant(Header) : b.node > Len(last)
               /\ heap' = GivenBack(heap \cup {x}, x)
               /\ UNCHANGED <<nodeVars, large, up>>

(* The mutant leaves the freed block in its header. *)
StillListed(i) == large
Unlisted(i) == [large EXCEPT ![i] = None]

mp_free(x) == /\ up
              /\ \E i \in First({i \in DOMAIN large : large[i] = x}) :
                    /\ heap' = heap \ {x}
                    /\ large' = Unlisted(i)
              /\ UNCHANGED <<nodeVars, up>>

Listed == {large[i] : i \in DOMAIN large}

(* The nodes stay in the list. *)
Emptied == [i \in DOMAIN last |-> IF i > 1 \/ ResetsHead THEN Base(i) + NodeSize ELSE last[i]]

(* current and failed stay as they are. *)
mp_reset_pool ==
    /\ up
    /\ heap' = heap \ Listed
    /\ large' = <<>>
    /\ blocks' = <<>>
    /\ last' = Emptied
    /\ UNCHANGED <<failed, current, up>>

mp_destory_pool ==
    /\ up
    /\ up' = FALSE
    /\ heap' = heap \ Listed
    /\ UNCHANGED <<nodeVars, large>>

Next == \/ \E r \in Requests : mp_alloc(r)
        \/ \E x \in Larges : \/ mp_memalign(x) \/ mp_alloc_large(x)
                             \/ NoHeader(x) \/ mp_free(x)
        \/ mp_reset_pool
        \/ mp_destory_pool

Spec == Init /\ [][Next]_vars
-----------------------------------------------------------------------------
TypeOK ==
    /\ last \in Seq(Nat)
    /\ failed \in Seq(Nat)
    /\ Len(failed) = Len(last)
    /\ current \in 1..Len(last)
    /\ blocks \in Seq([node : 1..Len(last), at : Nat, len : Nat])
    /\ large \in Seq(Larges \cup {None})
    /\ heap \subseteq Larges
    /\ up \in BOOLEAN

(* No two blocks of a node share a byte while both are in use: user blocks *)
(* and headers alike.                                                      *)
BlocksDisjoint ==
    \A i, j \in DOMAIN blocks :
       i # j /\ blocks[i].node = blocks[j].node
         => \/ blocks[i].at + blocks[i].len <= blocks[j].at
            \/ blocks[j].at + blocks[j].len <= blocks[i].at

(* Every block lies behind its node's own structure, and none straddles    *)
(* the end of its page: it is inside, or else the page's end is not a      *)
(* multiple of MP_ALIGNMENT (the first page's is not) and the block begins *)
(* behind it, at the next multiple or later, where the unsigned difference *)
(* of line 222 no longer stops anything.                                   *)
Inside(b) == b.at + b.len <= End(b.node)
Behind(b) == End(b.node) % MP_ALIGNMENT # 0 /\ mp_align_ptr(End(b.node)) <= b.at

InsideOrBehind ==
    \A i \in DOMAIN blocks :
       /\ Base(blocks[i].node) + NodeSize <= blocks[i].at
       /\ Inside(blocks[i]) \/ Behind(blocks[i])

(* What the comments on mp_node_s say of last and end: the free space      *)
(* begins at last, within the page that ends at end.                       *)
LastWithinEnd == \A i \in DOMAIN last : last[i] <= End(i)

(* Every large block that is allocated has one header in the list, so that *)
(* reset and destroy free all of them, and none twice; after destroy none  *)
(* is left.                                                                *)
LargeIsListed ==
    /\ up => /\ heap = Listed \ {None}
             /\ \A i, j \in DOMAIN large : large[i] = large[j] /\ i # j => large[i] = None
    /\ ~up => heap = {}

(* The sizes of mmpool: the first node has its structure, and a new node   *)
(* room for any small request.  The page and the requests may be any.      *)
RoomForAny == NodeSize <= HeadGap /\ FirstBlock + max <= PageSize
=============================================================================
