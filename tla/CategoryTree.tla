---------------------------- MODULE CategoryTree ----------------------------
(* The tree of categories (categories.service.ts) and the products that hang   *)
(* on it. A handler reads the tree, checks, and writes with a later statement; *)
(* calls of staff interleave there. Module Catalogue adds the products' side.  *)
(*                                                                            *)
(* isActive is left out: it never decides where a category or a product may    *)
(* hang, since what it refuses is accepted for an inactive one.                *)
EXTENDS Naturals, FiniteSets

CONSTANTS
    Categories,    \* bound: ids of categories, taken in ascending order
    Products,      \* bound: ids of products
    Images,        \* bound: ids of product_images, taken in ascending order
    MaxDepth,      \* CATEGORY_MAX_DEPTH
    Guard,         \* steps after which a walk of the tree gives up
    Requests       \* bound: the calls under way at a time

NoCategory == 0
NoProduct == 0
NoImage == 0

ASSUME CategoryAssumption ==
    /\ Categories \subseteq Nat \ {NoCategory}
    /\ Products \subseteq Nat \ {NoProduct}
    /\ Images \subseteq Nat \ {NoImage}
    /\ MaxDepth \in Nat \ {0}
    /\ Guard \in Nat /\ Guard > MaxDepth

VARIABLES
    category,      \* rows of categories; a deleted id does not come back
    parent,        \* categories.parent_id
    product,       \* rows of products, likewise
    categoryOf,    \* products.category_id
    req            \* local state of the calls

treeVars == <<category, parent, product, categoryOf>>

-----------------------------------------------------------------------------
Row == {"NONE", "EXISTS", "DELETED"}

Request ==
    [op : {"none", "createCategory", "moveCategory", "removeCategory",
           "createProduct", "moveProduct", "removeProduct",
           "addFirst", "add", "update", "removeImage"},
     category : Categories \cup {NoCategory},
     target : Categories \cup {NoCategory},    \* the new parent
     product : Products \cup {NoProduct},
     image : Images \cup {NoImage},
     primary : BOOLEAN,          \* the flag asked for, or the one that was read
     cleared : SUBSET Images,    \* rows the transaction takes the flag from
     ready : BOOLEAN,            \* the next statement is the one that commits
     stale : BOOLEAN]            \* history: another call wrote since the first read

Idle ==
    [op |-> "none", category |-> NoCategory, target |-> NoCategory, product |-> NoProduct,
     image |-> NoImage, primary |-> FALSE, cleared |-> {}, ready |-> TRUE, stale |-> FALSE]

TreeTypeOK ==
    /\ category \in [Categories -> Row]
    /\ parent \in [Categories -> Categories \cup {NoCategory}]
    /\ product \in [Products -> Row]
    /\ categoryOf \in [Products -> Categories \cup {NoCategory}]
    /\ req \in [Requests -> Request]

categoryExists(c) == c \in Categories /\ category[c] = "EXISTS"
productExists(p) == product[p] = "EXISTS"

\* The id that the next row gets.
isNext(rows, i) == rows[i] = "NONE" /\ \A j \in DOMAIN rows : j < i => rows[j] # "NONE"

children(c) == {d \in Categories : categoryExists(d) /\ parent[d] = c}
productsIn(c) == {p \in Products : productExists(p) /\ categoryOf[p] = c}

\* The foreign keys that restrict.
TreeIsReferenced ==
    /\ \A c \in Categories : categoryExists(c) /\ parent[c] # NoCategory => categoryExists(parent[c])
    /\ \A p \in Products : productExists(p) => categoryExists(categoryOf[p])

-----------------------------------------------------------------------------
(* Walks of the tree; the code gives up after Guard steps.                     *)

parentIn(parents, c) == IF c = NoCategory THEN NoCategory ELSE parents[c]

\* The n-th category on the way up from c, where these are the parents.
walk(parents, c) ==
    LET up[n \in 0..Guard] == IF n = 0 THEN c ELSE parentIn(parents, up[n - 1])
    IN  up

above(c) == walk(parent, c)

depthOf(c) == LET up == above(c) IN Cardinality({n \in 0..Guard : up[n] # NoCategory})

\* The existing categories n levels below c.
below(c, n) == {d \in Categories : categoryExists(d) /\ above(d)[n] = c}

subtreeHeight(c) == 1 + Cardinality({n \in 1..Guard : below(c, n) # {}})

\* A faulty variant: a category may move below its own children.
collectNone(c) == {}

collectDescendants(c) == UNION {below(c, n) : n \in 1..Guard}

-----------------------------------------------------------------------------
isIdle(r) == req[r].op = "none"
reads(r, call) ==
    /\ isIdle(r)
    /\ req' = [req EXCEPT ![r] = call]

\* The call of r is answered; calls of the same kind hold what they read before.
finishes(r, ops) ==
    req' = [q \in Requests |->
              IF q = r THEN Idle
              ELSE IF req[q].op \in ops THEN [req[q] EXCEPT !.stale = TRUE]
              ELSE req[q]]
refused(r) == req' = [req EXCEPT ![r] = Idle]

TreeOps == {"createCategory", "moveCategory", "removeCategory"}

-----------------------------------------------------------------------------
(* POST /categories                                                           *)

createCategory(r, p) ==
    /\ p # NoCategory => categoryExists(p) /\ depthOf(p) + 1 <= MaxDepth
    /\ reads(r, [Idle EXCEPT !.op = "createCategory", !.target = p])
    /\ UNCHANGED treeVars

insertsCategory(r, c) ==
    /\ req[r].op = "createCategory"
    /\ isNext(category, c)
    /\ req[r].target # NoCategory => categoryExists(req[r].target)
    /\ category' = [category EXCEPT ![c] = "EXISTS"]
    /\ parent' = [parent EXCEPT ![c] = req[r].target]
    /\ finishes(r, TreeOps)
    /\ UNCHANGED <<product, categoryOf>>

\* The parent is gone: the foreign key refuses.
insertRefused(r) ==
    /\ req[r].op = "createCategory"
    /\ req[r].target # NoCategory /\ ~ categoryExists(req[r].target)
    /\ refused(r)
    /\ UNCHANGED treeVars

-----------------------------------------------------------------------------
(* PATCH /categories/:id with a parentId                                      *)

\* Nothing is checked of a category that becomes a root.
moveCategory(r, c, p) ==
    /\ categoryExists(c)
    /\ p # NoCategory =>
          /\ p # c
          /\ categoryExists(p)
          /\ p \notin collectDescendants(c)
          /\ depthOf(p) + subtreeHeight(c) - 1 <= MaxDepth
    /\ reads(r, [Idle EXCEPT !.op = "moveCategory", !.category = c, !.target = p])
    /\ UNCHANGED treeVars

movesCategory(r) ==
    /\ req[r].op = "moveCategory"
    /\ categoryExists(req[r].category)
    /\ req[r].target # NoCategory => categoryExists(req[r].target)
    /\ parent' = [parent EXCEPT ![req[r].category] = req[r].target]
    /\ finishes(r, TreeOps)
    /\ UNCHANGED <<category, product, categoryOf>>

\* The category or its new parent is gone.
moveRefused(r) ==
    /\ req[r].op = "moveCategory"
    /\ \/ ~ categoryExists(req[r].category)
       \/ req[r].target # NoCategory /\ ~ categoryExists(req[r].target)
    /\ refused(r)
    /\ UNCHANGED treeVars

-----------------------------------------------------------------------------
(* DELETE /categories/:id?hard=true                                           *)

\* A faulty variant: the schema does not restrict the delete.
deletable(c) == categoryExists(c)

unreferenced(c) == categoryExists(c) /\ children(c) = {} /\ productsIn(c) = {}

\* The counts of products and children are read first.
removeCategory(r, c) ==
    /\ categoryExists(c) /\ children(c) = {} /\ productsIn(c) = {}
    /\ reads(r, [Idle EXCEPT !.op = "removeCategory", !.category = c])
    /\ UNCHANGED treeVars

\* The foreign keys have the last word.
deletesCategory(r) ==
    /\ req[r].op = "removeCategory"
    /\ IF unreferenced(req[r].category)
       THEN /\ category' = [category EXCEPT ![req[r].category] = "DELETED"]
            /\ parent' = [parent EXCEPT ![req[r].category] = NoCategory]
            /\ finishes(r, TreeOps)
       ELSE refused(r) /\ UNCHANGED <<category, parent>>
    /\ UNCHANGED <<product, categoryOf>>

-----------------------------------------------------------------------------
TreeInit ==
    /\ category = [c \in Categories |-> "NONE"]
    /\ parent = [c \in Categories |-> NoCategory]
    /\ product = [p \in Products |-> "NONE"]
    /\ categoryOf = [p \in Products |-> NoCategory]
    /\ req = [r \in Requests |-> Idle]

treeCalls(r) ==
    \/ \E p \in Categories \cup {NoCategory} :
          createCategory(r, p) \/ \E c \in Categories : moveCategory(r, c, p)
    \/ \E c \in Categories : removeCategory(r, c)

treeSteps(r) ==
    \/ \E c \in Categories : insertsCategory(r, c)
    \/ insertRefused(r) \/ movesCategory(r) \/ moveRefused(r) \/ deletesCategory(r)

-----------------------------------------------------------------------------
\* A write of a call that holds what has changed since it was read.
staleWrite == \E r \in Requests : req[r].stale /\ req[r].ready /\ req'[r] = Idle

isTree ==
    \A c \in Categories : categoryExists(c) => \A n \in 1..Guard : above(c)[n] # c

\* One level more than the code means to allow.
isShallow == \A c \in Categories : categoryExists(c) => depthOf(c) <= MaxDepth + 1
=============================================================================
