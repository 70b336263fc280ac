-------------------------- MODULE Catalogue_proofs --------------------------
(* Theorems about Catalogue and the CategoryTree it extends.                  *)
EXTENDS Catalogue, FiniteSetTheorems, WellFoundedInduction, TLAPS

-----------------------------------------------------------------------------
(* Numbers. The induction of the library takes a predicate; this one takes a   *)
(* set.                                                                       *)

LEMMA LeastNumber ==
    ASSUME NEW S, S \subseteq Nat, S # {}
    PROVE  \E m \in S : \A n \in S : m <= n
<1> DEFINE R == OpToRel(<, Nat)
<1>1. IsWellFoundedOn(R, Nat)
  BY NatLessThanWellFounded
<1>2. \A x, y \in Nat : y < x => <<y, x>> \in R
  BY DEF OpToRel
<1> HIDE DEF R
<1>3. PICK m \in S : \A n \in S : ~ (<<n, m>> \in R)
  BY <1>1, WFMin
<1>4. ASSUME NEW n \in S, ~ (m <= n) PROVE FALSE
  <2>1. n < m /\ m \in Nat /\ n \in Nat
    BY <1>4
  <2> QED
    BY <1>2, <1>3, <2>1
<1> QED
  BY <1>4

LEMMA NumbersInductively ==
    ASSUME NEW S, 0 \in S, \A n \in Nat : n \in S => n + 1 \in S
    PROVE  Nat \subseteq S
<1> SUFFICES ASSUME Nat \ S # {} PROVE FALSE
  OBVIOUS
<1>1. PICK m \in Nat \ S : \A n \in Nat \ S : m <= n
  BY LeastNumber
<1>2. m # 0 /\ m - 1 \in Nat
  BY <1>1
<1>3. m - 1 \in S
  BY <1>1, <1>2
<1> QED
  BY <1>2, <1>3

-----------------------------------------------------------------------------
(* Walks up the tree.                                                         *)

Parents == [Categories -> Categories \cup {NoCategory}]

\* The walk of the code exists: it is the function its recursion defines.
LEMMA WalkIs ==
    ASSUME NEW p, NEW c
    PROVE  walk(p, c) = [n \in 0..Guard |-> IF n = 0 THEN c ELSE parentIn(p, walk(p, c)[n - 1])]
<1> DEFINE Def(f, n) == [k \in 0..n |-> IF k = 0 THEN c ELSE parentIn(p, f[k - 1])]
           S == {n \in Nat : \E f : f = Def(f, n)}
<1>1. 0 \in S
  <2> DEFINE f == [k \in 0..0 |-> c]
  <2>1. f = Def(f, 0)
    OBVIOUS
  <2> QED
    BY <2>1
<1>2. ASSUME NEW n \in Nat, n \in S PROVE n + 1 \in S
  <2>1. PICK f : f = Def(f, n)
    BY <1>2
  <2> DEFINE g == [k \in 0..(n + 1) |-> IF k = n + 1 THEN parentIn(p, f[n]) ELSE f[k]]
  <2>2. \A k \in 0..(n + 1) : g[k] = IF k = 0 THEN c ELSE parentIn(p, g[k - 1])
    BY <2>1
  <2>3. g = Def(g, n + 1)
    BY <2>2
  <2> HIDE DEF g
  <2>4. n + 1 \in Nat
    OBVIOUS
  <2> QED
    BY <2>3, <2>4
<1>3. Guard \in S
  <2> HIDE DEF S
  <2> QED
    BY <1>1, <1>2, NumbersInductively, CategoryAssumption
<1>4. \E f : f = Def(f, Guard)
  BY <1>3
<1>5. walk(p, c) = CHOOSE f : f = Def(f, Guard)
  BY DEF walk
<1>6. walk(p, c) = Def(walk(p, c), Guard)
  BY <1>4, <1>5
<1> QED
  BY <1>6

\* A walk begins where it says and goes from each category to its parent.
LEMMA WalkSteps ==
    ASSUME NEW p, NEW c
    PROVE  /\ walk(p, c)[0] = c
           /\ \A n \in Nat : n < Guard => walk(p, c)[n + 1] = parentIn(p, walk(p, c)[n])
<1> DEFINE w == walk(p, c)
<1>1. w = [n \in 0..Guard |-> IF n = 0 THEN c ELSE parentIn(p, w[n - 1])]
  BY WalkIs
<1> HIDE DEF w
<1>2. 0 \in 0..Guard /\ Guard \in Nat
  BY CategoryAssumption
<1>3. w[0] = c
  BY <1>1, <1>2
<1>4. ASSUME NEW n \in Nat, n < Guard PROVE w[n + 1] = parentIn(p, w[n])
  <2>1. n + 1 \in 0..Guard /\ n + 1 # 0 /\ (n + 1) - 1 = n
    BY <1>2, <1>4
  <2> QED
    BY <1>1, <2>1
<1> QED
  BY <1>3, <1>4 DEF w

LEMMA WalkType ==
    ASSUME NEW p \in Parents, NEW c \in Categories \cup {NoCategory},
           NEW n \in Nat, n <= Guard
    PROVE  walk(p, c)[n] \in Categories \cup {NoCategory}
<1> DEFINE S == {k \in Nat : k <= Guard => walk(p, c)[k] \in Categories \cup {NoCategory}}
<1>1. 0 \in S
  BY WalkSteps
<1>2. ASSUME NEW k \in Nat, k \in S PROVE k + 1 \in S
  <2> SUFFICES ASSUME k + 1 <= Guard
               PROVE  walk(p, c)[k + 1] \in Categories \cup {NoCategory}
    OBVIOUS
  <2>1. k < Guard /\ k <= Guard
    BY CategoryAssumption
  <2>2. walk(p, c)[k] \in Categories \cup {NoCategory}
    BY <1>2, <2>1
  <2> QED
    BY <2>1, <2>2, WalkSteps DEF Parents, parentIn
<1> HIDE DEF S
<1>3. Nat \subseteq S
  BY <1>1, <1>2, NumbersInductively
<1> QED
  BY <1>3 DEF S

\* A walk of i and j steps is one of i, and one of j from there.
LEMMA WalksCompose ==
    ASSUME NEW p, NEW c, NEW i \in Nat, NEW j \in Nat, i + j <= Guard
    PROVE  walk(p, c)[i + j] = walk(p, walk(p, c)[i])[j]
<1> DEFINE d == walk(p, c)[i]
           S == {k \in Nat : i + k <= Guard => walk(p, c)[i + k] = walk(p, d)[k]}
<1>1. 0 \in S
  BY WalkSteps
<1>2. ASSUME NEW k \in Nat, k \in S PROVE k + 1 \in S
  <2> SUFFICES ASSUME i + (k + 1) <= Guard
               PROVE  walk(p, c)[i + (k + 1)] = walk(p, d)[k + 1]
    OBVIOUS
  <2>1. i + k < Guard /\ i + k <= Guard /\ k < Guard /\ i + k \in Nat
        /\ i + (k + 1) = (i + k) + 1
    BY CategoryAssumption
  <2>2. walk(p, c)[i + k] = walk(p, d)[k]
    BY <1>2, <2>1
  <2>3. walk(p, c)[(i + k) + 1] = parentIn(p, walk(p, c)[i + k])
    BY <2>1, WalkSteps
  <2>4. walk(p, d)[k + 1] = parentIn(p, walk(p, d)[k])
    BY <2>1, WalkSteps
  <2> QED
    BY <2>1, <2>2, <2>3, <2>4
<1> HIDE DEF S
<1>3. Nat \subseteq S
  BY <1>1, <1>2, NumbersInductively
<1> QED
  BY <1>3 DEF S

\* There is nothing above nothing.
LEMMA WalksEnd ==
    ASSUME NEW p, NEW n \in Nat, n <= Guard
    PROVE  walk(p, NoCategory)[n] = NoCategory
<1> DEFINE S == {k \in Nat : k <= Guard => walk(p, NoCategory)[k] = NoCategory}
<1>1. 0 \in S
  BY WalkSteps
<1>2. ASSUME NEW k \in Nat, k \in S PROVE k + 1 \in S
  BY <1>2, WalkSteps, CategoryAssumption DEF parentIn
<1> HIDE DEF S
<1>3. Nat \subseteq S
  BY <1>1, <1>2, NumbersInductively
<1> QED
  BY <1>3 DEF S

\* A walk that has not come to c does not know that c has another parent.
LEMMA WalksAgree ==
    ASSUME NEW p \in Parents, NEW c, NEW q, \A x \in Categories \ {c} : q[x] = p[x],
           NEW d \in Categories \cup {NoCategory}, NEW n \in Nat, n <= Guard,
           \A k \in 0..(n - 1) : walk(p, d)[k] # c \/ walk(q, d)[k] # c
    PROVE  walk(p, d)[n] = walk(q, d)[n]
<1> DEFINE S == {k \in Nat : k <= n => walk(p, d)[k] = walk(q, d)[k]}
<1>1. 0 \in S
  BY WalkSteps
<1>2. ASSUME NEW k \in Nat, k \in S PROVE k + 1 \in S
  <2> SUFFICES ASSUME k + 1 <= n
               PROVE  walk(p, d)[k + 1] = walk(q, d)[k + 1]
    OBVIOUS
  <2>1. k \in 0..(n - 1) /\ k < Guard /\ k <= n
    BY CategoryAssumption
  <2>2. walk(p, d)[k] = walk(q, d)[k] /\ walk(q, d)[k] # c
    BY <1>2, <2>1
  <2>3. walk(p, d)[k] \in Categories \cup {NoCategory}
    BY <2>1, WalkType, CategoryAssumption
  <2>4. parentIn(p, walk(p, d)[k]) = parentIn(q, walk(q, d)[k])
    BY <2>2, <2>3 DEF parentIn, Parents
  <2> QED
    BY <2>1, <2>4, WalkSteps
<1> HIDE DEF S
<1>3. Nat \subseteq S
  BY <1>1, <1>2, NumbersInductively
<1>4. n \in S /\ n <= n
  BY <1>3
<1> QED
  BY <1>4 DEF S

\* Where c gets the parent t a circle closes only if there was one, without c, or c
\* was above t.
LEMMA CircleThrough ==
    ASSUME NEW p \in Parents, NEW c \in Categories, NEW t \in Categories \cup {NoCategory},
           NEW d \in Categories, NEW n \in 1..Guard,
           walk([p EXCEPT ![c] = t], d)[n] = d
    PROVE  \/ d # c /\ walk(p, d)[n] = d
           \/ \E m \in 0..(Guard - 1) : t # NoCategory /\ walk(p, t)[m] = c
<1> DEFINE q == [p EXCEPT ![c] = t]
<1>0. n \in Nat /\ n <= Guard /\ Guard \in Nat /\ q \in Parents /\ q[c] = t /\ c # NoCategory
      /\ walk(q, d)[n] = d
      /\ \A x \in Categories \ {c} : q[x] = p[x]
  BY CategoryAssumption DEF Parents
<1> HIDE DEF q
<1>1. CASE \A k \in 0..(n - 1) : walk(q, d)[k] # c
  <2>1. walk(p, d)[n] = walk(q, d)[n]
    <3>1. d \in Categories \cup {NoCategory} /\ n \in Nat /\ n <= Guard
      BY <1>0
    <3>2. \A k \in 0..(n - 1) : walk(p, d)[k] # c \/ walk(q, d)[k] # c
      BY <1>1
    <3> QED
      BY <1>0, <3>1, <3>2, WalksAgree
  <2>2. walk(q, d)[0] = d /\ 0 \in 0..(n - 1)
    BY WalkSteps
  <2> QED
    BY <1>0, <1>1, <2>1, <2>2
<1>2. CASE \E k \in 0..(n - 1) : walk(q, d)[k] = c
  <2>1. PICK k \in 0..(n - 1) : walk(q, d)[k] = c
    BY <1>2
  <2> DEFINE j == n - 1 - k
  <2>2. k \in Nat /\ j \in Nat /\ (k + 1) + j = n /\ j + k = n - 1 /\ k < Guard /\ j + k <= Guard
        /\ k + 1 \in Nat
    BY <1>0
  <2> HIDE DEF j
  <2>3. walk(q, d)[k + 1] = t
    <3>1. walk(q, d)[k + 1] = parentIn(q, c)
      BY <2>1, <2>2, WalkSteps
    <3> QED
      BY <1>0, <3>1 DEF parentIn
  <2>4. walk(q, t)[j] = d
    <3>1. walk(q, d)[(k + 1) + j] = walk(q, walk(q, d)[k + 1])[j]
      BY <1>0, <2>2, WalksCompose
    <3> QED
      BY <1>0, <2>2, <2>3, <3>1
  <2>5. walk(q, t)[n - 1] = c
    <3>1. walk(q, t)[j + k] = walk(q, walk(q, t)[j])[k]
      BY <2>2, WalksCompose
    <3> QED
      BY <2>1, <2>2, <2>4, <3>1
  <2> DEFINE T == {m \in Nat : m <= n - 1 /\ walk(q, t)[m] = c}
  <2>6. n - 1 \in T
    BY <2>5
  <2>7. PICK m \in T : \A i \in T : m <= i
    <3> HIDE DEF T
    <3>1. T \subseteq Nat
      BY DEF T
    <3> QED
      BY <2>6, <3>1, LeastNumber
  <2>8. m \in Nat /\ m <= n - 1 /\ m <= Guard
    BY <1>0
  <2>9. ASSUME NEW i \in 0..(m - 1) PROVE walk(q, t)[i] # c
    <3>1. i \in Nat /\ i <= n - 1 /\ ~ (m <= i)
      BY <1>0, <2>8
    <3> QED
      BY <2>7, <3>1
  <2>10. walk(p, t)[m] = c
    <3>1. walk(p, t)[m] = walk(q, t)[m]
      BY <1>0, <2>8, <2>9, WalksAgree
    <3> QED
      BY <2>7, <3>1
  <2>11. t # NoCategory
    BY <1>0, <2>8, <2>10, WalksEnd
  <2> QED
    BY <1>0, <2>8, <2>10, <2>11
<1> QED
  BY <1>1, <1>2

-----------------------------------------------------------------------------
(* The inductive invariant.                                                   *)

\* What a call carries.
callShape(c) ==
    /\ c.op \in ProductOps \cup {"addFirst", "add"} => c.product \in Products
    /\ c.op \in {"update", "removeImage"} => c.image \in Images /\ c.product = productOf[c.image]
    /\ ~ c.ready => c.op \in {"add", "update"} /\ c.primary

CallsOK ==
    /\ req \in [Requests -> Request]
    /\ \A r \in Requests : callShape(req[r])

\* The rows and their foreign keys: TypeOK but for the calls.
TablesOK ==
    /\ category \in [Categories -> Row]
    /\ parent \in Parents
    /\ product \in [Products -> Row]
    /\ categoryOf \in [Products -> Categories \cup {NoCategory}]
    /\ image \in [Images -> Image]
    /\ history \subseteq {p \in Products : productExists(p)}
    /\ TreeIsReferenced
    /\ \A i \in Images : imageExists(i) => productExists(productOf[i])

\* Each image was added by a step of its own.
FinitelyMany == IsFiniteSet({i \in Images : image[i] # "NONE"})

\* What calls of each kind have read is still so.
treeReads(c) ==
    c.op = "moveCategory" /\ c.target # NoCategory =>
        /\ c.target # c.category
        /\ categoryExists(c.target) => \A n \in 1..Guard : above(c.target)[n] # c.category

depthReads(c) ==
    c.target # NoCategory /\ categoryExists(c.target) =>
        /\ c.op = "createCategory" => depthOf(c.target) + 1 <= MaxDepth
        /\ c.op = "moveCategory" => depthOf(c.target) + subtreeHeight(c.category) - 1 <= MaxDepth

productReads(c) == c.op = "removeProduct" => c.product \notin history

imageReads(c) ==
    /\ c.op = "addFirst" => imagesOf(c.product) = {} /\ c.primary
    /\ c.op = "add" => imagesOf(c.product) # {}
    /\ c.op \in {"update", "removeImage"} => imageExists(c.image)
    /\ c.op = "update" /\ ~ c.primary => image[c.image] # "PRIMARY"
    /\ c.op = "removeImage" => (c.primary <=> image[c.image] = "PRIMARY")
    /\ c.op \in {"addFirst", "add", "update"} =>
          c.cleared = IF c.primary /\ c.ready THEN imagesOf(c.product) ELSE {}

readsHold(c) ==
    ~ c.stale => treeReads(c) /\ depthReads(c) /\ productReads(c) /\ imageReads(c)

Inv ==
    /\ CallsOK
    /\ TablesOK
    /\ FinitelyMany
    /\ \A r \in Requests : readsHold(req[r])

LEMMA TypedIsTypeOK == CallsOK /\ TablesOK => TypeOK
BY DEF CallsOK, TablesOK, Parents, TypeOK, TreeTypeOK

LEMMA IdleShape == Idle \in Request /\ callShape(Idle) /\ readsHold(Idle)
<1>1. Idle \in Request
  BY DEF Idle, Request
<1>2. callShape(Idle)
  BY DEF Idle, callShape, ProductOps
<1>3. treeReads(Idle) /\ depthReads(Idle) /\ productReads(Idle) /\ imageReads(Idle)
  BY DEF Idle, treeReads, depthReads, productReads, imageReads
<1> QED
  BY <1>1, <1>2, <1>3 DEF readsHold

-----------------------------------------------------------------------------
(* What a step is to the calls.                                               *)

tables == <<treeVars, image, history>>

\* Call r goes on to c, and writes nothing.
goesOn(r, c) ==
    /\ req' = [req EXCEPT ![r] = c]
    /\ c \in Request
    /\ callShape(c)
    /\ readsHold(c)
    /\ UNCHANGED tables

\* The tree is as it was, and so is what was read of it.
LEMMA SameTree ==
    ASSUME UNCHANGED <<category, parent>>, NEW q,
           treeReads(req'[q]) /\ depthReads(req'[q])
    PROVE  (treeReads(req[q]) /\ depthReads(req[q]))'
<1>1. \A c : depthOf(c)' = depthOf(c) /\ subtreeHeight(c)' = subtreeHeight(c)
  BY DEF depthOf, subtreeHeight, below, above, categoryExists
<1> QED
  BY <1>1 DEF treeReads, depthReads, categoryExists, above

LEMMA GoneOn ==
    ASSUME Inv, NEW r \in Requests, NEW c, goesOn(r, c)
    PROVE  Inv'
<1>1. \A q \in Requests : req'[q] = IF q = r THEN c ELSE req[q]
  BY DEF goesOn, Inv, CallsOK
<1>2. CallsOK'
  BY <1>1 DEF goesOn, Inv, CallsOK
<1>3. UNCHANGED <<category, parent, product, categoryOf, image, history>>
  BY DEF goesOn, tables, treeVars
<1>4. TablesOK'
  BY <1>3 DEF Inv, TablesOK, productExists, TreeIsReferenced, categoryExists, imageExists
<1>5. FinitelyMany'
  BY <1>3 DEF Inv, FinitelyMany
<1>6. ASSUME NEW q \in Requests PROVE readsHold(req[q])'
  <2>1. readsHold(req'[q])
    BY <1>1 DEF goesOn, Inv
  <2>2. req'[q].stale \/ (treeReads(req[q]) /\ depthReads(req[q]))'
    BY <1>3, <2>1, SameTree DEF readsHold
  <2> QED
    BY <1>3, <2>1, <2>2 DEF readsHold, productReads, imageReads, imagesOf, imageExists
<1> QED
  BY <1>2, <1>4, <1>5, <1>6 DEF Inv

\* Call r is answered; those of the kinds ops, and they alone, hold what has changed.
LEMMA FinishKeepsCalls ==
    ASSUME Inv, NEW r \in Requests, NEW ops, finishes(r, ops),
           TreeOps \subseteq ops \/ UNCHANGED <<category, parent>>,
           ProductOps \subseteq ops \/ history' = history,
           ImageOps \subseteq ops \/ image' = image
    PROVE  CallsOK' /\ (\A q \in Requests : readsHold(req[q]))'
<1>1. \A q \in Requests :
          \/ req'[q] = Idle
          \/ req[q].op \in ops /\ req'[q] = [req[q] EXCEPT !.stale = TRUE]
          \/ req[q].op \notin ops /\ req'[q] = req[q]
  BY DEF finishes
<1>2. \A q \in Requests : req[q] \in Request /\ callShape(req[q]) /\ readsHold(req[q])
  BY DEF Inv, CallsOK
<1>3. ASSUME NEW q \in Requests PROVE req'[q] \in Request /\ callShape(req'[q])
  <2>1. CASE req'[q] = [req[q] EXCEPT !.stale = TRUE]
    BY <1>2, <2>1 DEF Request, callShape
  <2> QED
    BY <1>1, <1>2, <2>1, IdleShape
<1>4. req' \in [Requests -> Request]
  BY <1>3 DEF finishes
<1>5. CallsOK'
  BY <1>3, <1>4 DEF CallsOK
<1>6. ASSUME NEW q \in Requests PROVE readsHold(req[q])'
  <2>1. CASE req'[q] = Idle
    BY <2>1 DEF Idle, readsHold, treeReads, depthReads, productReads, imageReads
  <2>2. CASE req'[q] = [req[q] EXCEPT !.stale = TRUE]
    <3>1. req'[q].stale
      BY <1>2, <2>2 DEF Request
    <3> QED
      BY <3>1 DEF readsHold
  <2>3. CASE req[q].op \notin ops /\ req'[q] = req[q]
    <3>1. treeReads(req[q]) /\ depthReads(req[q]) => (treeReads(req[q]) /\ depthReads(req[q]))'
      <4>1. CASE TreeOps \subseteq ops
        BY <2>3, <4>1 DEF treeReads, depthReads, TreeOps
      <4>2. CASE UNCHANGED <<category, parent>>
        BY <2>3, <4>2, SameTree
      <4> QED
        BY <4>1, <4>2
    <3>2. productReads(req[q]) => productReads(req[q])'
      BY <2>3 DEF productReads, ProductOps
    <3>3. imageReads(req[q]) => imageReads(req[q])'
      <4>1. CASE image' = image
        BY <2>3, <4>1 DEF imageReads, imagesOf, imageExists
      <4>2. CASE ImageOps \subseteq ops
        BY <2>3, <4>2 DEF imageReads, ImageOps
      <4> QED
        BY <4>1, <4>2
    <3> QED
      BY <1>2, <2>3, <3>1, <3>2, <3>3 DEF readsHold
  <2> QED
    BY <1>1, <2>1, <2>2, <2>3
<1> QED
  BY <1>5, <1>6

-----------------------------------------------------------------------------
(* The steps that write nothing.                                              *)

LEMMA Refusals ==
    ASSUME NEW r \in Requests, refused(r), UNCHANGED tables
    PROVE  goesOn(r, Idle)
BY IdleShape DEF refused, goesOn

\* What the code collects downwards, said of walks upwards.
LEMMA DescendantsAre ==
    ASSUME NEW c, NEW t
    PROVE  t \in collectDescendants(c)
              <=> categoryExists(t) /\ \E n \in 1..Guard : above(t)[n] = c
BY DEF collectDescendants, below, categoryExists

LEMMA TreeCallsGoOn ==
    ASSUME NEW r \in Requests, treeCalls(r), UNCHANGED <<image, history>>
    PROVE  \E c : goesOn(r, c)
<1>1. UNCHANGED tables
  BY DEF treeCalls, createCategory, moveCategory, removeCategory, tables, treeVars
<1>2. ASSUME NEW p \in Categories \cup {NoCategory}, createCategory(r, p)
      PROVE  \E c : goesOn(r, c)
  <2> DEFINE c == [Idle EXCEPT !.op = "createCategory", !.target = p]
  <2>1. c \in Request /\ callShape(c) /\ treeReads(c) /\ productReads(c) /\ imageReads(c)
    BY DEF Idle, Request, callShape, ProductOps, treeReads, productReads, imageReads
  <2>2. depthReads(c)
    BY <1>2 DEF createCategory, depthReads, Idle
  <2>3. req' = [req EXCEPT ![r] = c]
    BY <1>2 DEF createCategory, reads
  <2> QED
    BY <1>1, <2>1, <2>2, <2>3 DEF goesOn, readsHold
<1>3. ASSUME NEW p \in Categories \cup {NoCategory}, NEW d \in Categories, moveCategory(r, d, p)
      PROVE  \E c : goesOn(r, c)
  <2> DEFINE c == [Idle EXCEPT !.op = "moveCategory", !.category = d, !.target = p]
  <2>1. c \in Request /\ callShape(c)
    BY DEF Idle, Request, callShape, ProductOps
  <2>2. treeReads(c)
    BY <1>3, DescendantsAre DEF moveCategory, treeReads, Idle
  <2>3. depthReads(c)
    BY <1>3 DEF moveCategory, depthReads, Idle
  <2>4. readsHold(c)
    BY <2>2, <2>3 DEF Idle, readsHold, productReads, imageReads
  <2>5. req' = [req EXCEPT ![r] = c]
    BY <1>3 DEF moveCategory, reads
  <2> QED
    BY <1>1, <2>1, <2>4, <2>5 DEF goesOn
<1>4. ASSUME NEW d \in Categories, removeCategory(r, d)
      PROVE  \E c : goesOn(r, c)
  <2> DEFINE c == [Idle EXCEPT !.op = "removeCategory", !.category = d]
  <2>1. c \in Request /\ callShape(c) /\ readsHold(c)
    BY DEF Idle, Request, callShape, ProductOps, readsHold, treeReads, depthReads, productReads, imageReads
  <2>2. req' = [req EXCEPT ![r] = c]
    BY <1>4 DEF removeCategory, reads
  <2> QED
    BY <1>1, <2>1, <2>2 DEF goesOn
<1> QED
  BY <1>2, <1>3, <1>4 DEF treeCalls

LEMMA ProductCallsGoOn ==
    ASSUME NEW r \in Requests, NEW p \in Products,
           \/ \E d \in Categories : createProduct(r, p, d) \/ moveProduct(r, p, d)
           \/ removeProduct(r, p)
    PROVE  \E c : goesOn(r, c)
<1>1. UNCHANGED tables
  BY DEF createProduct, moveProduct, removeProduct, tables
<1>2. ASSUME NEW d \in Categories, NEW op \in {"createProduct", "moveProduct"},
             reads(r, [Idle EXCEPT !.op = op, !.product = p, !.target = d])
      PROVE  \E c : goesOn(r, c)
  <2> DEFINE c == [Idle EXCEPT !.op = op, !.product = p, !.target = d]
  <2>1. c \in Request /\ callShape(c) /\ readsHold(c)
    BY DEF Idle, Request, callShape, readsHold, treeReads, depthReads, productReads, imageReads
  <2>2. req' = [req EXCEPT ![r] = c]
    BY <1>2 DEF reads
  <2> QED
    BY <1>1, <2>1, <2>2 DEF goesOn
<1>3. CASE removeProduct(r, p)
  <2> DEFINE c == [Idle EXCEPT !.op = "removeProduct", !.product = p]
  <2>1. c \in Request /\ callShape(c) /\ treeReads(c) /\ depthReads(c) /\ imageReads(c)
    BY DEF Idle, Request, callShape, treeReads, depthReads, imageReads
  <2>2. productReads(c)
    BY <1>3 DEF Idle, removeProduct, hasNoHistory, productReads
  <2>3. req' = [req EXCEPT ![r] = c]
    BY <1>3 DEF removeProduct, reads
  <2> QED
    BY <1>1, <2>1, <2>2, <2>3 DEF goesOn, readsHold
<1> QED
  BY <1>2, <1>3 DEF createProduct, moveProduct

LEMMA ImageCallsGoOn ==
    ASSUME NEW r \in Requests,
           \/ \E p \in Products, b \in BOOLEAN : addImage(r, p, b)
           \/ \E i \in Images, b \in BOOLEAN : updateImage(r, i, b)
           \/ \E i \in Images : removeImage(r, i)
    PROVE  \E c : goesOn(r, c)
<1>1. UNCHANGED tables
  BY DEF addImage, updateImage, removeImage, tables
<1>2. ASSUME NEW p \in Products, NEW b \in BOOLEAN, addImage(r, p, b)
      PROVE  \E c : goesOn(r, c)
  <2>1. CASE imagesOf(p) = {}
    <3> DEFINE c == [Idle EXCEPT !.op = "addFirst", !.product = p, !.primary = TRUE]
    <3>1. c \in Request /\ callShape(c) /\ treeReads(c) /\ depthReads(c) /\ productReads(c)
      BY DEF Idle, Request, callShape, treeReads, depthReads, productReads
    <3>2. imageReads(c)
      BY <2>1 DEF Idle, imageReads
    <3>3. req' = [req EXCEPT ![r] = c]
      BY <1>2, <2>1 DEF addImage, reads
    <3> QED
      BY <1>1, <3>1, <3>2, <3>3 DEF goesOn, readsHold
  <2>2. CASE imagesOf(p) # {}
    <3> DEFINE c == [Idle EXCEPT !.op = "add", !.product = p, !.primary = b, !.ready = ~ b]
    <3>1. c \in Request /\ callShape(c) /\ treeReads(c) /\ depthReads(c) /\ productReads(c)
      BY DEF Idle, Request, callShape, treeReads, depthReads, productReads
    <3>2. imageReads(c)
      BY <2>2 DEF Idle, imageReads
    <3>3. req' = [req EXCEPT ![r] = c]
      BY <1>2, <2>2 DEF addImage, reads
    <3> QED
      BY <1>1, <3>1, <3>2, <3>3 DEF goesOn, readsHold
  <2> QED
    BY <2>1, <2>2
<1>3. ASSUME NEW i \in Images, NEW b \in BOOLEAN, updateImage(r, i, b)
      PROVE  \E c : goesOn(r, c)
  <2> DEFINE c == [Idle EXCEPT !.op = "update", !.product = productOf[i], !.image = i,
                               !.primary = b, !.ready = ~ b]
  <2>1. c \in Request /\ callShape(c) /\ treeReads(c) /\ depthReads(c) /\ productReads(c)
    BY CatalogueAssumption DEF Idle, Request, callShape, ProductOps, treeReads, depthReads, productReads
  <2>2. imageReads(c)
    BY <1>3 DEF Idle, imageReads, updateImage
  <2>3. req' = [req EXCEPT ![r] = c]
    BY <1>3 DEF updateImage, reads
  <2> QED
    BY <1>1, <2>1, <2>2, <2>3 DEF goesOn, readsHold
<1>4. ASSUME NEW i \in Images, removeImage(r, i)
      PROVE  \E c : goesOn(r, c)
  <2> DEFINE c == [Idle EXCEPT !.op = "removeImage", !.product = productOf[i], !.image = i,
                               !.primary = image[i] = "PRIMARY"]
  <2>1. c \in Request /\ callShape(c) /\ treeReads(c) /\ depthReads(c) /\ productReads(c)
    BY CatalogueAssumption DEF Idle, Request, callShape, ProductOps, treeReads, depthReads, productReads
  <2>2. imageReads(c)
    BY <1>4 DEF Idle, imageReads, removeImage
  <2>3. req' = [req EXCEPT ![r] = c]
    BY <1>4 DEF removeImage, reads
  <2> QED
    BY <1>1, <2>1, <2>2, <2>3 DEF goesOn, readsHold
<1> QED
  BY <1>2, <1>3, <1>4

LEMMA FixingGoesOn ==
    ASSUME Inv, NEW r \in Requests, fixesRows(r)
    PROVE  \E c : goesOn(r, c)
<1> DEFINE c == [req[r] EXCEPT !.cleared = imagesOf(req[r].product), !.ready = TRUE]
<1>1. req[r] \in Request /\ callShape(req[r]) /\ readsHold(req[r])
  BY DEF Inv, CallsOK
<1>2. c \in Request /\ callShape(c)
  BY <1>1 DEF Request, callShape, imagesOf
<1>3. readsHold(c)
  BY <1>1 DEF Request, callShape, readsHold, treeReads, depthReads, productReads, imageReads, fixesRows
<1>4. req' = [req EXCEPT ![r] = c] /\ UNCHANGED tables
  BY DEF fixesRows, tables, Inv, CallsOK
<1> QED
  BY <1>2, <1>3, <1>4 DEF goesOn

-----------------------------------------------------------------------------
(* The steps that write.                                                      *)

LEMMA WritesKeepInv ==
    ASSUME Inv, NEW r \in Requests, NEW ops, finishes(r, ops),
           TreeOps \subseteq ops \/ UNCHANGED <<category, parent>>,
           ProductOps \subseteq ops \/ history' = history,
           ImageOps \subseteq ops \/ image' = image,
           TablesOK', FinitelyMany'
    PROVE  Inv'
<1>1. CallsOK' /\ (\A q \in Requests : readsHold(req[q]))'
  BY FinishKeepsCalls
<1> QED
  BY <1>1 DEF Inv

\* A step that adds one image at most.
LEMMA StillFinitelyMany ==
    ASSUME FinitelyMany, NEW j, \A i \in Images \ {j} : image'[i] # "NONE" => image[i] # "NONE"
    PROVE  FinitelyMany'
<1> DEFINE S == {i \in Images : image[i] # "NONE"}
           T == {i \in Images : image'[i] # "NONE"}
<1>1. IsFiniteSet(S \cup {j})
  BY FS_AddElement DEF FinitelyMany
<1>2. T \subseteq S \cup {j}
  OBVIOUS
<1>3. IsFiniteSet(T)
  <2> HIDE DEF S, T
  <2> QED
    BY <1>1, <1>2, FS_Subset
<1> QED
  BY <1>3 DEF FinitelyMany

\* A step that leaves the images alone.
LEMMA SameImages ==
    ASSUME FinitelyMany, image' = image
    PROVE  FinitelyMany'
BY DEF FinitelyMany

\* A step of a call that writes categories.
writesTree(r) ==
    /\ \/ \E c \in Categories : insertsCategory(r, c)
       \/ movesCategory(r)
       \/ deletesCategory(r) /\ unreferenced(req[r].category)
    /\ UNCHANGED <<image, history>>

LEMMA TreeWritesKeepInv ==
    ASSUME Inv, NEW r \in Requests, writesTree(r)
    PROVE  Inv'
<1>0. TablesOK /\ req[r] \in Request
  BY DEF Inv, CallsOK
<1>1. /\ UNCHANGED <<image, history, product, categoryOf>>
      /\ finishes(r, TreeOps)
  BY DEF writesTree, insertsCategory, movesCategory, deletesCategory
<1>2. ASSUME NEW c \in Categories, insertsCategory(r, c)
      PROVE  TablesOK'
  <2>1. /\ category[c] = "NONE"
        /\ category' = [category EXCEPT ![c] = "EXISTS"]
        /\ parent' = [parent EXCEPT ![c] = req[r].target]
        /\ req[r].target \in Categories \cup {NoCategory}
        /\ req[r].target # NoCategory => category[req[r].target] = "EXISTS"
    BY <1>0, <1>2 DEF insertsCategory, isNext, Request, categoryExists
  <2>2. category' \in [Categories -> Row] /\ parent' \in Parents
    BY <1>0, <2>1 DEF TablesOK, Row, Parents
  <2>3. \A d : categoryExists(d) => categoryExists(d)'
    BY <1>0, <2>1 DEF TablesOK, categoryExists
  <2>4. TreeIsReferenced'
    BY <1>0, <1>1, <2>1, <2>3 DEF TablesOK, TreeIsReferenced, categoryExists, productExists, Parents
  <2> QED
    BY <1>0, <1>1, <2>2, <2>4 DEF TablesOK, imageExists, productExists
<1>3. ASSUME movesCategory(r) PROVE TablesOK'
  <2>1. /\ req[r].category \in Categories
        /\ category' = category
        /\ parent' = [parent EXCEPT ![req[r].category] = req[r].target]
        /\ req[r].target \in Categories \cup {NoCategory}
        /\ req[r].target # NoCategory => category[req[r].target] = "EXISTS"
    BY <1>0, <1>3 DEF movesCategory, Request, categoryExists
  <2>2. parent' \in Parents
    BY <1>0, <2>1 DEF TablesOK, Parents
  <2>3. TreeIsReferenced'
    BY <1>0, <1>1, <2>1 DEF TablesOK, TreeIsReferenced, categoryExists, productExists, Parents
  <2> QED
    BY <1>0, <1>1, <2>1, <2>2, <2>3 DEF TablesOK, imageExists, productExists
<1>4. ASSUME deletesCategory(r), unreferenced(req[r].category) PROVE TablesOK'
  <2> DEFINE c == req[r].category
  <2>1. /\ c \in Categories
        /\ category' = [category EXCEPT ![c] = "DELETED"]
        /\ parent' = [parent EXCEPT ![c] = NoCategory]
    BY <1>4 DEF deletesCategory, unreferenced, categoryExists
  <2>2. /\ \A d \in Categories : categoryExists(d) => parent[d] # c
        /\ \A p \in Products : productExists(p) => categoryOf[p] # c
    BY <1>4 DEF unreferenced, children, productsIn
  <2>3. category' \in [Categories -> Row] /\ parent' \in Parents
    BY <1>0, <2>1 DEF TablesOK, Row, Parents
  <2>4. TreeIsReferenced'
    BY <1>0, <1>1, <2>1, <2>2 DEF TablesOK, TreeIsReferenced, categoryExists, productExists, Parents
  <2> QED
    BY <1>0, <1>1, <2>3, <2>4 DEF TablesOK, imageExists, productExists
<1>5. TablesOK'
  BY <1>2, <1>3, <1>4 DEF writesTree
<1>6. FinitelyMany'
  BY <1>1, SameImages DEF Inv
<1> QED
  BY <1>1, <1>5, <1>6, WritesKeepInv

\* A product gets or changes its category.
writesProduct(r) ==
    /\ \/ insertsProduct(r) /\ product[req[r].product] = "NONE"
       \/ updatesProduct(r) /\ productExists(req[r].product)
    /\ categoryExists(req[r].target)

LEMMA ProductWritesKeepInv ==
    ASSUME Inv, NEW r \in Requests, writesProduct(r)
    PROVE  Inv'
<1>0. TablesOK /\ req[r] \in Request /\ callShape(req[r])
  BY DEF Inv, CallsOK
<1> DEFINE p == req[r].product
<1>1. /\ p \in Products
      /\ product' = [product EXCEPT ![p] = "EXISTS"]
      /\ categoryOf' = [categoryOf EXCEPT ![p] = req[r].target]
      /\ categoryExists(req[r].target)
      /\ UNCHANGED <<category, parent, image, history>>
      /\ finishes(r, ProductOps)
  BY <1>0 DEF writesProduct, insertsProduct, updatesProduct, hangs, callShape, ProductOps,
     productExists
<1>2. product' \in [Products -> Row] /\ categoryOf' \in [Products -> Categories \cup {NoCategory}]
  BY <1>0, <1>1 DEF TablesOK, Row, categoryExists
<1>3. \A q \in Products : productExists(q) => productExists(q)'
  BY <1>0, <1>1 DEF TablesOK, productExists
<1>4. TreeIsReferenced'
  BY <1>0, <1>1 DEF TablesOK, TreeIsReferenced, categoryExists, productExists
<1>5. \A i \in Images : imageExists(i)' => productExists(productOf[i])'
  BY <1>0, <1>1, <1>3, CatalogueAssumption DEF TablesOK, imageExists
<1>6. TablesOK'
  BY <1>0, <1>1, <1>2, <1>3, <1>4, <1>5 DEF TablesOK
<1>7. FinitelyMany'
  BY <1>1, SameImages DEF Inv
<1> QED
  BY <1>1, <1>6, <1>7, WritesKeepInv

LEMMA ProductDeletionKeepsInv ==
    ASSUME Inv, NEW r \in Requests, deletesProduct(r), productExists(req[r].product)
    PROVE  Inv'
<1>0. TablesOK /\ req[r] \in Request /\ callShape(req[r])
  BY DEF Inv, CallsOK
<1> DEFINE p == req[r].product
<1>1. /\ p \in Products
      /\ product' = [product EXCEPT ![p] = "DELETED"]
      /\ categoryOf' = [categoryOf EXCEPT ![p] = NoCategory]
      /\ history' = history \ {p}
      /\ image' = [i \in Images |-> IF i \in imagesOf(p) THEN "DELETED" ELSE image[i]]
      /\ UNCHANGED <<category, parent>>
      /\ finishes(r, ProductOps \cup ImageOps)
  BY <1>0 DEF deletesProduct, callShape, ProductOps
<1>2. /\ product' \in [Products -> Row]
      /\ categoryOf' \in [Products -> Categories \cup {NoCategory}]
      /\ image' \in [Images -> Image]
  BY <1>0, <1>1 DEF TablesOK, Row, Image
<1>3. \A q \in Products \ {p} : product'[q] = product[q] /\ categoryOf'[q] = categoryOf[q]
  BY <1>0, <1>1 DEF TablesOK
<1>4. product'[p] # "EXISTS"
  BY <1>0, <1>1 DEF TablesOK
<1>5. TreeIsReferenced'
  BY <1>0, <1>1, <1>3, <1>4 DEF TablesOK, TreeIsReferenced, categoryExists, productExists
<1>6. history' \subseteq {q \in Products : productExists(q)'}
  BY <1>0, <1>1, <1>3 DEF TablesOK, productExists
<1>7. ASSUME NEW i \in Images, imageExists(i)' PROVE productExists(productOf[i])'
  <2>1. imageExists(i) /\ productOf[i] # p
    BY <1>1, <1>7 DEF imagesOf, imageExists
  <2> QED
    BY <1>0, <1>3, <2>1, CatalogueAssumption DEF TablesOK, productExists
<1>8. TablesOK'
  BY <1>0, <1>1, <1>2, <1>5, <1>6, <1>7 DEF TablesOK
<1>9. FinitelyMany'
  <2>1. \A i \in Images \ {NoImage} : image'[i] # "NONE" => image[i] # "NONE"
    BY <1>1 DEF imagesOf, imageExists
  <2> QED
    BY <2>1, StillFinitelyMany DEF Inv
<1> QED
  BY <1>1, <1>8, <1>9, WritesKeepInv

\* A step that writes images of one product, which exists.
writesImages(r) ==
    \/ \E i \in Images : insertsImage(r, i)
    \/ /\ writesImage(r) \/ deletesImage(r)
       /\ imageExists(req[r].image)

\* What such a step does: one image may come or go, others keep being there or not.
LEMMA ImageWrites ==
    ASSUME Inv, NEW r \in Requests, writesImages(r)
    PROVE  /\ image' \in [Images -> Image]
           /\ finishes(r, ImageOps)
           /\ UNCHANGED <<category, parent, product, categoryOf, history>>
           /\ productExists(req[r].product)
           /\ \E j \in Images : /\ productOf[j] = req[r].product
                                /\ \A i \in Images \ {j} : /\ imageExists(i)' <=> imageExists(i)
                                                           /\ image'[i] # "NONE" => image[i] # "NONE"
<1>0. TablesOK /\ req[r] \in Request /\ callShape(req[r])
  BY DEF Inv, CallsOK
<1>1. /\ finishes(r, ImageOps)
      /\ UNCHANGED <<category, parent, product, categoryOf, history>>
  BY DEF writesImages, insertsImage, writesImage, deletesImage, treeVars
<1>2. withoutFlag(r) \in [Images -> Image]
  BY <1>0 DEF TablesOK, withoutFlag, Image
<1>3. \A i \in Images : /\ withoutFlag(r)[i] \in {"PLAIN", "PRIMARY"} <=> imageExists(i)
                        /\ withoutFlag(r)[i] # "NONE" => image[i] # "NONE"
  BY <1>0 DEF TablesOK, withoutFlag, imageExists
<1>4. \A b \in BOOLEAN : flag(b) \in {"PLAIN", "PRIMARY"}
  BY DEF flag
<1>5. req[r].primary \in BOOLEAN
  BY <1>0 DEF Request
<1>6. ASSUME NEW i \in Images, insertsImage(r, i)
      PROVE  /\ image' \in [Images -> Image]
             /\ productExists(req[r].product) /\ productOf[i] = req[r].product
             /\ \A k \in Images \ {i} : /\ imageExists(k)' <=> imageExists(k)
                                        /\ image'[k] # "NONE" => image[k] # "NONE"
  <2>1. /\ image' = [withoutFlag(r) EXCEPT ![i] = flag(req[r].primary)]
        /\ productExists(req[r].product) /\ productOf[i] = req[r].product
    BY <1>6 DEF insertsImage
  <2> QED
    BY <1>2, <1>3, <1>4, <1>5, <2>1 DEF Image, imageExists
<1>7. ASSUME writesImage(r), imageExists(req[r].image)
      PROVE  /\ image' \in [Images -> Image]
             /\ req[r].image \in Images /\ productOf[req[r].image] = req[r].product
             /\ \A k \in Images : /\ imageExists(k)' <=> imageExists(k)
                                  /\ image'[k] # "NONE" => image[k] # "NONE"
  <2>1. /\ image' = [withoutFlag(r) EXCEPT ![req[r].image] = flag(req[r].primary)]
        /\ req[r].image \in Images /\ productOf[req[r].image] = req[r].product
    BY <1>0, <1>7 DEF writesImage, callShape
  <2> QED
    BY <1>2, <1>3, <1>4, <1>5, <1>7, <2>1 DEF Image, imageExists
<1>8. ASSUME deletesImage(r), imageExists(req[r].image)
      PROVE  /\ image' \in [Images -> Image]
             /\ req[r].image \in Images /\ productOf[req[r].image] = req[r].product
             /\ \A k \in Images \ {req[r].image} :
                   /\ imageExists(k)' <=> imageExists(k)
                   /\ image'[k] # "NONE" => image[k] # "NONE"
  <2> DEFINE i == req[r].image
             rest == imagesOf(req[r].product) \ {i}
             left == [image EXCEPT ![i] = "DELETED"]
  <2>1. i \in Images /\ productOf[i] = req[r].product
    BY <1>0, <1>8 DEF deletesImage, callShape
  <2>2. image' = left \/ \E next \in rest : image' = [left EXCEPT ![next] = "PRIMARY"]
    BY <1>8 DEF deletesImage
  <2>3. \A k \in rest : k \in Images /\ imageExists(k)
    BY DEF imagesOf
  <2>4. left \in [Images -> Image] /\ \A k \in Images \ {i} : left[k] = image[k]
    BY <1>0, <2>1 DEF TablesOK, Image
  <2>5. CASE image' = left
    BY <2>1, <2>4, <2>5 DEF imageExists
  <2>6. ASSUME NEW next \in rest, image' = [left EXCEPT ![next] = "PRIMARY"]
        PROVE  /\ image' \in [Images -> Image]
               /\ \A k \in Images \ {i} : /\ imageExists(k)' <=> imageExists(k)
                                          /\ image'[k] # "NONE" => image[k] # "NONE"
    <3> HIDE DEF rest, left
    <3> QED
      BY <2>3, <2>4, <2>6 DEF imageExists, Image
  <2> QED
    BY <2>1, <2>2, <2>5, <2>6
<1>9. imageExists(req[r].image) /\ req[r].image \in Images
         /\ productOf[req[r].image] = req[r].product => productExists(req[r].product)
  BY <1>0 DEF TablesOK
<1> QED
  BY <1>1, <1>6, <1>7, <1>8, <1>9 DEF writesImages

LEMMA ImageWritesKeepInv ==
    ASSUME Inv, NEW r \in Requests, writesImages(r)
    PROVE  Inv'
<1>1. PICK j \in Images :
         /\ productOf[j] = req[r].product
         /\ \A i \in Images \ {j} : /\ imageExists(i)' <=> imageExists(i)
                                    /\ image'[i] # "NONE" => image[i] # "NONE"
  BY ImageWrites
<1>2. /\ image' \in [Images -> Image]
      /\ finishes(r, ImageOps)
      /\ UNCHANGED <<category, parent, product, categoryOf, history>>
      /\ productExists(req[r].product)
  BY ImageWrites
<1>3. TablesOK
  BY DEF Inv
<1>4. \A i \in Images : imageExists(i)' => productExists(productOf[i])'
  BY <1>1, <1>2, <1>3 DEF TablesOK, productExists
<1>5. TablesOK'
  BY <1>2, <1>3, <1>4 DEF TablesOK, TreeIsReferenced, categoryExists, productExists
<1>6. FinitelyMany'
  BY <1>1, StillFinitelyMany DEF Inv
<1> QED
  BY <1>2, <1>5, <1>6, WritesKeepInv

\* A movement of stock: calls about products no longer hold what they counted.
LEMMA MovementsKeepInv ==
    ASSUME Inv, NEW p \in Products, recordsMovement(p)
    PROVE  Inv'
<1>0. /\ UNCHANGED <<category, parent, product, categoryOf, image>>
      /\ history' = history \cup {p} /\ productExists(p)
  BY DEF recordsMovement, treeVars
<1>1. \A q \in Requests :
          \/ req[q].op \in ProductOps /\ req'[q] = [req[q] EXCEPT !.stale = TRUE]
          \/ req[q].op \notin ProductOps /\ req'[q] = req[q]
  BY DEF recordsMovement
<1>2. \A q \in Requests : req[q] \in Request /\ callShape(req[q]) /\ readsHold(req[q])
  BY DEF Inv, CallsOK
<1>3. ASSUME NEW q \in Requests PROVE req'[q] \in Request /\ callShape(req'[q])
  <2>1. CASE req'[q] = [req[q] EXCEPT !.stale = TRUE]
    BY <1>2, <2>1 DEF Request, callShape
  <2> QED
    BY <1>1, <1>2, <2>1
<1>4. CallsOK'
  BY <1>3 DEF CallsOK, recordsMovement
<1>5. TablesOK'
  BY <1>0 DEF Inv, TablesOK, productExists, TreeIsReferenced, categoryExists, imageExists
<1>6. ASSUME NEW q \in Requests PROVE readsHold(req[q])'
  <2>1. CASE req'[q] = [req[q] EXCEPT !.stale = TRUE]
    <3>1. req'[q].stale
      BY <1>2, <2>1 DEF Request
    <3> QED
      BY <3>1 DEF readsHold
  <2>2. CASE req[q].op \notin ProductOps /\ req'[q] = req[q]
    <3>1. treeReads(req[q]) /\ depthReads(req[q]) => (treeReads(req[q]) /\ depthReads(req[q]))'
      BY <1>0, <2>2, SameTree
    <3>2. productReads(req[q])'
      BY <2>2 DEF productReads, ProductOps
    <3>3. imageReads(req[q]) => imageReads(req[q])'
      BY <1>0, <2>2 DEF imageReads, imagesOf, imageExists
    <3> QED
      BY <1>2, <2>2, <3>1, <3>2, <3>3 DEF readsHold
  <2> QED
    BY <1>1, <2>1, <2>2
<1>7. FinitelyMany'
  BY <1>0, SameImages DEF Inv
<1> QED
  BY <1>4, <1>5, <1>6, <1>7 DEF Inv

LEMMA CrashKeepsInv ==
    ASSUME Inv, crash
    PROVE  Inv'
<1>1. /\ \A q \in Requests : req'[q] = Idle
      /\ UNCHANGED <<category, parent, product, categoryOf, image, history>>
  BY DEF crash, treeVars
<1>2. CallsOK'
  BY <1>1, IdleShape DEF CallsOK, crash
<1>3. TablesOK' /\ FinitelyMany'
  BY <1>1 DEF Inv, TablesOK, FinitelyMany, productExists, TreeIsReferenced, categoryExists,
     imageExists
<1>4. ASSUME NEW q \in Requests PROVE readsHold(req[q])'
  BY <1>1 DEF Idle, readsHold, treeReads, depthReads, productReads, imageReads
<1> QED
  BY <1>2, <1>3, <1>4 DEF Inv

\* Every step is one of these.
LEMMA StepKinds ==
    ASSUME Inv, Next
    PROVE  \/ \E r \in Requests : \/ \E c : goesOn(r, c)
                                  \/ writesTree(r) \/ writesProduct(r) \/ writesImages(r)
                                  \/ deletesProduct(r) /\ productExists(req[r].product)
           \/ \E p \in Products : recordsMovement(p)
           \/ crash
<1>1. ASSUME NEW r \in Requests, treeSteps(r), UNCHANGED <<image, history>>
      PROVE  writesTree(r) \/ goesOn(r, Idle)
  <2>1. CASE writesTree(r)
    BY <2>1
  <2>2. CASE insertRefused(r) \/ moveRefused(r)
    BY <1>1, <2>2, Refusals DEF insertRefused, moveRefused, tables
  <2>3. CASE deletesCategory(r) /\ ~ unreferenced(req[r].category)
    <3>1. refused(r) /\ UNCHANGED tables
      BY <1>1, <2>3 DEF deletesCategory, tables, treeVars
    <3> QED
      BY <3>1, Refusals
  <2> QED
    BY <1>1, <2>1, <2>2, <2>3 DEF treeSteps, writesTree
<1>2. ASSUME NEW r \in Requests, steps(r)
      PROVE  \/ \E c : goesOn(r, c)
             \/ writesProduct(r) \/ writesImages(r)
             \/ deletesProduct(r) /\ productExists(req[r].product)
  <2>1. CASE fixesRows(r)
    BY <2>1, FixingGoesOn
  <2>2. ASSUME NEW b, hangs(r, b), ~ (product[req[r].product] = b /\ categoryExists(req[r].target))
        PROVE  goesOn(r, Idle)
    BY <2>2, Refusals DEF hangs, tables, treeVars
  <2>3. CASE insertsProduct(r) \/ updatesProduct(r)
    BY <2>2, <2>3 DEF insertsProduct, updatesProduct, writesProduct, productExists
  <2>4. CASE deletesProduct(r)
    <3>1. ASSUME ~ productExists(req[r].product) PROVE refused(r) /\ UNCHANGED tables
      BY <2>4, <3>1 DEF deletesProduct, tables, treeVars
    <3> QED
      BY <2>4, <3>1, Refusals
  <2>5. CASE insertImageRefused(r)
    BY <2>5, Refusals DEF insertImageRefused, tables
  <2>6. CASE \E i \in Images : insertsImage(r, i)
    BY <2>6 DEF writesImages
  <2>7. CASE writesImage(r) \/ deletesImage(r)
    <3>1. ASSUME ~ imageExists(req[r].image) PROVE refused(r) /\ UNCHANGED tables
      BY <2>7, <3>1 DEF writesImage, deletesImage, tables
    <3> QED
      BY <2>7, <3>1, Refusals DEF writesImages
  <2> QED
    BY <1>2, <2>1, <2>3, <2>4, <2>5, <2>6, <2>7 DEF steps
<1>3. ASSUME NEW r \in Requests, calls(r) PROVE \E c : goesOn(r, c)
  BY <1>3, ProductCallsGoOn, ImageCallsGoOn DEF calls
<1> QED
  BY <1>1, <1>2, <1>3, TreeCallsGoOn DEF Next

LEMMA InvAtFirst == Init => Inv
<1> SUFFICES ASSUME Init PROVE Inv
  OBVIOUS
<1>1. CallsOK
  BY IdleShape DEF Init, TreeInit, CallsOK
<1>2. TablesOK
  BY DEF Init, TreeInit, TablesOK, Row, Image, Parents, productExists, TreeIsReferenced,
     categoryExists, imageExists
<1>3. {i \in Images : image[i] # "NONE"} = {}
  BY DEF Init
<1>4. FinitelyMany
  BY <1>3, FS_EmptySet DEF FinitelyMany
<1>5. \A r \in Requests : readsHold(req[r])
  BY IdleShape DEF Init, TreeInit
<1> QED
  BY <1>1, <1>2, <1>4, <1>5 DEF Inv

LEMMA InvIsInductive == Inv /\ [Next]_vars => Inv'
<1> SUFFICES ASSUME Inv, [Next]_vars PROVE Inv'
  OBVIOUS
<1>1. CASE Next
  BY <1>1, StepKinds, GoneOn, TreeWritesKeepInv, ProductWritesKeepInv, ProductDeletionKeepsInv,
     ImageWritesKeepInv, MovementsKeepInv, CrashKeepsInv
<1>2. CASE UNCHANGED vars
  <2>1. CASE Requests = {}
    BY <1>2, <2>1 DEF vars, treeVars, Inv, CallsOK, TablesOK, FinitelyMany, productExists,
       TreeIsReferenced, categoryExists, imageExists
  <2>2. ASSUME NEW r \in Requests PROVE goesOn(r, req[r])
    BY <1>2 DEF vars, goesOn, tables, Inv, CallsOK
  <2> QED
    BY <2>1, <2>2, GoneOn
<1> QED
  BY <1>1, <1>2

\* What a call that is not stale has read is still so when it writes, and the foreign
\* keys hold (products.service.ts:399, product-images.service.ts:47, 104, 147).
THEOREM ReadsStand == Spec => []Inv
BY InvAtFirst, InvIsInductive, PTL DEF Spec

\* No category is deleted from under its children or products, nor a product from
\* under its images, however calls interleave (schema.prisma:277, 325, 351).
THEOREM TypeCorrect == Spec => []TypeOK
<1>1. Inv => TypeOK
  BY TypedIsTypeOK DEF Inv
<1> QED
  BY <1>1, ReadsStand, PTL

-----------------------------------------------------------------------------
(* The tree stays a tree.                                                     *)

\* Unless it is stale, a call that writes holds what it read.
LEMMA FreshWrite ==
    ASSUME Inv, NEW r \in Requests, NEW ops, finishes(r, ops), req[r].ready, ~ staleWrite
    PROVE  ~ req[r].stale
BY DEF finishes, staleWrite

\* What stands above an existing category exists.
LEMMA ExistingAbove ==
    ASSUME TablesOK, NEW c \in Categories, categoryExists(c), NEW n \in Nat, n <= Guard
    PROVE  walk(parent, c)[n] = NoCategory \/ categoryExists(walk(parent, c)[n])
<1> DEFINE S == {k \in Nat : k <= Guard => \/ walk(parent, c)[k] = NoCategory
                                           \/ categoryExists(walk(parent, c)[k])}
<1>1. 0 \in S
  BY WalkSteps
<1>2. ASSUME NEW k \in Nat, k \in S PROVE k + 1 \in S
  <2> SUFFICES ASSUME k + 1 <= Guard
               PROVE  \/ walk(parent, c)[k + 1] = NoCategory
                      \/ categoryExists(walk(parent, c)[k + 1])
    OBVIOUS
  <2> DEFINE d == walk(parent, c)[k]
  <2>1. k < Guard /\ k <= Guard
    BY CategoryAssumption
  <2>2. d = NoCategory \/ categoryExists(d)
    BY <1>2, <2>1
  <2>3. walk(parent, c)[k + 1] = parentIn(parent, d)
    BY <2>1, WalkSteps
  <2> HIDE DEF d
  <2>4. categoryExists(d) => parent[d] = NoCategory \/ categoryExists(parent[d])
    BY DEF TablesOK, TreeIsReferenced, categoryExists
  <2> QED
    BY <2>2, <2>3, <2>4 DEF parentIn
<1> HIDE DEF S
<1>3. Nat \subseteq S
  BY <1>1, <1>2, NumbersInductively
<1> QED
  BY <1>3 DEF S

\* Creating, moving and deleting on a fresh read close no circle.
LEMMA FreshWritesKeepTree ==
    ASSUME Inv, isTree, NEW r \in Requests, writesTree(r), ~ req[r].stale
    PROVE  isTree'
<1>0. TablesOK /\ req[r] \in Request /\ readsHold(req[r]) /\ parent \in Parents
      /\ Guard \in Nat
  BY CategoryAssumption DEF Inv, CallsOK, TablesOK
<1> SUFFICES ASSUME NEW d \in Categories, categoryExists(d)', NEW n \in 1..Guard,
                    walk(parent', d)[n] = d
             PROVE  FALSE
  BY DEF isTree, above
\* The category c gets the parent t; d does not stand above itself before.
<1>1. ASSUME NEW c \in Categories, NEW t \in Categories \cup {NoCategory},
             parent' = [parent EXCEPT ![c] = t],
             d # c => categoryExists(d),
             t # NoCategory => \A m \in 0..(Guard - 1) : walk(parent, t)[m] # c
      PROVE  FALSE
  <2>1. \/ d # c /\ walk(parent, d)[n] = d
        \/ \E m \in 0..(Guard - 1) : t # NoCategory /\ walk(parent, t)[m] = c
    <3>1. walk([parent EXCEPT ![c] = t], d)[n] = d
      BY <1>1
    <3> QED
      BY <1>0, <3>1, CircleThrough
  <2> QED
    BY <1>1, <2>1 DEF isTree, above
<1>2. ASSUME NEW c \in Categories, insertsCategory(r, c) PROVE FALSE
  <2> DEFINE t == req[r].target
  <2>1. /\ category[c] = "NONE" /\ category' = [category EXCEPT ![c] = "EXISTS"]
        /\ parent' = [parent EXCEPT ![c] = t]
        /\ t \in Categories \cup {NoCategory}
        /\ t # NoCategory => categoryExists(t)
    BY <1>0, <1>2 DEF insertsCategory, isNext, Request
  <2>2. d # c => categoryExists(d)
    BY <1>0, <2>1 DEF TablesOK, categoryExists
  <2> HIDE DEF t
  <2>3. ASSUME t # NoCategory, NEW m \in 0..(Guard - 1) PROVE walk(parent, t)[m] # c
    <3>1. m \in Nat /\ m <= Guard /\ t \in Categories
      BY <1>0, <2>1, <2>3
    <3>2. walk(parent, t)[m] = NoCategory \/ categoryExists(walk(parent, t)[m])
      BY <1>0, <2>1, <2>3, <3>1, ExistingAbove
    <3>3. c # NoCategory /\ ~ categoryExists(c)
      BY <2>1, CategoryAssumption DEF categoryExists
    <3> QED
      BY <3>2, <3>3
  <2> QED
    BY <1>1, <2>1, <2>2, <2>3
<1>3. ASSUME movesCategory(r) PROVE FALSE
  <2> DEFINE c == req[r].category
             t == req[r].target
  <2>1. /\ category' = category
        /\ parent' = [parent EXCEPT ![c] = t]
        /\ c \in Categories /\ t \in Categories \cup {NoCategory}
        /\ t # NoCategory => categoryExists(t)
        /\ treeReads(req[r]) /\ req[r].op = "moveCategory"
    BY <1>0, <1>3 DEF movesCategory, Request, categoryExists, readsHold
  <2>2. t # NoCategory => t # c /\ \A k \in 1..Guard : walk(parent, t)[k] # c
    BY <2>1 DEF treeReads, above
  <2>3. categoryExists(d)
    BY <2>1 DEF categoryExists
  <2> HIDE DEF c, t
  <2>4. ASSUME t # NoCategory, NEW m \in 0..(Guard - 1) PROVE walk(parent, t)[m] # c
    <3>1. CASE m = 0
      BY <2>2, <2>4, <3>1, WalkSteps
    <3>2. CASE m \in 1..Guard
      BY <2>2, <2>4, <3>2
    <3> QED
      BY <1>0, <3>1, <3>2
  <2> QED
    BY <1>1, <2>1, <2>3, <2>4
<1>4. ASSUME deletesCategory(r), unreferenced(req[r].category) PROVE FALSE
  <2> DEFINE c == req[r].category
  <2>1. /\ category' = [category EXCEPT ![c] = "DELETED"]
        /\ parent' = [parent EXCEPT ![c] = NoCategory]
        /\ c \in Categories
    BY <1>4 DEF deletesCategory, unreferenced, categoryExists
  <2>2. d # c => categoryExists(d)
    BY <1>0, <2>1 DEF TablesOK, categoryExists
  <2> HIDE DEF c
  <2> QED
    BY <1>1, <2>1, <2>2
<1> QED
  BY <1>2, <1>3, <1>4 DEF writesTree

\* Where there is no stale write, the tree is as it was or a fresh write changed it.
LEMMA FreshTreeSteps ==
    ASSUME Inv, Next, ~ staleWrite
    PROVE  \/ UNCHANGED <<category, parent>>
           \/ \E r \in Requests : writesTree(r) /\ ~ req[r].stale
<1>1. ASSUME NEW r \in Requests, writesTree(r) PROVE ~ req[r].stale
  <2>1. finishes(r, TreeOps) /\ req[r].op \in TreeOps
    BY <1>1 DEF writesTree, insertsCategory, movesCategory, deletesCategory, TreeOps
  <2>2. req[r].ready
    BY <2>1 DEF Inv, CallsOK, callShape, TreeOps, Request
  <2> QED
    BY <2>1, <2>2, FreshWrite
<1>2. ASSUME NEW r \in Requests, writesImages(r) PROVE UNCHANGED <<category, parent>>
  BY <1>2, ImageWrites
<1>3. ASSUME NEW r \in Requests,
             (\E c : goesOn(r, c)) \/ writesProduct(r) \/ deletesProduct(r)
      PROVE  UNCHANGED <<category, parent>>
  BY <1>3 DEF goesOn, tables, treeVars, writesProduct, insertsProduct, updatesProduct, hangs,
     deletesProduct
<1>4. ASSUME (\E p \in Products : recordsMovement(p)) \/ crash
      PROVE  UNCHANGED <<category, parent>>
  BY <1>4 DEF recordsMovement, crash, treeVars
<1> QED
  BY <1>1, <1>2, <1>3, <1>4, StepKinds

\* No move that overlaps no other call closes a circle, of any length up to Guard,
\* whatever Guard is (categories.service.ts:246-250).
THEOREM TreeIsKept == Spec => TreeStaysATree
<1>1. ASSUME Inv, Next, isTree, ~ isTree', ~ staleWrite PROVE FALSE
  <2>1. CASE UNCHANGED <<category, parent>>
    BY <1>1, <2>1 DEF isTree, categoryExists, above
  <2>2. CASE \E r \in Requests : writesTree(r) /\ ~ req[r].stale
    BY <1>1, <2>2, FreshWritesKeepTree
  <2> QED
    BY <1>1, <2>1, <2>2, FreshTreeSteps
<1>2. Inv /\ [Next]_vars => [isTree /\ ~ isTree' => staleWrite]_vars
  BY <1>1
<1> QED
  BY <1>2, ReadsStand, PTL DEF Spec, TreeStaysATree

-----------------------------------------------------------------------------
(* Products with a history are kept.                                          *)

\* A product whose stock has moved is deleted only by a call that counted its movements
\* before there were any (products.service.ts:399-414).
THEOREM LedgersAreKept == Spec => HistoryIsKept
<1>1. ASSUME Inv, Next, NEW p \in history, product'[p] = "DELETED", ~ staleWrite PROVE FALSE
  <2>0. p \in Products /\ product[p] = "EXISTS" /\ product \in [Products -> Row]
    BY <1>1 DEF Inv, TablesOK, productExists
  <2>1. ASSUME product' = product PROVE FALSE
    BY <1>1, <2>0, <2>1
  <2>2. ASSUME NEW r \in Requests, writesProduct(r) PROVE FALSE
    <3>1. product' = [product EXCEPT ![req[r].product] = "EXISTS"]
      BY <2>2 DEF writesProduct, insertsProduct, updatesProduct, hangs, productExists
    <3> QED
      BY <1>1, <2>0, <3>1
  <2>3. ASSUME NEW r \in Requests, deletesProduct(r), productExists(req[r].product) PROVE FALSE
    <3>1. /\ product' = [product EXCEPT ![req[r].product] = "DELETED"]
          /\ finishes(r, ProductOps \cup ImageOps) /\ req[r].op = "removeProduct"
      BY <2>3 DEF deletesProduct
    <3>2. req[r].product = p
      BY <1>1, <2>0, <3>1
    <3>3. req[r].ready
      BY <1>1, <3>1 DEF Inv, CallsOK, callShape, Request
    <3>4. ~ req[r].stale
      BY <1>1, <3>1, <3>3, FreshWrite
    <3> QED
      BY <1>1, <3>1, <3>2, <3>4 DEF Inv, readsHold, productReads
  <2>4. ASSUME NEW r \in Requests, (\E c : goesOn(r, c)) \/ writesTree(r)
        PROVE  product' = product
    BY <2>4 DEF goesOn, tables, treeVars, writesTree, insertsCategory, movesCategory, deletesCategory
  <2>5. ASSUME NEW r \in Requests, writesImages(r) PROVE product' = product
    BY <1>1, <2>5, ImageWrites
  <2>6. ASSUME (\E q \in Products : recordsMovement(q)) \/ crash PROVE product' = product
    BY <2>6 DEF recordsMovement, crash, treeVars
  <2> QED
    BY <1>1, <2>1, <2>2, <2>3, <2>4, <2>5, <2>6, StepKinds
<1>2. Inv /\ [Next]_vars => [\A p \in history : product[p]' = "DELETED" => staleWrite]_vars
  BY <1>1
<1> QED
  BY <1>2, ReadsStand, PTL DEF Spec, HistoryIsKept

-----------------------------------------------------------------------------
(* One primary image.                                                         *)

\* onePrimary, image by image.
isPrimaryOf(i, p) == productOf[i] = p /\ image[i] = "PRIMARY"
sole(p) ==
    (\E i \in Images : productOf[i] = p /\ imageExists(i)) =>
        \E i \in Images : isPrimaryOf(i, p) /\ \A j \in Images : isPrimaryOf(j, p) => j = i

\* Cardinality, said of images.
LEMMA OneIsSole ==
    ASSUME Inv, Inv', NEW p
    PROVE  (onePrimary(p) <=> sole(p)) /\ (onePrimary(p)' <=> sole(p)')
<1>1. ASSUME NEW S, IsFiniteSet(S), NEW T, T \subseteq S
      PROVE  Cardinality(T) = 1 <=> \E i : T = {i}
  BY <1>1, FS_Subset, FS_Singleton
<1>2. onePrimary(p) <=> sole(p)
  <2> DEFINE T == primaries(p)
  <2>1. \A i : i \in T <=> i \in Images /\ isPrimaryOf(i, p)
    BY DEF primaries, imagesOf, imageExists, isPrimaryOf
  <2>2. T \subseteq {i \in Images : image[i] # "NONE"}
    BY DEF primaries, imagesOf, imageExists
  <2> HIDE DEF T
  <2>3. Cardinality(T) = 1 <=> \E i : T = {i}
    BY <1>1, <2>2 DEF Inv, FinitelyMany
  <2>4. (\E i : T = {i}) <=> \E i \in T : \A j \in T : j = i
    OBVIOUS
  <2>5. imagesOf(p) # {} <=> \E i \in Images : productOf[i] = p /\ imageExists(i)
    BY DEF imagesOf
  <2>6. (\E i \in T : \A j \in T : j = i)
           <=> \E i \in Images : isPrimaryOf(i, p) /\ \A j \in Images : isPrimaryOf(j, p) => j = i
    BY <2>1
  <2> QED
    BY <2>3, <2>4, <2>5, <2>6 DEF onePrimary, sole, T
<1>3. onePrimary(p)' <=> sole(p)'
  <2> DEFINE T == primaries(p)'
  <2>1. \A i : i \in T <=> i \in Images /\ isPrimaryOf(i, p)'
    BY DEF primaries, imagesOf, imageExists, isPrimaryOf
  <2>2. T \subseteq {i \in Images : image'[i] # "NONE"}
    BY DEF primaries, imagesOf, imageExists
  <2> HIDE DEF T
  <2>3. Cardinality(T) = 1 <=> \E i : T = {i}
    BY <1>1, <2>2 DEF Inv, FinitelyMany
  <2>4. (\E i : T = {i}) <=> \E i \in T : \A j \in T : j = i
    OBVIOUS
  <2>5. imagesOf(p)' # {} <=> \E i \in Images : productOf[i] = p /\ imageExists(i)'
    BY DEF imagesOf
  <2>6. (\E i \in T : \A j \in T : j = i)
           <=> \E i \in Images : isPrimaryOf(i, p)' /\ \A j \in Images : isPrimaryOf(j, p)' => j = i
    BY <2>1
  <2> QED
    BY <2>3, <2>4, <2>5, <2>6 DEF onePrimary, sole, T
<1> QED
  BY <1>2, <1>3

\* The flag goes where the transaction of a call that holds what it read puts it.
LEMMA FlagsCleared ==
    ASSUME Inv, NEW r \in Requests, ~ req[r].stale, req[r].ready,
           req[r].op \in {"addFirst", "add", "update"}, NEW i \in Images
    PROVE  /\ withoutFlag(r)[i] =
                 IF req[r].primary /\ productOf[i] = req[r].product /\ imageExists(i)
                 THEN "PLAIN" ELSE image[i]
           /\ imageExists(i) => (withoutFlag(r)[i] \in {"PLAIN", "PRIMARY"})
<1>1. req[r].cleared = IF req[r].primary THEN imagesOf(req[r].product) ELSE {}
  BY DEF Inv, readsHold, imageReads
<1> QED
  BY <1>1 DEF withoutFlag, imagesOf, imageExists

\* Adding, choosing, clearing and deleting on a fresh read leave one primary image.
LEMMA FreshWritesKeepOne ==
    ASSUME Inv, NEW r \in Requests, writesImages(r), ~ req[r].stale, NEW p, sole(p)
    PROVE  sole(p)'
<1> DEFINE mine == req[r].product
<1>0. /\ req[r] \in Request /\ callShape(req[r]) /\ imageReads(req[r]) /\ req[r].primary \in BOOLEAN
      /\ image \in [Images -> Image]
  BY DEF Inv, CallsOK, TablesOK, readsHold, Request
<1>1. ASSUME NEW i \in Images, productOf[i] = mine,
             req[r].op \in {"addFirst", "add", "update"}, req[r].ready,
             image' = [withoutFlag(r) EXCEPT ![i] = flag(req[r].primary)],
             ~ req[r].primary => \/ image[i] = "NONE" /\ imagesOf(mine) # {}
                                 \/ image[i] = "PLAIN"
      PROVE  sole(p)'
  <2>1. \A k \in Images :
          image'[k] = IF k = i THEN flag(req[r].primary)
                      ELSE IF req[r].primary /\ productOf[k] = mine /\ imageExists(k)
                      THEN "PLAIN" ELSE image[k]
    <3>1. withoutFlag(r) = [k \in Images |-> withoutFlag(r)[k]]
      BY DEF withoutFlag
    <3> QED
      BY <1>1, <3>1, FlagsCleared
  <2>2. CASE p # mine
    BY <1>1, <2>1, <2>2 DEF sole, isPrimaryOf, imageExists
  <2>3. CASE p = mine /\ req[r].primary
    BY <1>1, <2>1, <2>3 DEF sole, isPrimaryOf, imageExists, flag
  <2>4. CASE p = mine /\ ~ req[r].primary
    <3>1. \A k \in Images : image'[k] = IF k = i THEN "PLAIN" ELSE image[k]
      BY <2>1, <2>4 DEF flag
    <3>2. \E k \in Images : productOf[k] = p /\ imageExists(k)
      BY <1>1, <2>4 DEF imagesOf, imageExists
    <3>3. image[i] # "PRIMARY"
      BY <1>1, <2>4
    <3> QED
      BY <3>1, <3>2, <3>3 DEF sole, isPrimaryOf
  <2> QED
    BY <1>0, <2>2, <2>3, <2>4
<1>2. ASSUME NEW i \in Images, insertsImage(r, i) PROVE sole(p)'
  <2>1. /\ productOf[i] = mine /\ image[i] = "NONE"
        /\ image' = [withoutFlag(r) EXCEPT ![i] = flag(req[r].primary)]
        /\ req[r].op \in {"addFirst", "add"} /\ req[r].ready
    BY <1>2 DEF insertsImage, isNext
  <2>2. ~ req[r].primary => imagesOf(mine) # {}
    BY <1>0, <2>1 DEF imageReads
  <2> QED
    BY <1>1, <2>1, <2>2
<1>3. ASSUME writesImage(r), imageExists(req[r].image) PROVE sole(p)'
  <2>1. /\ req[r].image \in Images /\ productOf[req[r].image] = mine
        /\ image' = [withoutFlag(r) EXCEPT ![req[r].image] = flag(req[r].primary)]
        /\ req[r].op = "update" /\ req[r].ready
    BY <1>0, <1>3 DEF writesImage, callShape
  <2>2. ~ req[r].primary => image[req[r].image] = "PLAIN"
    BY <1>0, <1>3, <2>1 DEF imageReads, imageExists
  <2> QED
    BY <1>1, <2>1, <2>2
<1>4. ASSUME deletesImage(r), imageExists(req[r].image) PROVE sole(p)'
  <2> DEFINE i == req[r].image
             rest == imagesOf(mine) \ {i}
             left == [image EXCEPT ![i] = "DELETED"]
  <2>1. /\ i \in Images /\ productOf[i] = mine
        /\ req[r].primary <=> image[i] = "PRIMARY"
    BY <1>0, <1>4 DEF deletesImage, callShape, imageReads
  <2>2. IF req[r].primary /\ rest # {}
        THEN \E next \in rest : image' = [left EXCEPT ![next] = "PRIMARY"]
        ELSE image' = left
    BY <1>4 DEF deletesImage, promotes
  <2>3. \A k : k \in rest <=> k \in Images /\ productOf[k] = mine /\ imageExists(k) /\ k # i
    BY DEF imagesOf
  <2>4. left \in [Images -> Image] /\ left[i] = "DELETED" /\ \A k \in Images \ {i} : left[k] = image[k]
    BY <1>0, <2>1 DEF Image
  <2>5. imageExists(i)
    BY <1>4
  <2> HIDE DEF rest, left, i
  <2>6. CASE p # mine
    <3>1. \A k \in Images : productOf[k] = p => image'[k] = image[k]
      BY <2>1, <2>2, <2>3, <2>4, <2>6
    <3> QED
      BY <3>1 DEF sole, isPrimaryOf, imageExists
  <2>7. ASSUME p = mine, NEW next \in rest, req[r].primary, image' = [left EXCEPT ![next] = "PRIMARY"]
        PROVE  sole(p)'
    <3>1. \A k \in Images : isPrimaryOf(k, p) => k = i
      BY <2>1, <2>5, <2>7 DEF sole, isPrimaryOf, imageExists
    <3>2. next \in Images /\ productOf[next] = p /\ image'[next] = "PRIMARY"
      BY <2>3, <2>4, <2>7
    <3>3. \A k \in Images \ {next} : image'[k] = left[k]
      BY <2>4, <2>7
    <3>4. \A k \in Images \ {next} : ~ isPrimaryOf(k, p)'
      BY <2>4, <3>1, <3>3 DEF isPrimaryOf
    <3> QED
      BY <3>2, <3>4 DEF sole, isPrimaryOf
  <2>8. CASE p = mine /\ image' = left /\ req[r].primary /\ rest = {}
    <3>1. \A k \in Images : productOf[k] = p => ~ imageExists(k)'
      BY <2>3, <2>4, <2>8 DEF imageExists
    <3> QED
      BY <3>1 DEF sole
  <2>9. CASE p = mine /\ image' = left /\ ~ req[r].primary
    <3>1. \A k \in Images : isPrimaryOf(k, p)' <=> isPrimaryOf(k, p)
      BY <2>1, <2>4, <2>9 DEF isPrimaryOf
    <3>2. \E k \in Images : productOf[k] = p /\ imageExists(k)
      BY <2>1, <2>5, <2>9
    <3> QED
      BY <3>1, <3>2 DEF sole
  <2> QED
    BY <2>2, <2>6, <2>7, <2>8, <2>9
<1> QED
  BY <1>2, <1>3, <1>4 DEF writesImages

\* Calls that do not overlap leave a product with images exactly one primary image
\* (product-images.service.ts:47, 104, 120, 147).
THEOREM OneIsPrimary == Spec => OnePrimaryStays
<1>1. ASSUME Inv, Inv', Next, NEW p \in Products, onePrimary(p), ~ onePrimary(p)', ~ staleWrite
      PROVE  FALSE
  <2>0. sole(p) /\ ~ sole(p)'
    BY <1>1, OneIsSole
  <2>1. ASSUME image' = image PROVE FALSE
    BY <2>0, <2>1 DEF sole, isPrimaryOf, imageExists
  <2>2. ASSUME NEW r \in Requests, writesImages(r) PROVE FALSE
    <3>1. finishes(r, ImageOps)
      BY <1>1, <2>2, ImageWrites
    <3>2. req[r].ready
      BY <1>1, <2>2 DEF Inv, CallsOK, callShape, Request, writesImages, insertsImage, writesImage,
         deletesImage
    <3>3. ~ req[r].stale
      BY <1>1, <3>1, <3>2, FreshWrite
    <3> QED
      BY <1>1, <2>0, <2>2, <3>3, FreshWritesKeepOne
  <2>3. ASSUME NEW r \in Requests, deletesProduct(r), productExists(req[r].product) PROVE FALSE
    <3> DEFINE q == req[r].product
    <3>1. image' = [i \in Images |-> IF i \in imagesOf(q) THEN "DELETED" ELSE image[i]]
      BY <2>3 DEF deletesProduct
    <3>2. \A i \in Images :
             image'[i] = IF productOf[i] = q /\ imageExists(i) THEN "DELETED" ELSE image[i]
      BY <3>1 DEF imagesOf
    <3> HIDE DEF q
    <3>3. CASE p = q
      BY <2>0, <3>2, <3>3 DEF sole, imageExists
    <3>4. CASE p # q
      BY <2>0, <3>2, <3>4 DEF sole, isPrimaryOf, imageExists
    <3> QED
      BY <3>3, <3>4
  <2>4. ASSUME NEW r \in Requests, (\E c : goesOn(r, c)) \/ writesTree(r) \/ writesProduct(r)
        PROVE  image' = image
    BY <2>4 DEF goesOn, tables, writesTree, writesProduct, insertsProduct, updatesProduct, hangs
  <2>5. ASSUME (\E q \in Products : recordsMovement(q)) \/ crash PROVE image' = image
    BY <2>5 DEF recordsMovement, crash
  <2> QED
    BY <1>1, <2>1, <2>2, <2>3, <2>4, <2>5, StepKinds
<1>2. Inv /\ Inv' /\ [Next]_vars
        => [\A p \in Products : onePrimary(p) /\ ~ onePrimary(p)' => staleWrite]_vars
  BY <1>1
<1> QED
  BY <1>2, ReadsStand, PTL DEF Spec, OnePrimaryStays

-----------------------------------------------------------------------------
(* The tree stays shallow.                                                    *)

\* A set of numbers from a on, without gaps, is told by how many there are.
LEMMA WithoutGaps ==
    ASSUME NEW a \in Nat, NEW b \in Nat, a <= b, NEW S, S \subseteq a..b,
           \A n \in S : n # a => n - 1 \in S
    PROVE  Cardinality(S) \in Nat /\ S = a..(a + Cardinality(S) - 1)
<1> DEFINE T == {n \in Nat : a <= n /\ n \notin S}
<1>1. T \subseteq Nat /\ b + 1 \in T
  OBVIOUS
<1>2. PICK m \in T : \A n \in T : m <= n
  <2> HIDE DEF T
  <2> QED
    BY <1>1, LeastNumber
<1>3. m \in Nat /\ a <= m /\ m \notin S
  OBVIOUS
<1>4. ASSUME NEW n \in a..(m - 1) PROVE n \in S
  <2>1. n \in Nat /\ ~ (m <= n)
    BY <1>3
  <2> QED
    BY <1>2, <2>1
<1>5. ASSUME NEW k \in S, ~ (k \in a..(m - 1)) PROVE FALSE
  <2> DEFINE U == {n \in S : m <= n}
  <2>0. k \in a..b /\ S \subseteq Nat
    OBVIOUS
  <2>1. U \subseteq Nat /\ k \in U
    <3>1. k \in Nat /\ a <= k
      BY <2>0
    <3>2. m <= k
      BY <1>3, <1>5, <3>1
    <3> QED
      BY <2>0, <3>2
  <2>2. PICK l \in U : \A n \in U : l <= n
    <3> HIDE DEF U
    <3> QED
      BY <2>1, LeastNumber
  <2>3. l # m /\ l \in Nat /\ l \in S /\ m <= l
    BY <1>3
  <2>4. l - 1 \in U
    BY <1>3, <2>3
  <2> QED
    BY <2>2, <2>3, <2>4
<1>6. S = a..(m - 1)
  BY <1>4, <1>5
<1>7. Cardinality(a..(m - 1)) = m - a
  <2>1. a \in Int /\ m - 1 \in Int
    BY <1>3
  <2>2. Cardinality(a..(m - 1)) = IF a > m - 1 THEN 0 ELSE (m - 1) - a + 1
    BY <2>1, FS_Interval
  <2> QED
    BY <1>3, <2>2
<1> QED
  BY <1>3, <1>6, <1>7

\* depthOf, for any parents.
depthIn(p, c) == Cardinality({n \in 0..Guard : walk(p, c)[n] # NoCategory})

\* A depth tells where the walk is over.
LEMMA DepthIs ==
    ASSUME NEW p, NEW c, NEW k \in Nat, k <= Guard
    PROVE  /\ depthIn(p, c) \in Nat
           /\ depthIn(p, c) <= k <=> walk(p, c)[k] = NoCategory
<1> DEFINE S == {n \in 0..Guard : walk(p, c)[n] # NoCategory}
<1>1. ASSUME NEW n \in S, n # 0 PROVE n - 1 \in S
  <2>1. n - 1 \in Nat /\ n - 1 < Guard /\ (n - 1) + 1 = n /\ n - 1 \in 0..Guard
    BY <1>1, CategoryAssumption
  <2>2. walk(p, c)[n] = parentIn(p, walk(p, c)[n - 1])
    BY <2>1, WalkSteps
  <2> QED
    BY <1>1, <2>1, <2>2 DEF parentIn
<1>2. S \subseteq 0..Guard /\ 0 \in Nat /\ Guard \in Nat /\ 0 <= Guard
  BY CategoryAssumption
<1>3. k \in S <=> walk(p, c)[k] # NoCategory
  BY <1>2
<1> HIDE DEF S
<1>4. Cardinality(S) \in Nat /\ S = 0..(0 + Cardinality(S) - 1)
  BY <1>1, <1>2, WithoutGaps
<1>5. Cardinality(S) <= k <=> k \notin S
  BY <1>4
<1> QED
  BY <1>3, <1>4, <1>5 DEF depthIn, S

\* No existing category is further below c than its subtree is high.
LEMMA HeightIs ==
    ASSUME TablesOK, NEW c \in Categories
    PROVE  /\ subtreeHeight(c) \in Nat \ {0}
           /\ \A d \in Categories : \A n \in 1..Guard :
                 categoryExists(d) /\ walk(parent, d)[n] = c => n <= subtreeHeight(c) - 1
<1> DEFINE H == {n \in 1..Guard : below(c, n) # {}}
<1>0. c # NoCategory /\ Guard \in Nat /\ 1 <= Guard
  BY CategoryAssumption
<1>1. ASSUME NEW n \in H, n # 1 PROVE n - 1 \in H
  <2>1. PICK d \in Categories : categoryExists(d) /\ walk(parent, d)[n] = c
    BY DEF below, above
  <2>2. /\ n - 1 \in 1..Guard /\ n - 1 \in Nat /\ n - 1 <= Guard /\ 1 + (n - 1) = n
        /\ 0 < Guard /\ 0 + 1 = 1 /\ n <= Guard
    BY <1>0, <1>1
  <2> DEFINE e == parent[d]
  <2>3. walk(parent, d)[1] = e
    <3>1. walk(parent, d)[0 + 1] = parentIn(parent, walk(parent, d)[0])
      BY <2>2, WalkSteps
    <3> QED
      BY <2>1, <2>2, <3>1, WalkSteps, CategoryAssumption DEF parentIn
  <2>4. walk(parent, e)[n - 1] = c
    <3>1. walk(parent, d)[1 + (n - 1)] = walk(parent, walk(parent, d)[1])[n - 1]
      BY <2>2, WalksCompose
    <3> QED
      BY <2>1, <2>2, <2>3, <3>1
  <2>5. e # NoCategory
    BY <1>0, <2>2, <2>4, WalksEnd
  <2>6. e \in Categories /\ categoryExists(e)
    BY <2>1, <2>5 DEF TablesOK, TreeIsReferenced, categoryExists
  <2>7. e \in below(c, n - 1)
    BY <2>4, <2>6 DEF below, above
  <2> QED
    BY <2>2, <2>7
<1>2. ASSUME NEW d \in Categories, NEW n \in 1..Guard, categoryExists(d), walk(parent, d)[n] = c
      PROVE  n \in H
  BY <1>2 DEF below, above
<1>3. H \subseteq 1..Guard /\ 1 \in Nat
  OBVIOUS
<1>4. subtreeHeight(c) = 1 + Cardinality(H)
  BY DEF subtreeHeight
<1> HIDE DEF H
<1>5. Cardinality(H) \in Nat /\ H = 1..(1 + Cardinality(H) - 1)
  BY <1>0, <1>1, <1>3, WithoutGaps
<1>6. ASSUME NEW n \in H PROVE n <= subtreeHeight(c) - 1
  BY <1>4, <1>5
<1> QED
  BY <1>2, <1>4, <1>5, <1>6

\* Where c gets the parent t, a walk that comes to c ends in time if the one from t does.
LEMMA WalkThrough ==
    ASSUME NEW p \in Parents, NEW c \in Categories, NEW t \in Categories \cup {NoCategory},
           NEW d \in Categories,
           d # c => walk(p, d)[MaxDepth + 1] = NoCategory,
           t # NoCategory => \A m \in 0..(Guard - 1) : walk(p, t)[m] # c,
           \A k \in 0..MaxDepth :
              walk(p, d)[k] = c /\ (\A i \in 0..(k - 1) : walk(p, d)[i] # c)
                 => walk(p, t)[MaxDepth - k] = NoCategory
    PROVE  walk([p EXCEPT ![c] = t], d)[MaxDepth + 1] = NoCategory
<1> DEFINE q == [p EXCEPT ![c] = t]
<1>0. /\ MaxDepth \in Nat /\ Guard \in Nat /\ MaxDepth + 1 <= Guard /\ MaxDepth + 1 \in Nat
      /\ q \in Parents /\ q[c] = t /\ c # NoCategory
      /\ \A x \in Categories \ {c} : q[x] = p[x]
  BY CategoryAssumption DEF Parents
<1> HIDE DEF q
<1>1. ASSUME NEW e \in Categories \cup {NoCategory}, NEW n \in Nat, n <= Guard,
             \A i \in 0..(n - 1) : walk(p, e)[i] # c \/ walk(q, e)[i] # c
      PROVE  walk(p, e)[n] = walk(q, e)[n]
  BY <1>0, <1>1, WalksAgree
<1>2. CASE \A k \in 0..MaxDepth : walk(q, d)[k] # c
  <2>1. d # c
    BY <1>0, <1>2, WalkSteps
  <2>2. walk(p, d)[MaxDepth + 1] = walk(q, d)[MaxDepth + 1]
    BY <1>0, <1>1, <1>2
  <2> QED
    BY <2>1, <2>2 DEF q
<1>3. CASE \E k \in 0..MaxDepth : walk(q, d)[k] = c
  <2> DEFINE T == {k \in Nat : k <= MaxDepth /\ walk(q, d)[k] = c}
  <2>1. T \subseteq Nat /\ T # {}
    BY <1>0, <1>3
  <2>2. PICK k \in T : \A i \in T : k <= i
    <3> HIDE DEF T
    <3> QED
      BY <2>1, LeastNumber
  <2> DEFINE j == MaxDepth - k
  <2>3. /\ k \in Nat /\ k \in 0..MaxDepth /\ k <= Guard /\ k < Guard /\ walk(q, d)[k] = c
        /\ j \in Nat /\ j <= Guard /\ k + 1 \in Nat /\ (k + 1) + j = MaxDepth + 1
    BY <1>0
  <2>4. ASSUME NEW i \in 0..(k - 1) PROVE walk(q, d)[i] # c /\ walk(p, d)[i] = walk(q, d)[i]
    <3>1. \A h \in 0..(k - 1) : h \in Nat /\ h <= MaxDepth /\ h <= Guard /\ ~ (k <= h)
      BY <1>0, <2>3
    <3>2. \A h \in 0..(k - 1) : walk(q, d)[h] # c
      BY <2>2, <3>1
    <3>3. \A h \in 0..(i - 1) : h \in 0..(k - 1)
      BY <2>3
    <3> QED
      BY <1>1, <3>1, <3>2, <3>3
  <2>5. walk(p, d)[k] = c
    BY <1>1, <2>3, <2>4
  <2>6. walk(p, t)[j] = NoCategory
    BY <2>3, <2>4, <2>5
  <2> HIDE DEF j
  <2>7. walk(q, t)[j] = NoCategory
    <3>1. CASE t = NoCategory
      BY <2>3, <3>1, WalksEnd
    <3>2. CASE t # NoCategory
      <4> HIDE DEF T
      <4>1. \A i \in 0..(j - 1) : i \in 0..(Guard - 1)
        BY <1>0, <2>3
      <4>2. \A i \in 0..(j - 1) : walk(p, t)[i] # c
        BY <3>2, <4>1
      <4>3. walk(q, t)[j] = walk(p, t)[j]
        BY <1>1, <2>3, <4>2
      <4> QED
        BY <2>6, <4>3
    <3> QED
      BY <3>1, <3>2
  <2>8. walk(q, d)[k + 1] = t
    <3>1. walk(q, d)[k + 1] = parentIn(q, c)
      BY <2>3, WalkSteps
    <3> QED
      BY <1>0, <3>1 DEF parentIn
  <2>9. walk(q, d)[(k + 1) + j] = walk(q, walk(q, d)[k + 1])[j]
    BY <1>0, <2>3, WalksCompose
  <2> QED
    BY <2>3, <2>7, <2>8, <2>9 DEF q
<1> QED
  BY <1>0, <1>2, <1>3

\* Creating, moving and deleting on a fresh read let nothing too deep.
LEMMA FreshWritesKeepDepth ==
    ASSUME Inv, isShallow, NEW r \in Requests, writesTree(r), ~ req[r].stale
    PROVE  isShallow'
<1>0. /\ TablesOK /\ req[r] \in Request /\ treeReads(req[r]) /\ depthReads(req[r])
      /\ parent \in Parents
      /\ Guard \in Nat /\ MaxDepth \in Nat /\ MaxDepth + 1 \in Nat /\ MaxDepth + 1 <= Guard
  BY CategoryAssumption DEF Inv, CallsOK, TablesOK, readsHold
<1>1. /\ \A d : depthOf(d) = depthIn(parent, d)
      /\ \A d : depthOf(d)' = depthIn(parent', d)
  BY DEF depthOf, depthIn, above
<1>2. ASSUME NEW d \in Categories, categoryExists(d)
      PROVE  walk(parent, d)[MaxDepth + 1] = NoCategory
  BY <1>0, <1>1, <1>2, DepthIs DEF isShallow
<1> SUFFICES ASSUME NEW d \in Categories, categoryExists(d)'
             PROVE  walk(parent', d)[MaxDepth + 1] = NoCategory
  BY <1>0, <1>1, DepthIs DEF isShallow
<1>3. ASSUME NEW c \in Categories, insertsCategory(r, c)
      PROVE  walk(parent', d)[MaxDepth + 1] = NoCategory
  <2> DEFINE t == req[r].target
  <2>1. /\ category[c] = "NONE" /\ category' = [category EXCEPT ![c] = "EXISTS"]
        /\ parent' = [parent EXCEPT ![c] = t]
        /\ t \in Categories \cup {NoCategory}
        /\ t # NoCategory => categoryExists(t) /\ depthOf(t) + 1 <= MaxDepth
    BY <1>0, <1>3 DEF insertsCategory, isNext, Request, depthReads
  <2>2. d # c => categoryExists(d)
    BY <1>0, <2>1 DEF TablesOK, categoryExists
  <2> HIDE DEF t
  <2>3. c # NoCategory /\ ~ categoryExists(c)
    BY <2>1, CategoryAssumption DEF categoryExists
  <2>4. ASSUME NEW e \in Categories, categoryExists(e), NEW m \in 0..(Guard - 1)
        PROVE  walk(parent, e)[m] # c
    <3>1. m \in Nat /\ m <= Guard
      BY <1>0
    <3> QED
      BY <1>0, <2>3, <2>4, <3>1, ExistingAbove
  <2>5. ASSUME NEW k \in 0..MaxDepth, walk(parent, d)[k] = c,
               \A i \in 0..(k - 1) : walk(parent, d)[i] # c
        PROVE  walk(parent, t)[MaxDepth - k] = NoCategory
    <3>1. d = c
      BY <1>0, <2>2, <2>4, <2>5
    <3>2. k = 0
      BY <1>0, <2>5, <3>1, WalkSteps
    <3>3. CASE t = NoCategory
      BY <1>0, <3>2, <3>3, WalksEnd
    <3>4. CASE t # NoCategory
      <4>1. MaxDepth <= Guard /\ depthIn(parent, t) \in Nat
        BY <1>0, DepthIs
      <4>2. depthIn(parent, t) <= MaxDepth
        BY <1>0, <1>1, <2>1, <3>4, <4>1
      <4> QED
        BY <1>0, <3>2, <4>1, <4>2, DepthIs
    <3> QED
      BY <3>3, <3>4
  <2>6. walk([parent EXCEPT ![c] = t], d)[MaxDepth + 1] = NoCategory
    BY <1>0, <1>2, <2>1, <2>2, <2>4, <2>5, WalkThrough
  <2> QED
    BY <2>1, <2>6
<1>4. ASSUME movesCategory(r)
      PROVE  walk(parent', d)[MaxDepth + 1] = NoCategory
  <2> DEFINE c == req[r].category
             t == req[r].target
  <2>1. /\ category' = category
        /\ parent' = [parent EXCEPT ![c] = t]
        /\ c \in Categories /\ t \in Categories \cup {NoCategory}
        /\ t # NoCategory => /\ categoryExists(t) /\ t # c
                             /\ \A n \in 1..Guard : walk(parent, t)[n] # c
                             /\ depthOf(t) + subtreeHeight(c) - 1 <= MaxDepth
    BY <1>0, <1>4 DEF movesCategory, Request, categoryExists, treeReads, depthReads, above
  <2>2. categoryExists(d)
    BY <2>1 DEF categoryExists
  <2> HIDE DEF c, t
  <2>3. ASSUME t # NoCategory, NEW m \in 0..(Guard - 1) PROVE walk(parent, t)[m] # c
    <3>1. CASE m = 0
      BY <2>1, <2>3, <3>1, WalkSteps
    <3>2. CASE m \in 1..Guard
      BY <2>1, <2>3, <3>2
    <3> QED
      BY <1>0, <3>1, <3>2
  <2>4. ASSUME NEW k \in 0..MaxDepth, walk(parent, d)[k] = c
        PROVE  walk(parent, t)[MaxDepth - k] = NoCategory
    <3>0. MaxDepth - k \in Nat /\ MaxDepth - k <= Guard
      BY <1>0
    <3>1. CASE t = NoCategory
      BY <3>0, <3>1, WalksEnd
    <3>2. CASE t # NoCategory
      <4>1. subtreeHeight(c) \in Nat \ {0}
        BY <1>0, <2>1, HeightIs
      <4>2. k # 0 => k <= subtreeHeight(c) - 1
        <5>1. k # 0 => k \in 1..Guard
          BY <1>0
        <5> QED
          BY <1>0, <2>1, <2>2, <2>4, <5>1, HeightIs
      <4>3. k <= subtreeHeight(c) - 1
        BY <4>1, <4>2
      <4>4. depthIn(parent, t) \in Nat
        BY <3>0, DepthIs
      <4>5. depthIn(parent, t) <= MaxDepth - k
        <5>1. depthIn(parent, t) + subtreeHeight(c) - 1 <= MaxDepth
          BY <1>1, <2>1, <3>2
        <5> QED
          BY <1>0, <4>1, <4>3, <4>4, <5>1
      <4> QED
        BY <3>0, <4>5, DepthIs
    <3> QED
      BY <3>1, <3>2
  <2>5. walk([parent EXCEPT ![c] = t], d)[MaxDepth + 1] = NoCategory
    BY <1>0, <1>2, <2>1, <2>2, <2>3, <2>4, WalkThrough
  <2> QED
    BY <2>1, <2>5
<1>5. ASSUME deletesCategory(r), unreferenced(req[r].category)
      PROVE  walk(parent', d)[MaxDepth + 1] = NoCategory
  <2> DEFINE c == req[r].category
  <2>1. /\ category' = [category EXCEPT ![c] = "DELETED"]
        /\ parent' = [parent EXCEPT ![c] = NoCategory]
        /\ c \in Categories
    BY <1>5 DEF deletesCategory, unreferenced, categoryExists
  <2>2. d # c => categoryExists(d)
    BY <1>0, <2>1 DEF TablesOK, categoryExists
  <2> HIDE DEF c
  <2>3. \A k \in 0..MaxDepth : walk(parent, NoCategory)[MaxDepth - k] = NoCategory
    <3>1. \A k \in 0..MaxDepth : MaxDepth - k \in Nat /\ MaxDepth - k <= Guard
      BY <1>0
    <3> QED
      BY <3>1, WalksEnd
  <2>4. walk([parent EXCEPT ![c] = NoCategory], d)[MaxDepth + 1] = NoCategory
    BY <1>0, <1>2, <2>1, <2>2, <2>3, WalkThrough
  <2> QED
    BY <2>1, <2>4
<1> QED
  BY <1>3, <1>4, <1>5 DEF writesTree

\* Calls that do not overlap keep the tree within one level of the limit, whatever the
\* limit is (categories.service.ts:183, 251).
THEOREM DepthIsBounded == Spec => DepthStaysBounded
<1>1. ASSUME Inv, Next, isShallow, ~ isShallow', ~ staleWrite PROVE FALSE
  <2>1. CASE UNCHANGED <<category, parent>>
    BY <1>1, <2>1 DEF isShallow, categoryExists, depthOf, above
  <2>2. CASE \E r \in Requests : writesTree(r) /\ ~ req[r].stale
    BY <1>1, <2>2, FreshWritesKeepDepth
  <2> QED
    BY <1>1, <2>1, <2>2, FreshTreeSteps
<1>2. Inv /\ [Next]_vars => [isShallow /\ ~ isShallow' => staleWrite]_vars
  BY <1>1
<1> QED
  BY <1>2, ReadsStand, PTL DEF Spec, DepthStaysBounded
=============================================================================
