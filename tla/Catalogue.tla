------------------------------ MODULE Catalogue ------------------------------
(* Products (products.service.ts) and their images (product-images.service.ts) *)
(* in the tree of categories. Images are changed in transactions at READ       *)
(* COMMITTED: an updateMany() takes the rows that were committed when the      *)
(* statement began, waits for whoever holds them, and then writes them as they *)
(* are by then. It is a step that fixes the rows and one that commits.         *)
EXTENDS CategoryTree

CONSTANT productOf    \* product_images.product_id, for every id

ASSUME CatalogueAssumption == productOf \in [Images -> Products]

VARIABLES
    image,      \* rows of product_images, with isPrimary
    history     \* products whose inventory has movements

vars == <<treeVars, req, image, history>>

-----------------------------------------------------------------------------
Image == {"NONE", "PLAIN", "PRIMARY", "DELETED"}

imageExists(i) == image[i] \in {"PLAIN", "PRIMARY"}
imagesOf(p) == {i \in Images : productOf[i] = p /\ imageExists(i)}
primaries(p) == {i \in imagesOf(p) : image[i] = "PRIMARY"}

ProductOps == {"createProduct", "moveProduct", "removeProduct"}
ImageOps == {"addFirst", "add", "update", "removeImage"}

-----------------------------------------------------------------------------
(* Products. The category must be there when it is read and when it is written. *)

createProduct(r, p, c) ==
    /\ product[p] = "NONE"
    /\ categoryExists(c)
    /\ reads(r, [Idle EXCEPT !.op = "createProduct", !.product = p, !.target = c])
    /\ UNCHANGED <<treeVars, image, history>>

\* PATCH /products/:id with a categoryId.
moveProduct(r, p, c) ==
    /\ productExists(p)
    /\ categoryExists(c)
    /\ reads(r, [Idle EXCEPT !.op = "moveProduct", !.product = p, !.target = c])
    /\ UNCHANGED <<treeVars, image, history>>

\* The category must still be there. A product stands for its SKU, which is
\* unique: the second of two creations fails.
hangs(r, before) ==
    /\ LET p == req[r].product
       IN  IF product[p] = before /\ categoryExists(req[r].target)
           THEN /\ product' = [product EXCEPT ![p] = "EXISTS"]
                /\ categoryOf' = [categoryOf EXCEPT ![p] = req[r].target]
                /\ finishes(r, ProductOps)
           ELSE refused(r) /\ UNCHANGED <<product, categoryOf>>
    /\ UNCHANGED <<category, parent, image, history>>

insertsProduct(r) == req[r].op = "createProduct" /\ hangs(r, "NONE")
updatesProduct(r) == req[r].op = "moveProduct" /\ hangs(r, "EXISTS")

\* A movement of stock is recorded (modules Inventory and Orders).
recordsMovement(p) ==
    /\ productExists(p)
    /\ p \notin history
    /\ history' = history \cup {p}
    /\ req' = [q \in Requests |->
                 IF req[q].op \in ProductOps THEN [req[q] EXCEPT !.stale = TRUE] ELSE req[q]]
    /\ UNCHANGED <<treeVars, image>>

\* A faulty variant: the movements are not counted.
mayHaveHistory(p) == productExists(p)

hasNoHistory(p) == productExists(p) /\ p \notin history

\* DELETE /products/:id?hard=true: the movements are counted first.
removeProduct(r, p) ==
    /\ hasNoHistory(p)
    /\ reads(r, [Idle EXCEPT !.op = "removeProduct", !.product = p])
    /\ UNCHANGED <<treeVars, image, history>>

\* The delete takes the inventory, its movements and the images with it.
deletesProduct(r) ==
    /\ req[r].op = "removeProduct"
    /\ LET p == req[r].product
       IN  IF productExists(p)
           THEN /\ product' = [product EXCEPT ![p] = "DELETED"]
                /\ categoryOf' = [categoryOf EXCEPT ![p] = NoCategory]
                /\ history' = history \ {p}
                /\ image' = [i \in Images |-> IF i \in imagesOf(p) THEN "DELETED" ELSE image[i]]
                /\ finishes(r, ProductOps \cup ImageOps)
           ELSE refused(r) /\ UNCHANGED <<product, categoryOf, history, image>>
    /\ UNCHANGED <<category, parent>>

-----------------------------------------------------------------------------
(* Images.                                                                    *)

\* POST /products/:id/images: the images are counted, the first is the primary one.
addImage(r, p, isPrimary) ==
    /\ productExists(p)
    /\ reads(r, IF imagesOf(p) = {}
                THEN [Idle EXCEPT !.op = "addFirst", !.product = p, !.primary = TRUE]
                ELSE [Idle EXCEPT !.op = "add", !.product = p, !.primary = isPrimary,
                                  !.ready = ~ isPrimary])
    /\ UNCHANGED <<treeVars, image, history>>

\* PATCH with isPrimary and PATCH /primary: the image is read first, and the
\* primary one keeps its flag unless another gets it.
updateImage(r, i, isPrimary) ==
    /\ imageExists(i)
    /\ ~ isPrimary => image[i] # "PRIMARY"
    /\ reads(r, [Idle EXCEPT !.op = "update", !.product = productOf[i], !.image = i,
                             !.primary = isPrimary, !.ready = ~ isPrimary])
    /\ UNCHANGED <<treeVars, image, history>>

\* DELETE: whether it is the primary one is read first.
removeImage(r, i) ==
    /\ imageExists(i)
    /\ reads(r, [Idle EXCEPT !.op = "removeImage", !.product = productOf[i], !.image = i,
                             !.primary = image[i] = "PRIMARY"])
    /\ UNCHANGED <<treeVars, image, history>>

\* updateMany() begins: these are the rows it takes.
fixesRows(r) ==
    /\ ~ req[r].ready
    /\ req' = [req EXCEPT ![r].cleared = imagesOf(req[r].product), ![r].ready = TRUE]
    /\ UNCHANGED <<treeVars, image, history>>

\* The rows without the flag, as the transaction of r leaves them.
withoutFlag(r) ==
    [i \in Images |-> IF i \in req[r].cleared /\ imageExists(i) THEN "PLAIN" ELSE image[i]]
flag(isPrimary) == IF isPrimary THEN "PRIMARY" ELSE "PLAIN"

insertsImage(r, i) ==
    /\ req[r].op \in {"addFirst", "add"} /\ req[r].ready
    /\ productExists(req[r].product)
    /\ isNext(image, i)
    /\ productOf[i] = req[r].product
    /\ image' = [withoutFlag(r) EXCEPT ![i] = flag(req[r].primary)]
    /\ finishes(r, ImageOps)
    /\ UNCHANGED <<treeVars, history>>

insertImageRefused(r) ==
    /\ req[r].op \in {"addFirst", "add"} /\ req[r].ready
    /\ ~ productExists(req[r].product)
    /\ refused(r)
    /\ UNCHANGED <<treeVars, image, history>>

writesImage(r) ==
    /\ req[r].op = "update" /\ req[r].ready
    /\ IF imageExists(req[r].image)
       THEN /\ image' = [withoutFlag(r) EXCEPT ![req[r].image] = flag(req[r].primary)]
            /\ finishes(r, ImageOps)
       ELSE refused(r) /\ UNCHANGED image
    /\ UNCHANGED <<treeVars, history>>

\* A faulty variant: nobody follows the primary image.
promotesNone(r) == FALSE

promotes(r) == req[r].primary

\* If the image was read as the primary one, the next one by its sort order follows.
deletesImage(r) ==
    /\ req[r].op = "removeImage"
    /\ LET i == req[r].image
           rest == imagesOf(req[r].product) \ {i}
           left == [image EXCEPT ![i] = "DELETED"]
       IN  IF imageExists(i)
           THEN /\ IF promotes(r) /\ rest # {}
                   THEN \E next \in rest : image' = [left EXCEPT ![next] = "PRIMARY"]
                   ELSE image' = left
                /\ finishes(r, ImageOps)
           ELSE refused(r) /\ UNCHANGED image
    /\ UNCHANGED <<treeVars, history>>

-----------------------------------------------------------------------------
Init ==
    /\ TreeInit
    /\ image = [i \in Images |-> "NONE"]
    /\ history = {}

calls(r) ==
    \/ \E p \in Products, c \in Categories : createProduct(r, p, c) \/ moveProduct(r, p, c)
    \/ \E p \in Products : removeProduct(r, p) \/ \E b \in BOOLEAN : addImage(r, p, b)
    \/ \E i \in Images : removeImage(r, i) \/ \E b \in BOOLEAN : updateImage(r, i, b)

steps(r) ==
    \/ insertsProduct(r) \/ updatesProduct(r) \/ deletesProduct(r)
    \/ fixesRows(r) \/ (\E i \in Images : insertsImage(r, i)) \/ insertImageRefused(r)
    \/ writesImage(r) \/ deletesImage(r)

\* The server stops; transactions that did not commit leave nothing.
crash ==
    /\ \E r \in Requests : ~ isIdle(r)
    /\ req' = [r \in Requests |-> Idle]
    /\ UNCHANGED <<treeVars, image, history>>

Next ==
    \/ \E r \in Requests :
          \/ (treeCalls(r) \/ treeSteps(r)) /\ UNCHANGED <<image, history>>
          \/ calls(r) \/ steps(r)
    \/ \E p \in Products : recordsMovement(p)
    \/ crash

Spec == Init /\ [][Next]_vars

-----------------------------------------------------------------------------
(* What must hold.                                                            *)

\* Every table and call keeps its type; however calls interleave, no category is
\* deleted from under its children or products, nor a product from under its
\* images (schema.prisma:277, 325, 351).
TypeOK ==
    /\ TreeTypeOK
    /\ image \in [Images -> Image]
    /\ history \subseteq {p \in Products : productExists(p)}
    /\ TreeIsReferenced
    /\ \A i \in Images : imageExists(i) => productExists(productOf[i])

\* As long as the calls of staff do not overlap, no move closes a circle of as many
\* categories as the walks of the code follow (categories.service.ts:246-250).
TreeStaysATree == [][isTree /\ ~ isTree' => staleWrite]_vars

\* As long as the calls of staff do not overlap, no category comes more than one level
\* below the deepest that is meant (categories.service.ts:183, 251).
DepthStaysBounded == [][isShallow /\ ~ isShallow' => staleWrite]_vars

onePrimary(p) == imagesOf(p) # {} => Cardinality(primaries(p)) = 1

\* As long as calls do not overlap, a product with images has exactly one primary
\* image, through adding, choosing, clearing and deleting in any order
\* (product-images.service.ts:47, 104, 120, 147).
OnePrimaryStays == [][\A p \in Products : onePrimary(p) /\ ~ onePrimary(p)' => staleWrite]_vars

\* A product whose stock has moved is not deleted, and its ledger with it, unless
\* the movement came after they were counted (products.service.ts:399-414).
HistoryIsKept ==
    [][\A p \in history : product[p]' = "DELETED" => staleWrite]_vars
=============================================================================
