------------------------------ MODULE Reviews -------------------------------
(***************************************************************************)
(* The review ledger (src/internal/modules/reviews).  Create checks that   *)
(* no live review of the (client, product) pair exists and inserts in a    *)
(* second statement; domain.Review declares no unique constraint on the    *)
(* pair, so that check is all there is.  Update reads the row and Saves    *)
(* it whole; Delete is a soft delete.  Requests are the processes          *)
(* RClients.  The comment text is abstracted away (Update's                *)
(* `req.Comment != ""` branch changes no field a property reads).          *)
(***************************************************************************)
EXTENDS Integers, FiniteSets, TLC

CONSTANTS
    RClients,     \* concurrent review requests
    Customers,    \* client ids a request may name
    Items,        \* product ids a request may name
    Ratings,      \* ratings a request may carry (binding: min=1, max=5)
    ReviewOps     \* the operations the requests call

ASSUME /\ Ratings \subseteq 1 .. 5
       /\ ReviewOps \subseteq {"Create", "Update", "Delete"}

VARIABLES
    review,   \* review[k]: the resena rows [client, product, rating, live]
    rpc,      \* rpc[c]: where request c is in its operation
    rreq,     \* rreq[c]: its request and the row it read
    rresp     \* rresp[c]: the status its last request was answered with,
              \* 0 while one is in flight

rvars == <<review, rpc, rreq, rresp>>

\* calificacion: CHECK (calificacion >= 1 AND calificacion <= 5)
ReviewRow == [client : Customers, product : Items, rating : 1 .. 5,
              live : BOOLEAN]

NoReviewReq == [rid |-> 0, client |-> CHOOSE x \in Customers : TRUE,
                product |-> CHOOSE x \in Items : TRUE, rating |-> 0,
                old |-> [client |-> CHOOSE x \in Customers : TRUE,
                         product |-> CHOOSE x \in Items : TRUE,
                         rating |-> 1, live |-> FALSE]]

NewReviewId == Cardinality(DOMAIN review) + 1

LiveReview(k) == k \in DOMAIN review /\ review[k].live

\* Mutation: the client and product ids passed in each other's place.
ReviewExistsSwapped(cl, p) ==
    \E k \in DOMAIN review : /\ review[k].live
                             /\ review[k].client = p
                             /\ review[k].product = cl

\* ExistsByClientAndProduct: a scoped COUNT, deleted rows not counted.
ReviewExists(cl, p) ==
    \E k \in DOMAIN review : /\ review[k].live
                             /\ review[k].client = cl
                             /\ review[k].product = p

\* reviews/handler.go: 2xx on success, 404 when the error's text is the
\* one the handler compares against, 400 for any other error.
CreateReviewStatus(err) == IF err = "ok" THEN 201 ELSE 400
UpdateReviewStatus(err) ==
    CASE err = "ok" -> 200 [] err = "review not found" -> 404 [] OTHER -> 400
DeleteReviewStatus(err) ==
    CASE err = "ok" -> 200 [] err = "review not found" -> 404 [] OTHER -> 400

RReply(c, s) == /\ rpc' = [rpc EXCEPT ![c] = "idle"]
                /\ rreq' = [rreq EXCEPT ![c] = NoReviewReq]
                /\ rresp' = [rresp EXCEPT ![c] = s]

RGoto(c, l) == /\ rpc' = [rpc EXCEPT ![c] = l]
               /\ rresp' = [rresp EXCEPT ![c] = 0]

ReviewTypeOK ==
    /\ DOMAIN review = 1 .. Cardinality(DOMAIN review)
    /\ \A k \in DOMAIN review : review[k] \in ReviewRow
    /\ rpc \in [RClients -> {"idle", "r_insert", "r_save"}]
    /\ rresp \in [RClients -> {0, 200, 201, 400, 404}]

ReviewInit ==
    /\ review = <<>>
    /\ rpc = [c \in RClients |-> "idle"]
    /\ rreq = [c \in RClients |-> NoReviewReq]
    /\ rresp = [c \in RClients |-> 0]

-----------------------------------------------------------------------------
\* Create: bind, then ExistsByClientAndProduct; an existing review fails it.
CreateReviewRequest(c) ==
    /\ "Create" \in ReviewOps
    /\ rpc[c] = "idle"
    /\ \E cl \in Customers, p \in Items, v \in Ratings :
          IF ReviewExists(cl, p)
            THEN RReply(c, CreateReviewStatus("ya existe una resena"))
            ELSE /\ rreq' = [rreq EXCEPT ![c] = [NoReviewReq EXCEPT
                                !.client = cl, !.product = p, !.rating = v]]
                 /\ RGoto(c, "r_insert")
    /\ UNCHANGED review

\* repo.Create: INSERT INTO resena, whatever was inserted since the check.
CreateReviewInsert(c) ==
    LET r == rreq[c] IN
    /\ rpc[c] = "r_insert"
    /\ review' = review @@ (NewReviewId :> [client |-> r.client,
                                             product |-> r.product,
                                             rating |-> r.rating,
                                             live |-> TRUE])
    /\ RReply(c, CreateReviewStatus("ok"))

\* Update: bind, FindByID (a live review).  Rating 0 is an omitted field.
UpdateReviewRequest(c) ==
    /\ "Update" \in ReviewOps
    /\ rpc[c] = "idle"
    /\ \E k \in 1 .. NewReviewId, v \in {0} \cup Ratings :
          IF LiveReview(k)
            THEN /\ rreq' = [rreq EXCEPT ![c] = [NoReviewReq EXCEPT
                                !.rid = k, !.rating = v, !.old = review[k]]]
                 /\ RGoto(c, "r_save")
            ELSE RReply(c, UpdateReviewStatus("review not found"))
    /\ UNCHANGED review

\* Mutation: review.Rating = req.Rating without the req.Rating > 0 guard.
SavedReviewUnguarded(r) == [r.old EXCEPT !.rating = r.rating, !.live = TRUE]

\* The row as read, with the new rating if one was given.
SavedReview(r) ==
    [r.old EXCEPT !.rating = IF r.rating > 0 THEN r.rating ELSE @,
                  !.live = TRUE]

\* repo.Update = db.Save(review): the whole row read at the start.  On a row
\* soft-deleted since, nothing, or an upsert that brings it back live.
UpdateReviewSave(c) ==
    LET r == rreq[c] IN
    /\ rpc[c] = "r_save"
    /\ \/ review' = [review EXCEPT ![r.rid] = SavedReview(r)]
       \/ /\ ~review[r.rid].live
          /\ UNCHANGED review
    /\ RReply(c, UpdateReviewStatus("ok"))

\* Delete: FindByID, then a soft delete; one step.
DeleteReview(c) ==
    /\ "Delete" \in ReviewOps
    /\ rpc[c] = "idle"
    /\ \E k \in 1 .. NewReviewId :
          IF LiveReview(k)
            THEN /\ review' = [review EXCEPT ![k].live = FALSE]
                 /\ rresp' = [rresp EXCEPT ![c] = DeleteReviewStatus("ok")]
            ELSE /\ rresp' = [rresp EXCEPT ![c] = DeleteReviewStatus("review not found")]
                 /\ UNCHANGED review
    /\ UNCHANGED <<rpc, rreq>>

ReviewNext ==
    \E c \in RClients :
        \/ CreateReviewRequest(c) \/ CreateReviewInsert(c)
        \/ UpdateReviewRequest(c) \/ UpdateReviewSave(c)
        \/ DeleteReview(c)

ReviewSpec == ReviewInit /\ [][ReviewNext]_rvars

-----------------------------------------------------------------------------
(***************************************************************************)
(* One review per (client, product): no two live resena rows name the same *)
(* pair (spec 4.4, DuplicateReview).  Create's exists-check and its insert *)
(* are separate statements, and Update's Save can bring back a row a       *)
(* Delete removed after a new review of the pair was created.              *)
(***************************************************************************)
OneReviewPerPair ==
    \A k1, k2 \in DOMAIN review :
        (/\ review[k1].live /\ review[k2].live
         /\ review[k1].client = review[k2].client
         /\ review[k1].product = review[k2].product) => k1 = k2

=============================================================================
