------------------------- MODULE IdempotentCreation -------------------------
(* What an endpoint that takes an Idempotency-Key promises (schema.prisma,    *)
(* model IdempotencyKey): the first call that succeeds under a key creates    *)
(* one resource, forever; any other call with the key is answered with that   *)
(* resource or refused.                                                       *)
CONSTANTS Requests, Customers, Keys, Resources, NoResource

VARIABLES
    createdUnder,  \* the resource created under a customer's key, or NoResource
    answered       \* by call: <<customer, key, resource>> once answered with one

NoAnswer == <<>>
Slots == Customers \X Keys

Init ==
    /\ createdUnder = [s \in Slots |-> NoResource]
    /\ answered = [r \in Requests |-> NoAnswer]

Answer(r, c, k, x) ==
    /\ answered[r] = NoAnswer
    /\ answered' = [answered EXCEPT ![r] = <<c, k, x>>]

\* A new resource, under a key that has none; the caller gets it.
Create(r, c, k, x) ==
    /\ createdUnder[<<c, k>>] = NoResource
    /\ \A s \in Slots : createdUnder[s] # x
    /\ createdUnder' = [createdUnder EXCEPT ![<<c, k>>] = x]
    /\ Answer(r, c, k, x)

\* A repeated call gets the resource its key has.
Replay(r, c, k) ==
    /\ createdUnder[<<c, k>>] # NoResource
    /\ Answer(r, c, k, createdUnder[<<c, k>>])
    /\ UNCHANGED createdUnder

Next ==
    \E r \in Requests, c \in Customers, k \in Keys :
        \/ \E x \in Resources : Create(r, c, k, x)
        \/ Replay(r, c, k)

Spec == Init /\ [][Next]_<<createdUnder, answered>>
=============================================================================
