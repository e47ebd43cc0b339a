--------------------------- MODULE MCConsumerApp ---------------------------
(* ConsumerApp with two data identifiers, a client of the enclave's owner  *)
(* and another one, and the token lists that tell the paths of a session   *)
(* apart.                                                                  *)
EXTENDS ConsumerApp

CONSTANTS d1, d2, owner, other, JP, US

MCData == {d1, d2}
MCClients == {owner, other}
MCPlaces == {JP, US}

\* d1 may be used twice, in Japan, for a day; d2 once, anywhere, with no
\* duration stated, so that it runs out on the day it is fetched.
MCGrant == [d \in MCData |->
    IF d = d1
    THEN [counter |-> 2, location |-> JP, duration |-> 1, expiration |-> 2]
    ELSE [counter |-> 0, location |-> Anywhere, duration |-> 0, expiration |-> 1]]

Token(d, n) == [data |-> d, arg |-> n, consumer |-> owner, sound |-> TRUE]

MCTokenLists ==
    { << Token(d1, 1), Token(d2, 2) >>,                  \* the ordinary case
      << Token(d2, 1), Token(d1, 2) >>,
      << Token(d1, 1), Token(d1, 2) >>,                  \* one file, two arguments
      << Token(d1, 1), Token(d1, 2), Token(d2, 2) >>,    \* a wrong argument number
      << [Token(d1, 1) EXCEPT !.sound = FALSE], Token(d2, 1) >>,
      << Token(d2, 1), [Token(d1, 2) EXCEPT !.consumer = other] >> }

=============================================================================
