----------------------------- MODULE Rendezvous -----------------------------
(***************************************************************************)
(* What a passive connector promises those who call net_connect: requests  *)
(* are taken in the order they were offered, whoever took one answers it   *)
(* at most once, no answer is changed or withdrawn, and a call that is not *)
(* interrupted returns the answer.  An interrupted call takes its request  *)
(* back while nobody has it; later it deserts the request, which may still *)
(* be answered.                                                            *)
(***************************************************************************)
EXTENDS Sequences, SequencesExt

CONSTANT Calls      \* the calls of net_connect

VARIABLES asked,    \* the calls that have made their request
          waiting,  \* the requests nobody has taken, oldest first
          taken,    \* the requests somebody is to answer
          answer,   \* the answer to each request, "none" at first
          result    \* what each call returned, "none" while it has not

vars == <<asked, waiting, taken, answer, result>>

Answers == {"SUCCESS", "REFUSED", "FAILED"}

Init == /\ asked = {} /\ waiting = <<>> /\ taken = {}
        /\ answer = [n \in Calls |-> "none"]
        /\ result = [n \in Calls |-> "none"]

Offer(n) == /\ n \notin asked
            /\ asked' = asked \cup {n}
            /\ waiting' = Append(waiting, n)
            /\ UNCHANGED <<taken, answer, result>>

\* There is no room for the request.
TurnAway(n) == /\ n \notin asked
               /\ asked' = asked \cup {n}
               /\ answer' = [answer EXCEPT ![n] = "REFUSED"]
               /\ result' = [result EXCEPT ![n] = "failed"]
               /\ UNCHANGED <<waiting, taken>>

Take == /\ waiting # <<>>
        /\ waiting' = Tail(waiting)
        /\ taken' = taken \cup {Head(waiting)}
        /\ UNCHANGED <<asked, answer, result>>

Reject == /\ waiting # <<>>
          /\ waiting' = Tail(waiting)
          /\ answer' = [answer EXCEPT ![Head(waiting)] = "REFUSED"]
          /\ UNCHANGED <<asked, taken, result>>

Reply(n, a) == /\ n \in taken
               /\ taken' = taken \ {n}
               /\ answer' = [answer EXCEPT ![n] = a]
               /\ UNCHANGED <<asked, waiting, result>>

\* The request is dropped without an answer.
Drop(n) == /\ n \in taken
           /\ taken' = taken \ {n}
           /\ UNCHANGED <<asked, waiting, answer, result>>

Return(n) == /\ result[n] = "none" /\ answer[n] # "none"
             /\ result' = [result EXCEPT ![n] = IF answer[n] = "SUCCESS" THEN "connected" ELSE "failed"]
             /\ UNCHANGED <<asked, waiting, taken, answer>>

Withdraw(n) == /\ result[n] = "none" /\ Contains(waiting, n)
               /\ waiting' = RemoveFirst(waiting, n)
               /\ result' = [result EXCEPT ![n] = "failed"]
               /\ UNCHANGED <<asked, taken, answer>>

Desert(n) == /\ result[n] = "none" /\ answer[n] = "none"
             /\ n \in asked /\ ~Contains(waiting, n)
             /\ result' = [result EXCEPT ![n] = "failed"]
             /\ UNCHANGED <<asked, waiting, taken, answer>>

Next == \/ \E n \in Calls : \/ Offer(n) \/ TurnAway(n) \/ Drop(n) \/ Return(n)
                            \/ Withdraw(n) \/ Desert(n)
                            \/ \E a \in Answers : Reply(n, a)
        \/ Take \/ Reject

Spec == Init /\ [][Next]_vars
=============================================================================
