--------------------------- MODULE AbstractFutex ---------------------------
(***************************************************************************)
(* What __wasilibc_futex_wait and __wasilibc_futex_wake promise            *)
(* (headers/public/wasi/libc.h): a wake of count threads notifies that     *)
(* many of the threads asleep on the address, or all of them if there are  *)
(* fewer; a notified thread returns 0 even if its deadline passes; a       *)
(* thread that was not notified leaves only at its deadline.               *)
(***************************************************************************)
EXTENDS Naturals, FiniteSets

CONSTANTS Thread, Addr, Error

VARIABLES
    asleep,    \* the threads asleep on each address
    notified,  \* threads that have been woken and have not returned yet
    result     \* what the last wait to return returned

vars == <<asleep, notified, result>>

Init ==
    /\ asleep = [a \in Addr |-> {}]
    /\ notified = {}
    /\ result = "0"

Sleeping(t) == t \in notified \/ \E a \in Addr : t \in asleep[a]

Wait(t, a) ==
    /\ ~Sleeping(t)
    /\ asleep' = [asleep EXCEPT ![a] = @ \cup {t}]
    /\ UNCHANGED <<notified, result>>

\* A wait that does not sleep reports why.
Refuse(t, error) ==
    /\ ~Sleeping(t)
    /\ result' = error
    /\ UNCHANGED <<asleep, notified>>

\* Any `count' of the threads asleep on a, or all if there are not as many.
Wake(a, count) ==
    \E chosen \in SUBSET asleep[a] :
        /\ \/ Cardinality(chosen) = count
           \/ Cardinality(chosen) < count /\ chosen = asleep[a]
        /\ asleep' = [asleep EXCEPT ![a] = @ \ chosen]
        /\ notified' = notified \cup chosen
        /\ UNCHANGED result

Return(t) ==
    /\ t \in notified
    /\ notified' = notified \ {t}
    /\ result' = "0"
    /\ UNCHANGED asleep

TimeOut(t) ==
    \E a \in Addr :
        /\ t \in asleep[a]
        /\ asleep' = [asleep EXCEPT ![a] = @ \ {t}]
        /\ result' = "-ETIMEDOUT"
        /\ UNCHANGED notified

Next ==
    \/ \E t \in Thread, a \in Addr : Wait(t, a)
    \/ \E t \in Thread, error \in Error : Refuse(t, error)
    \/ \E a \in Addr, count \in 1 .. Cardinality(Thread) : Wake(a, count)
    \/ \E t \in Thread : Return(t) \/ TimeOut(t)

Spec == Init /\ [][Next]_vars /\ \A t \in Thread : WF_vars(Return(t))
=============================================================================
