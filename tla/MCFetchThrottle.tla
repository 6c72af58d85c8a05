--------------------------- MODULE MCFetchThrottle ---------------------------
(* An instance of FetchThrottle: two tasks on one host, one on another and  *)
(* one without a host, with limits small enough that both of them bind.     *)
EXTENDS FetchThrottle

CONSTANTS t1, t2, t3, t4, hostA, hostB

MCHostOf ==
    [t \in {t1, t2, t3, t4} |->
        IF t \in {t1, t2} THEN hostA
        ELSE IF t = t3 THEN hostB
        ELSE NoHost]
=============================================================================
