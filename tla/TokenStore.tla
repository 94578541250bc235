----------------------------- MODULE TokenStore -----------------------------
(***************************************************************************)
(* What the SSO server promises of a token (smart-sso, TokenManager): it   *)
(* is issued once, lives, and ends, by logout or by time, for good.        *)
(***************************************************************************)
CONSTANT Token

VARIABLE status

StatusTypeOK == status \in [Token -> {"unissued", "live", "dead"}]

\* addToken
Issue(t) ==
    /\ status[t] = "unissued"
    /\ status' = [status EXCEPT ![t] = "live"]

\* remove, verifyExpired
End(t) ==
    /\ status[t] = "live"
    /\ status' = [status EXCEPT ![t] = "dead"]

\* The timer and Redis end several tokens at a time.
EndAll(T) == status' = [t \in Token |-> IF t \in T THEN "dead" ELSE status[t]]

Init == status = [t \in Token |-> "unissued"]

Next ==
    \/ \E t \in Token : Issue(t) \/ End(t)
    \/ \E T \in SUBSET {t \in Token : status[t] = "live"} : EndAll(T)

Spec == Init /\ [][Next]_status
=============================================================================
