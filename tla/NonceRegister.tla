--------------------------- MODULE NonceRegister ---------------------------
(***************************************************************************)
(* What the ReplayStore port promises (src/locusmesh/ports.py): a nonce is *)
(* remembered and tested for novelty in one indivisible step, and a call   *)
(* that cannot be served gives no verdict at all.                          *)
(***************************************************************************)
CONSTANTS
    Callers,    \* objects on which record_if_new is called
    Scopes,     \* independent memories (one per database)
    ScopeOf,    \* the memory a caller uses
    Nonces,
    NoNonce     \* the argument of a caller that has no call under way

VARIABLES
    spent,      \* [Scopes -> SUBSET Nonces], the nonces each memory remembers
    asking,     \* [Callers -> Nonces \cup {NoNonce}]
    verdict     \* [Callers -> {"none", "new", "seen", "error"}]

regVars == <<spent, asking, verdict>>

RegisterInit ==
    /\ spent = [s \in Scopes |-> {}]
    /\ asking = [c \in Callers |-> NoNonce]
    /\ verdict = [c \in Callers |-> "none"]

Ask(c, n) ==
    /\ asking[c] = NoNonce
    /\ asking' = [asking EXCEPT ![c] = n]
    /\ UNCHANGED <<spent, verdict>>

\* The whole promise of the port: test and set in one step.
TestAndSet(c) ==
    LET s == ScopeOf[c]
        n == asking[c]
    IN  /\ n # NoNonce
        /\ verdict[c] = "none"
        /\ verdict' = [verdict EXCEPT ![c] = IF n \in spent[s] THEN "seen" ELSE "new"]
        /\ spent' = [spent EXCEPT ![s] = @ \cup {n}]
        /\ UNCHANGED asking

Fail(c) ==
    /\ asking[c] # NoNonce
    /\ verdict[c] = "none"
    /\ verdict' = [verdict EXCEPT ![c] = "error"]
    /\ UNCHANGED <<spent, asking>>

\* The caller takes its verdict, or its process dies with or without one.
Leave(c) ==
    /\ asking[c] # NoNonce
    /\ asking' = [asking EXCEPT ![c] = NoNonce]
    /\ verdict' = [verdict EXCEPT ![c] = "none"]
    /\ UNCHANGED spent

RegisterNext ==
    \E c \in Callers :
        \/ \E n \in Nonces : Ask(c, n)
        \/ TestAndSet(c)
        \/ Fail(c)
        \/ Leave(c)

RegisterSpec == RegisterInit /\ [][RegisterNext]_regVars
=============================================================================
