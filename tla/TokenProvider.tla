--------------------------- MODULE TokenProvider ---------------------------
(***************************************************************************)
(* auth.TokenProvider under the agent calls that share it: the cached      *)
(* token, the mutex a refresh holds, the token endpoint, and the agent     *)
(* request that carries the token until it ends.                           *)
(***************************************************************************)
EXTENDS Integers

CONSTANTS
    Calls,          \* InvokeTriageAgent activities that can run at once
    Free,           \* the mutex is free
    Lifetimes,      \* expires_in values the token endpoint may answer, in ticks
    Buffer,         \* what a cached token must have left, in ticks
    FetchTimeout,   \* httpClient.Timeout, in ticks
    AgentTimeout,   \* StartToCloseTimeout of InvokeTriageAgent, in ticks
    MaxTime         \* bound: last tick of the clock

ASSUME TokenAssumption ==
    /\ Free \notin Calls
    /\ Lifetimes \subseteq Nat
    /\ Buffer \in Nat /\ FetchTimeout \in Nat /\ AgentTimeout \in Nat /\ MaxTime \in Nat

VARIABLES
    now,    \* the current tick
    mu,     \* holder of TokenProvider.mu
    token,  \* the cached token: expAt as the provider noted it, and when it really expires
    call    \* the agent calls: when each began, since when it fetches or has its token,
            \* and the token it got

vars == <<now, mu, token, call>>

NoToken  == [cached |-> FALSE, expAt |-> 0, expires |-> 0]
Token    == [cached : BOOLEAN, expAt : Nat, expires : Nat]
IdleCall == [pc |-> "idle", at |-> 0, since |-> 0, lifetime |-> 0, expires |-> 0]
Call     == [pc : {"idle", "wait", "fetch", "issued", "request"},
             at : Nat, since : Nat, lifetime : Nat, expires : Nat]

\* The states of a call inside fetchToken.
Fetching == {"fetch", "issued"}

TypeOK ==
    /\ now \in Nat
    /\ mu \in Calls \cup {Free}
    /\ token \in Token
    /\ call \in [Calls -> Call]
    /\ \A c \in Calls : call[c].pc \in Fetching <=> mu = c

-----------------------------------------------------------------------------
Valid_NoBuffer == token.cached /\ now < token.expAt

\* Return cached token if still valid.
Valid == token.cached /\ now + Buffer < token.expAt

\* An activity attempt begins; it asks for the token.
Invoke(c) ==
    /\ call[c].pc = "idle"
    /\ call' = [call EXCEPT ![c] = [IdleCall EXCEPT !.pc = "wait", !.at = now]]
    /\ UNCHANGED <<now, mu, token>>

TakeCached(c) ==
    /\ call[c].pc = "wait"
    /\ mu = Free
    /\ Valid
    /\ call' = [call EXCEPT ![c] = [@ EXCEPT !.pc = "request", !.since = now,
                                             !.expires = token.expires]]
    /\ UNCHANGED <<now, mu, token>>

BeginFetch(c) ==
    /\ call[c].pc = "wait"
    /\ mu = Free
    /\ ~Valid
    /\ mu' = c
    /\ call' = [call EXCEPT ![c] = [@ EXCEPT !.pc = "fetch", !.since = now]]
    /\ UNCHANGED <<now, token>>

\* The endpoint issues a token; its lifetime counts from here.
Issue(c, lifetime) ==
    /\ call[c].pc = "fetch"
    /\ now <= call[c].at + AgentTimeout
    /\ call' = [call EXCEPT ![c] = [@ EXCEPT !.pc = "issued", !.lifetime = lifetime,
                                             !.expires = now + lifetime]]
    /\ UNCHANGED <<now, mu, token>>

\* The answer arrives; the provider counts the lifetime from here.
FetchToken(c) ==
    /\ call[c].pc = "issued"
    /\ token' = [cached |-> TRUE, expAt |-> now + call[c].lifetime, expires |-> call[c].expires]
    /\ call' = [call EXCEPT ![c] = [@ EXCEPT !.pc = "request", !.since = now, !.lifetime = 0]]
    /\ mu' = Free
    /\ UNCHANGED now

FetchFails_TriesAgain(c) ==
    /\ call[c].pc \in Fetching
    /\ call' = [call EXCEPT ![c] = [@ EXCEPT !.pc = "fetch", !.since = now]]
    /\ UNCHANGED <<now, mu, token>>

\* The endpoint refuses or does not answer in time: the call ends, the cache stays.
FetchFails(c) ==
    /\ call[c].pc \in Fetching
    /\ call' = [call EXCEPT ![c] = IdleCall]
    /\ mu' = Free
    /\ UNCHANGED <<now, token>>

\* The agent answers, or the activity's context is done.
End(c) ==
    /\ call[c].pc = "request"
    /\ call' = [call EXCEPT ![c] = IdleCall]
    /\ UNCHANGED <<now, mu, token>>

\* Time passes, but no fetch and no request outlives its timeout.  Waiting for the
\* mutex has none.
Tick ==
    /\ now < MaxTime
    /\ \A c \in Calls :
          /\ call[c].pc \in Fetching \cup {"request"} => now < call[c].at + AgentTimeout
          /\ call[c].pc \in Fetching => now < call[c].since + FetchTimeout
    /\ now' = now + 1
    /\ UNCHANGED <<mu, token, call>>

Init ==
    /\ now = 0
    /\ mu = Free
    /\ token = NoToken
    /\ call = [c \in Calls |-> IdleCall]

InvokeTriageAgent(c) ==
    \/ Invoke(c)
    \/ TakeCached(c)
    \/ BeginFetch(c)
    \/ \E lifetime \in Lifetimes : Issue(c, lifetime)
    \/ FetchToken(c)
    \/ FetchFails(c)
    \/ End(c)

Next ==
    \/ Tick
    \/ \E c \in Calls : InvokeTriageAgent(c)

(* Fairness: a fetch ends, and sync.Mutex starves nobody (it is free again and *)
(* again, so a waiter needs strong fairness).                                  *)
Fairness ==
    \A c \in Calls :
        /\ WF_vars(FetchToken(c) \/ FetchFails(c))
        /\ SF_vars(TakeCached(c) \/ BeginFetch(c))

Spec == Init /\ [][Next]_vars
FairSpec == Spec /\ Fairness

-----------------------------------------------------------------------------
\* No call is handed a token that has expired already, though the provider counts a
\* token's lifetime from the arrival of the answer and not from its issue.
TokenLiveAtHandOut ==
    [][\A c \in Calls : (call[c].pc # "request" /\ call'[c].pc = "request")
                            => now < call'[c].expires]_vars

\* Whoever asks for a token gets one or an error, whatever the fetches of others do
\* while they hold the mutex.
TokenAnswered ==
    \A c \in Calls : (call[c].pc = "wait") ~> (call[c].pc # "wait")

\* A request may run on after its token has expired, as AgentTimeout is longer than
\* Buffer.  But the beginning of every request is covered: a token lives, from the
\* moment it is handed out, for the buffer or the shortest lifetime, less the fetch
\* by which the provider may believe in it too long.
BufferCovers ==
    \A c \in Calls :
        (/\ call[c].pc = "request"
         /\ \A l \in Lifetimes \cup {Buffer} : now + FetchTimeout < call[c].since + l)
          => now < call[c].expires
=============================================================================
