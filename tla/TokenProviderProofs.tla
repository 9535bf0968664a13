------------------------ MODULE TokenProviderProofs ------------------------
(***************************************************************************)
(* What the 150 s buffer of the token provider is worth, for any number of *)
(* calls, any lifetimes and any activity timeout: no call is handed an     *)
(* expired token when the buffer covers a fetch, and every request has a   *)
(* live token for the buffer, or the shortest lifetime, less a fetch.      *)
(***************************************************************************)
EXTENDS TokenProvider, TLAPS

\* A token lives longer than it takes to fetch it.
FetchCovered == FetchTimeout <= Buffer /\ \A l \in Lifetimes : FetchTimeout < l

\* The provider believes in the cached token too long by a fetch at most.
BeliefClose == token.cached => token.expAt <= token.expires + FetchTimeout

\* A fetch began after its call and has not timed out.
FetchBounded ==
    \A c \in Calls :
        /\ call[c].at <= now
        /\ call[c].pc \in Fetching => /\ call[c].at <= call[c].since
                                      /\ call[c].since <= now
                                      /\ now <= call[c].since + FetchTimeout

\* The endpoint counts the lifetime from a moment within the fetch.
IssuedInFetch ==
    \A c \in Calls :
        call[c].pc = "issued" => /\ call[c].lifetime \in Lifetimes
                                 /\ call[c].since + call[c].lifetime <= call[c].expires

TokenInv == TypeOK /\ BeliefClose /\ FetchBounded /\ IssuedInFetch

\* From the moment it is handed out a request's token lives for the buffer, or for one of
\* the lifetimes, less a fetch.
RequestCovered ==
    \A c \in Calls :
        call[c].pc = "request" =>
            \E l \in Lifetimes \cup {Buffer} : call[c].since + l <= call[c].expires + FetchTimeout

-----------------------------------------------------------------------------
\* The empty cache with no call under way satisfies the invariants.
LEMMA InitToken == Init => TokenInv /\ RequestCovered
BY TokenAssumption
   DEF Init, TokenInv, TypeOK, BeliefClose, FetchBounded, IssuedInFetch, RequestCovered,
       NoToken, Token, IdleCall, Call, Fetching

\* A step of one call keeps the types, and the mutex with the call that fetches.
LEMMA TypeStep == TypeOK /\ [Next]_vars => TypeOK'
<1> USE TokenAssumption DEF Token, Call, Fetching, IdleCall
<1> SUFFICES ASSUME TypeOK, [Next]_vars PROVE TypeOK'
  OBVIOUS
<1> USE DEF TypeOK
<1>1. CASE Tick
  BY <1>1 DEF Tick
<1>2. ASSUME NEW c \in Calls, Invoke(c) PROVE TypeOK'
  BY <1>2 DEF Invoke
<1>3. ASSUME NEW c \in Calls, TakeCached(c) PROVE TypeOK'
  BY <1>3 DEF TakeCached
<1>4. ASSUME NEW c \in Calls, BeginFetch(c) PROVE TypeOK'
  BY <1>4 DEF BeginFetch
<1>5. ASSUME NEW c \in Calls, NEW l \in Lifetimes, Issue(c, l) PROVE TypeOK'
  <2>1. l \in Nat /\ now + l \in Nat
    OBVIOUS
  <2>2. call' = [call EXCEPT ![c] = [@ EXCEPT !.pc = "issued", !.lifetime = l,
                                              !.expires = now + l]]
    BY <1>5 DEF Issue
  <2>3. call' \in [Calls -> Call]
    BY <2>1, <2>2
  <2>4. \A d \in Calls : call'[d].pc \in Fetching <=> mu = d
    BY <1>5, <2>2 DEF Issue
  <2> QED BY <1>5, <2>3, <2>4 DEF Issue
<1>6. ASSUME NEW c \in Calls, FetchToken(c) PROVE TypeOK'
  <2>1. call' = [call EXCEPT ![c] = [@ EXCEPT !.pc = "request", !.since = now, !.lifetime = 0]]
    BY <1>6 DEF FetchToken
  <2>2. [call[c] EXCEPT !.pc = "request", !.since = now, !.lifetime = 0] \in Call
    OBVIOUS
  <2>3. call' \in [Calls -> Call] /\ call'[c].pc = "request"
        /\ \A d \in Calls \ {c} : call'[d] = call[d]
    BY <2>1, <2>2
  <2>4. token' \in Token /\ now' \in Nat /\ mu' = Free
    BY <1>6 DEF FetchToken
  <2>5. mu = c
    BY <1>6 DEF FetchToken
  <2> QED BY <2>3, <2>4, <2>5
<1>7. ASSUME NEW c \in Calls, FetchFails(c) PROVE TypeOK'
  BY <1>7 DEF FetchFails
<1>8. ASSUME NEW c \in Calls, End(c) PROVE TypeOK'
  BY <1>8 DEF End
<1>9. CASE UNCHANGED vars
  BY <1>9 DEF vars
<1> QED BY <1>1, <1>2, <1>3, <1>4, <1>5, <1>6, <1>7, <1>8, <1>9 DEF Next, InvokeTriageAgent

\* Every step keeps the times of fetches and tokens in order.
LEMMA TokenStep == TokenInv /\ [Next]_vars => TokenInv'
<1> USE TokenAssumption DEF Token, Call, Fetching, IdleCall
<1> SUFFICES ASSUME TokenInv, [Next]_vars PROVE (BeliefClose /\ FetchBounded /\ IssuedInFetch)'
  BY TypeStep DEF TokenInv
<1> USE DEF TokenInv, TypeOK, BeliefClose, FetchBounded, IssuedInFetch
<1>1. CASE Tick
  BY <1>1 DEF Tick
<1>2. ASSUME NEW c \in Calls, Invoke(c) PROVE (BeliefClose /\ FetchBounded /\ IssuedInFetch)'
  BY <1>2 DEF Invoke
<1>3. ASSUME NEW c \in Calls, TakeCached(c)
      PROVE (BeliefClose /\ FetchBounded /\ IssuedInFetch)'
  BY <1>3 DEF TakeCached
<1>4. ASSUME NEW c \in Calls, BeginFetch(c)
      PROVE (BeliefClose /\ FetchBounded /\ IssuedInFetch)'
  BY <1>4 DEF BeginFetch
<1>5. ASSUME NEW c \in Calls, NEW l \in Lifetimes, Issue(c, l)
      PROVE (BeliefClose /\ FetchBounded /\ IssuedInFetch)'
  BY <1>5 DEF Issue
<1>6. ASSUME NEW c \in Calls, FetchToken(c)
      PROVE (BeliefClose /\ FetchBounded /\ IssuedInFetch)'
  BY <1>6 DEF FetchToken
<1>7. ASSUME NEW c \in Calls, FetchFails(c)
      PROVE (BeliefClose /\ FetchBounded /\ IssuedInFetch)'
  BY <1>7 DEF FetchFails
<1>8. ASSUME NEW c \in Calls, End(c) PROVE (BeliefClose /\ FetchBounded /\ IssuedInFetch)'
  BY <1>8 DEF End
<1>9. CASE UNCHANGED vars
  BY <1>9 DEF vars
<1> QED BY <1>1, <1>2, <1>3, <1>4, <1>5, <1>6, <1>7, <1>8, <1>9 DEF Next, InvokeTriageAgent

\* A request either goes on, within its time, or has just been handed its token.
LEMMA RequestOrigin ==
    ASSUME TypeOK, [Next]_vars, NEW c \in Calls, call'[c].pc = "request"
    PROVE  \/ /\ call[c].pc = "request"
              /\ call'[c] = call[c]
              /\ now' = now \/ (now' = now + 1 /\ now < call[c].at + AgentTimeout)
           \/ TakeCached(c)
           \/ FetchToken(c)
<1> USE DEF Token, Call, Fetching, IdleCall, TypeOK
<1> DEFINE Goes == /\ call[c].pc = "request"
                   /\ call'[c] = call[c]
                   /\ now' = now \/ (now' = now + 1 /\ now < call[c].at + AgentTimeout)
<1>1. CASE Tick
  BY <1>1 DEF Tick
<1>2. ASSUME NEW d \in Calls, Invoke(d) PROVE Goes
  BY <1>2 DEF Invoke
<1>3. ASSUME NEW d \in Calls, TakeCached(d) PROVE Goes \/ TakeCached(c)
  <2>1. CASE d # c
    BY <1>3, <2>1 DEF TakeCached
  <2> QED BY <1>3, <2>1
<1>4. ASSUME NEW d \in Calls, BeginFetch(d) PROVE Goes
  BY <1>4 DEF BeginFetch
<1>5. ASSUME NEW d \in Calls, NEW l \in Lifetimes, Issue(d, l) PROVE Goes
  <2>1. CASE d # c
    BY <1>5, <2>1 DEF Issue
  <2>2. CASE d = c
    <3>1. call'[c] = [call[c] EXCEPT !.pc = "issued", !.lifetime = l, !.expires = now + l]
      BY <1>5, <2>2 DEF Issue
    <3>2. call'[c].pc = "issued"
      BY <3>1
    <3> QED BY <3>2
  <2> QED BY <2>1, <2>2
<1>6. ASSUME NEW d \in Calls, FetchToken(d) PROVE Goes \/ FetchToken(c)
  <2>1. CASE d # c
    BY <1>6, <2>1 DEF FetchToken
  <2> QED BY <1>6, <2>1
<1>7. ASSUME NEW d \in Calls, FetchFails(d) PROVE Goes
  BY <1>7 DEF FetchFails
<1>8. ASSUME NEW d \in Calls, End(d) PROVE Goes
  BY <1>8 DEF End
<1>9. CASE UNCHANGED vars
  BY <1>9 DEF vars
<1> QED BY <1>1, <1>2, <1>3, <1>4, <1>5, <1>6, <1>7, <1>8, <1>9 DEF Next, InvokeTriageAgent

\* A call that is handed a token is handed one that lives.
LEMMA HandOutStep ==
    ASSUME FetchCovered, TokenInv, [Next]_vars,
           NEW c \in Calls, call[c].pc # "request", call'[c].pc = "request"
    PROVE  now < call'[c].expires
<1> USE TokenAssumption DEF Token, Call, Fetching, IdleCall, TokenInv, TypeOK
<1>1. TakeCached(c) \/ FetchToken(c)
  BY RequestOrigin
<1>2. CASE TakeCached(c)
  BY <1>2 DEF TakeCached, Valid, BeliefClose, FetchCovered
<1>3. CASE FetchToken(c)
  BY <1>3 DEF FetchToken, FetchBounded, IssuedInFetch, FetchCovered
<1> QED BY <1>1, <1>2, <1>3

\* What a request's token has left is settled when it is handed out, by the buffer if it
\* was cached and by its lifetime if it was fetched.
LEMMA RequestStep ==
    ASSUME TokenInv, RequestCovered, [Next]_vars
    PROVE  RequestCovered'
<1> USE TokenAssumption DEF Token, Call, Fetching, IdleCall, TokenInv, TypeOK
<1> SUFFICES ASSUME NEW c \in Calls, call'[c].pc = "request"
             PROVE  \E l \in Lifetimes \cup {Buffer} :
                        call'[c].since + l <= call'[c].expires + FetchTimeout
  BY DEF RequestCovered
<1>1. CASE call[c].pc = "request" /\ call'[c] = call[c]
  BY <1>1 DEF RequestCovered
<1>2. CASE TakeCached(c)
  <2>1. call'[c].since = now /\ call'[c].expires = token.expires
    BY <1>2 DEF TakeCached
  <2>2. now + Buffer <= token.expires + FetchTimeout
    BY <1>2 DEF TakeCached, Valid, BeliefClose
  <2> QED BY <2>1, <2>2
<1>3. CASE FetchToken(c)
  <2>1. call'[c].since = now /\ call'[c].expires = call[c].expires
    BY <1>3 DEF FetchToken
  <2>2. call[c].lifetime \in Lifetimes /\ now + call[c].lifetime <= call[c].expires + FetchTimeout
    BY <1>3 DEF FetchToken, FetchBounded, IssuedInFetch
  <2> QED BY <2>1, <2>2
<1> QED BY <1>1, <1>2, <1>3, RequestOrigin

-----------------------------------------------------------------------------
\* For any calls and any clock bound the times stay in order.
THEOREM TokenInvariant == Spec => []TokenInv
BY InitToken, TokenStep, PTL DEF Spec

\* The provider's types, and: whoever fetches holds the mutex, and nobody else.
THEOREM TokenTypeOK == Spec => []TypeOK
<1>1. TokenInv => TypeOK
  BY DEF TokenInv
<1> QED BY <1>1, TokenInvariant, PTL

\* With a buffer of at least a fetch no call is handed an expired token.
THEOREM TokenLive ==
    ASSUME FetchCovered
    PROVE  Spec => TokenLiveAtHandOut
<1>1. TokenInv /\ [Next]_vars
        => [\A c \in Calls : (call[c].pc # "request" /\ call'[c].pc = "request")
                                 => now < call'[c].expires]_vars
  BY HandOutStep
<1>2. Spec => []TokenInv
  BY TokenInvariant
<1> QED BY <1>1, <1>2, PTL DEF Spec, TokenLiveAtHandOut

\* Whatever the activity timeout is, the beginning of every request is covered: for the
\* buffer of 150 s and a fetch of 10 s, the first 140 s of the 300 s.
THEOREM TokenBufferCovers == Spec => []BufferCovers
<1>1. TokenInv /\ RequestCovered /\ [Next]_vars => (TokenInv /\ RequestCovered)'
  BY TokenStep, RequestStep
<1>2. TokenInv /\ RequestCovered => BufferCovers
  <2> SUFFICES ASSUME TokenInv, RequestCovered, NEW c \in Calls, call[c].pc = "request",
                      \A l \in Lifetimes \cup {Buffer} : now + FetchTimeout < call[c].since + l
               PROVE  now < call[c].expires
    BY DEF BufferCovers
  <2>1. PICK l \in Lifetimes \cup {Buffer} : call[c].since + l <= call[c].expires + FetchTimeout
    BY DEF RequestCovered
  <2>2. /\ l \in Nat /\ now \in Nat /\ FetchTimeout \in Nat
        /\ call[c].since \in Nat /\ call[c].expires \in Nat
    BY TokenAssumption DEF TokenInv, TypeOK, Call
  <2>3. now + FetchTimeout < call[c].since + l
    OBVIOUS
  <2> QED BY <2>1, <2>2, <2>3
<1> QED BY <1>1, <1>2, InitToken, PTL DEF Spec
=============================================================================
